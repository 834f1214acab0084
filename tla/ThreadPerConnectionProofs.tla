---------------------- MODULE ThreadPerConnectionProofs ----------------------
(***************************************************************************)
(* Theorems about ThreadPerConnection, for every set of connections, every *)
(* set of logs, every queue depth and every limit on the running threads.  *)
(***************************************************************************)
EXTENDS ThreadPerConnection, DBThreadProofs, FiniteSetTheorems

-----------------------------------------------------------------------------
(* The inductive invariant: where every entry of the log is, at any time,  *)
(* between the log, the dispatcher's hands, a queue, a thread's hands and  *)
(* the server.                                                             *)

(* dispatch has an entry it has not pushed yet.                            *)
Holding == dpc \in {"admit", "sweep", "push"}

Ended(w) == thread[w] \in {"leave", "exited", "joined", "deleted"}

(* An entry that thread w was given: one of its connection, already popped *)
(* from the log, marked as shutdown iff it is the last, not performed yet, *)
(* and earlier than the one that dispatch holds.                           *)
Given(w, en) ==
  /\ en.pos \in Positions
  /\ en.pos < next
  /\ Holding => en.pos < entry.pos
  /\ getThreadId(en.pos) = w
  /\ en.shutdown = (en.pos \in LastQueries)
  /\ performed[en.pos] = 0

DispatchInv ==
  /\ dpc # "start" => last_query_of_conn = LastQueries
  /\ dpc = "start" => /\ next = 1
                      /\ \A c \in ThreadIds : executors[c] = "absent"
  /\ Holding => /\ entry.pos \in Positions
                /\ entry.pos = next - 1
                /\ entry.shutdown = (entry.pos \in LastQueries)
                /\ performed[entry.pos] = 0
  /\ dpc \in {"admit", "sweep"} => executors[conn] = "null"
  /\ dpc = "push" => executors[conn] = "thread"
  /\ dpc \in {"finish", "returned"} => next = Len(log) + 1

QueueInvOf(w) ==
  /\ \A k \in 1 .. Len(queries[w]) : Given(w, queries[w][k])
  /\ \A k, m \in 1 .. Len(queries[w]) :
       m < k => queries[w][m].pos < queries[w][k].pos

QueryInvOf(w) ==
  thread[w] = "perform" =>
    /\ Given(w, query[w])
    /\ \A k \in 1 .. Len(queries[w]) : query[w].pos < queries[w][k].pos

(* Nothing is lost: an entry popped from the log and not performed is with *)
(* the dispatcher, in the queue of its thread, or with its thread.         *)
Somewhere(e) ==
  \/ Holding /\ e = entry.pos
  \/ \E k \in 1 .. Len(queries[getThreadId(e)]) :
       queries[getThreadId(e)][k].pos = e
  \/ thread[getThreadId(e)] = "perform" /\ query[getThreadId(e)].pos = e

PerformedInvOf(e) ==
  /\ performed[e] \in {0, 1}
  /\ e >= next => performed[e] = 0
  /\ e < next /\ performed[e] = 0 => Somewhere(e)

(* A thread that ends leaves nothing undone; outside its loop it has no    *)
(* entry and, but before its disconnect, no connection.                    *)
EndedInvOf(w) ==
  /\ Ended(w) => \A e \in Positions : getThreadId(e) = w => performed[e] = 1
  /\ thread[w] \notin {"pop", "perform"} => queries[w] = << >>
  /\ thread[w] # "perform" => query[w] = NoEntry
  /\ thread[w] \notin {"pop", "perform", "leave"} => ~connected[w]

(* The table tells which threads have been started and not joined by a     *)
(* sweep.                                                                  *)
TableInvOf(w) ==
  /\ executors[w] = "absent" => thread[w] \in {"none", "joined"}
  /\ executors[w] = "null" => /\ dpc \in {"admit", "sweep"}
                              /\ conn = w
                              /\ thread[w] = "none"
  /\ executors[w] = "thread" => thread[w] \notin {"none", "joined"}
  /\ dpc = "finish" /\ executors[w] = "thread" /\ w \notin unvisited =>
       thread[w] = "deleted"
  /\ dpc = "returned" /\ executors[w] = "thread" => thread[w] = "deleted"

QueueInv     == \A w \in Workers : QueueInvOf(w)
QueryInv     == \A w \in Workers : QueryInvOf(w)
PerformedInv == \A e \in Positions : PerformedInvOf(e)
EndedInv     == \A w \in Workers : EndedInvOf(w)
TableInv     == \A w \in Workers : TableInvOf(w)

(* The threads in the table, of which num_running keeps count.             *)
Started == {c \in ThreadIds : executors[c] = "thread"}

CountInv ==
  /\ IsFiniteSet(Started)
  /\ num_running = Cardinality(Started)
  /\ num_running <= MaxRunning + 1
  /\ dpc = "start" => Started = {}

(* Some of a connection has been popped if there is a key of it, and it    *)
(* has been given a thread if some of it has been performed.               *)
BegunInv ==
  /\ \A c \in Keys : \E d \in Positions : d < next /\ getThreadId(d) = c
  /\ \A e \in Positions : performed[e] # 0 => thread[getThreadId(e)] # "none"

(* The first query of a connection that finds more than MaxRunning others  *)
(* open, and what becomes of it: dispatch never gets it a thread.          *)
Crowded(e) ==
  /\ \A d \in R!Earlier(e) : FALSE
  /\ ~(Cardinality(OpenAt(e)) <= MaxRunning)

StuckInv ==
  \A e \in Positions : Crowded(e) =>
    \/ next <= e
    \/ next = e + 1 /\ dpc \in {"admit", "sweep"}

PlaceInv ==
  /\ TypeOK
  /\ DispatchInv
  /\ QueueInv
  /\ QueryInv
  /\ PerformedInv
  /\ EndedInv
  /\ TableInv

(* The last entry of a connection ends its thread; no thread is deleted    *)
(* but by finish_all_and_wait; and a loop over the table visits keys that  *)
(* it has.                                                                 *)
LastInv ==
  /\ \A e \in LastQueries : performed[e] # 0 => Ended(getThreadId(e))
  /\ \A w \in Workers : thread[w] = "deleted" =>
       dpc = "returned" \/ (dpc = "finish" /\ w \notin unvisited)
  /\ dpc \in {"sweep", "finish"} => unvisited \subseteq Keys

IInv == PlaceInv /\ CountInv /\ BegunInv /\ StuckInv /\ LastInv

-----------------------------------------------------------------------------
(* The initial state has the types of TypeOK.                              *)
LEMMA TypeInit == Init => TypeOK
<1> SUFFICES ASSUME Init PROVE TypeOK
  OBVIOUS
<1>1. log \in Seq([thread_id : ThreadIds, quit : BOOLEAN])
  BY LogsAssumption DEF Init
<1>2. Len(log) \in Nat
  BY <1>1
<1>3. WorkerTypeOK
  BY EntriesType, <1>2 DEF Init, WorkerInit, WorkerTypeOK, ThreadStates
<1> QED
  BY EntriesType, <1>2, <1>3 DEF Init, TypeOK

(* A step of a database thread keeps the types of its state.               *)
LEMMA TypeRun ==
  ASSUME TypeOK, NEW w \in Workers, RunThread(w)
  PROVE  TypeOK'
<1>1. WorkerTypeOK' /\ log' = log
  BY RunType DEF TypeOK, RunThread
<1> QED
  BY <1>1 DEF TypeOK, RunThread, dispatchVars, Positions

(* A step of the dispatcher keeps the types of the whole state.            *)
LEMMA TypeDispatcher ==
  ASSUME TypeOK, Dispatcher
  PROVE  TypeOK'
<1> USE DEF TypeOK, WorkerTypeOK, workerVars, Positions
<1>0. Len(log) \in Nat
  BY LogsAssumption
<1>1. CASE Dispatch
  BY <1>1 DEF Dispatch, LastQueries
<1>2. CASE PopEntry
  <2>1. next' \in 1 .. Len(log) + 1
    BY <1>0, <1>2 DEF PopEntry
  <2>2. entry' \in Entries
    BY <1>0, <1>2 DEF PopEntry, Entries
  <2>3. executors' \in [ThreadIds -> {"absent", "null", "thread"}]
    BY <1>2 DEF PopEntry
  <2> QED
    BY <1>2, <2>1, <2>2, <2>3 DEF PopEntry
<1>3. CASE Sleep
  BY <1>3 DEF Sleep, Keys
<1>4. CASE Create
  <2>1. executors' \in [ThreadIds -> {"absent", "null", "thread"}]
    BY <1>4 DEF Create
  <2>2. queries' \in [Workers -> Seq(Entries)]
    <3>1. << >> \in Seq(Entries)
      OBVIOUS
    <3> QED
      BY <1>4, <3>1, ExceptType DEF Create, StartThread
  <2>3. thread' \in [Workers -> ThreadStates]
    BY <1>4 DEF Create, StartThread, ThreadStates
  <2>4. query' \in [Workers -> Entries]
    BY <1>4, EntriesType, ExceptType DEF Create, StartThread
  <2>5. connected' \in [Workers -> BOOLEAN]
    BY <1>4 DEF Create, StartThread
  <2> QED
    BY <1>4, <2>1, <2>2, <2>3, <2>4, <2>5 DEF Create, StartThread
<1>5. CASE Push
  <2>1. conn \in Workers => Append(queries[conn], entry) \in Seq(Entries)
    OBVIOUS
  <2>2. queries' \in [Workers -> Seq(Entries)]
    BY <1>5, <2>1, ExceptType DEF Push, PushQuery
  <2> QED
    BY <1>5, <2>2, EntriesType DEF Push, PushQuery
<1>6. CASE EndDispatch
  BY <1>6 DEF EndDispatch, Keys
<1>7. CASE EndSweep
  BY <1>7 DEF EndSweep
<1>8. CASE Return
  BY <1>8 DEF Return
<1>9. ASSUME NEW c \in ThreadIds, TryJoin(c) PROVE TypeOK'
  <2>1. thread' \in [Workers -> ThreadStates]
    BY <1>9 DEF TryJoin, JoinThread, ThreadStates
  <2>2. executors' \in [ThreadIds -> {"absent", "null", "thread"}]
    BY <1>9 DEF TryJoin
  <2> QED
    BY <1>9, <2>1, <2>2 DEF TryJoin, JoinThread
<1>10. ASSUME NEW c \in ThreadIds, SkipJoin(c) PROVE TypeOK'
  BY <1>10 DEF SkipJoin
<1>11. ASSUME NEW c \in ThreadIds, Join(c) PROVE TypeOK'
  BY <1>11 DEF Join, JoinThread, ThreadStates
<1> QED
  BY <1>1, <1>2, <1>3, <1>4, <1>5, <1>6, <1>7, <1>8, <1>9, <1>10, <1>11
     DEF Dispatcher

(* Every step, and every stuttering step, keeps the types.                 *)
LEMMA TypeStep == TypeOK /\ [Next]_vars => TypeOK'
<1> SUFFICES ASSUME TypeOK, [Next]_vars PROVE TypeOK'
  OBVIOUS
<1>1. CASE UNCHANGED vars
  BY <1>1 DEF TypeOK, WorkerTypeOK, vars, workerVars, dispatchVars, Positions
<1> QED
  BY <1>1, TypeRun, TypeDispatcher DEF Next, Terminated

(* Every variable of dispatcher and threads always has its type.           *)
THEOREM TypeCorrect == SafeSpec => []TypeOK
  BY TypeInit, TypeStep, PTL DEF SafeSpec

-----------------------------------------------------------------------------
(* The inductive invariant.                                                *)

(* Positions are the integers from 1 to the length of the log, and each is *)
(* one of some connection.                                                 *)
LEMMA LogFacts ==
  ASSUME TypeOK
  PROVE  /\ Len(log) \in Nat
         /\ Positions = 1 .. Len(log)
         /\ \A e \in Positions : getThreadId(e) \in Workers
BY LogPositions, WorkersAssumption DEF TypeOK

(* Initially nothing has been popped and no thread exists.                 *)
LEMMA InitPlaceInv == Init => PlaceInv
<1> SUFFICES ASSUME Init PROVE PlaceInv
  OBVIOUS
<1>1. TypeOK
  BY TypeInit
<1>2. DispatchInv
  BY DEF Init, DispatchInv, Holding
<1>3. QueueInv
  BY DEF Init, WorkerInit, QueueInv, QueueInvOf
<1>4. QueryInv
  BY DEF Init, WorkerInit, QueryInv, QueryInvOf
<1>5. PerformedInv
  BY LogFacts, <1>1 DEF Init, WorkerInit, PerformedInv, PerformedInvOf
<1>6. EndedInv /\ TableInv
  BY WorkersAssumption
     DEF Init, WorkerInit, EndedInv, EndedInvOf, TableInv, TableInvOf, Ended
<1> QED
  BY <1>1, <1>2, <1>3, <1>4, <1>5, <1>6 DEF PlaceInv

(* The steps of the dispatcher that move it on and leave the threads, the  *)
(* table and the entry in its hands alone.                                 *)
LEMMA ControlPlaceInv ==
  ASSUME PlaceInv, TypeOK',
         \/ Dispatch \/ Sleep \/ EndDispatch \/ EndSweep \/ Return
         \/ \E c \in ThreadIds : SkipJoin(c)
  PROVE  PlaceInv'
<1> USE DEF PlaceInv
<1>0. /\ UNCHANGED <<log, workerVars, executors, next, entry>>
      /\ Holding' = Holding
      /\ dpc' # "start" /\ (dpc' = "push" <=> dpc = "push")
      /\ dpc' \in {"admit", "sweep"} <=> dpc \in {"admit", "sweep"}
  BY DEF Dispatch, Sleep, EndDispatch, EndSweep, Return, SkipJoin, Holding
<1>1. Positions' = Positions /\ LastQueries' = LastQueries
  BY <1>0, LogFixed
<1>2. Len(log) \in Nat /\ Positions = 1 .. Len(log)
  BY LogFacts
<1>3. DispatchInv'
  <2>1. last_query_of_conn' = LastQueries
    BY DEF Dispatch, Sleep, EndDispatch, EndSweep, Return, SkipJoin, DispatchInv
  <2>2. dpc' \in {"finish", "returned"} => next = Len(log) + 1
    BY <1>2 DEF Dispatch, Sleep, EndDispatch, EndSweep, Return, SkipJoin,
                DispatchInv, TypeOK
  <2> QED
    BY <1>0, <1>1, <2>1, <2>2 DEF DispatchInv, conn, getThreadId, workerVars
<1>4. QueueInv'
  BY <1>0, <1>1 DEF QueueInv, QueueInvOf, Given, getThreadId, workerVars
<1>5. QueryInv'
  BY <1>0, <1>1 DEF QueryInv, QueryInvOf, Given, getThreadId, workerVars
<1>6. PerformedInv'
  BY <1>0, <1>1 DEF PerformedInv, PerformedInvOf, Somewhere, getThreadId, workerVars
<1>7. EndedInv'
  BY <1>0, <1>1 DEF EndedInv, EndedInvOf, Ended, getThreadId, workerVars
<1>8. TableInv'
  <2> SUFFICES ASSUME NEW w \in Workers PROVE TableInvOf(w)'
    BY <1>0 DEF TableInv, workerVars
  <2>1. TableInvOf(w) /\ w \in ThreadIds
    BY WorkersAssumption DEF TableInv
  <2>2. conn' = conn
    BY <1>0 DEF conn, getThreadId
  <2>3. dpc' = "finish" /\ executors[w] = "thread" /\ w \notin unvisited' =>
          thread[w] = "deleted"
    BY <2>1 DEF TableInvOf, Keys, Dispatch, Sleep, EndDispatch, EndSweep, Return, SkipJoin
  <2>4. dpc' = "returned" /\ executors[w] = "thread" => thread[w] = "deleted"
    BY <2>1 DEF TableInvOf, Keys, Dispatch, Sleep, EndDispatch, EndSweep, Return, SkipJoin
  <2> QED
    BY <1>0, <2>1, <2>2, <2>3, <2>4 DEF TableInvOf, workerVars
<1> QED
  BY <1>3, <1>4, <1>5, <1>6, <1>7, <1>8

(* popEntry: the entry was in the log, and is now in dispatch's hands.     *)
LEMMA PopEntryPlaceInv ==
  ASSUME PlaceInv, TypeOK', PopEntry
  PROVE  PlaceInv'
<1> USE DEF PlaceInv
<1> DEFINE c == getThreadId(next)
<1>0. UNCHANGED <<log, workerVars>>
  BY DEF PopEntry
<1>1. Positions' = Positions /\ LastQueries' = LastQueries
  BY <1>0, LogFixed
<1>2. Len(log) \in Nat /\ Positions = 1 .. Len(log) /\ c \in Workers
  BY LogFacts DEF PopEntry
<1>3. /\ next \in Positions /\ performed[next] = 0
      /\ entry'.pos = next /\ next' = next + 1
      /\ entry'.shutdown = (next \in LastQueries)
      /\ ~Holding /\ Holding' /\ conn' = c
      /\ last_query_of_conn' = LastQueries
  BY <1>0, <1>2 DEF PopEntry, PerformedInv, PerformedInvOf, DispatchInv, Holding,
                    conn, getThreadId
<1>4. \A w \in Workers :
        IF w # c \/ executors[c] # "absent"
        THEN executors'[w] = executors[w]
        ELSE executors'[w] = "null"
  BY <1>2, WorkersAssumption DEF PopEntry, TypeOK
<1>5. executors[c] \in {"absent", "thread"}
  BY <1>2, <1>3, WorkersAssumption DEF TypeOK, TableInv, TableInvOf, Holding
<1>6. thread[c] = "none" \/ executors[c] = "thread"
  BY <1>2, <1>3, <1>5 DEF TableInv, TableInvOf, EndedInv, EndedInvOf, Ended
<1>7. DispatchInv'
  <2>1. dpc' = IF executors[c] = "absent" THEN "admit" ELSE "push"
    BY DEF PopEntry
  <2>2. next' \in Int /\ next' - 1 = next
    BY <1>2, <1>3
  <2>3. performed'[next] = 0
    BY <1>0, <1>3 DEF workerVars
  <2>4. executors'[c] = IF executors[c] = "absent" THEN "null" ELSE "thread"
    BY <1>2, <1>4, <1>5
  <2> QED
    BY <1>1, <1>3, <2>1, <2>2, <2>3, <2>4 DEF DispatchInv
<1>8. QueueInv'
  BY <1>0, <1>1, <1>2, <1>3 DEF QueueInv, QueueInvOf, Given, getThreadId, workerVars
<1>9. QueryInv'
  BY <1>0, <1>1, <1>2, <1>3 DEF QueryInv, QueryInvOf, Given, getThreadId, workerVars
<1>10. PerformedInv'
  BY <1>0, <1>1, <1>2, <1>3
     DEF PerformedInv, PerformedInvOf, Somewhere, getThreadId, workerVars
<1>11. EndedInv'
  BY <1>0, <1>1 DEF EndedInv, EndedInvOf, Ended, getThreadId, workerVars
<1>12. TableInv'
  <2> SUFFICES ASSUME NEW w \in Workers PROVE TableInvOf(w)'
    BY <1>0 DEF TableInv
  <2>1. TableInvOf(w)
    BY DEF TableInv
  <2>2. dpc' = IF executors[c] = "absent" THEN "admit" ELSE "push"
    BY DEF PopEntry
  <2>3. executors[w] # "null"
    BY <1>3, <2>1 DEF TableInvOf, Holding
  <2> QED
    BY <1>0, <1>2, <1>3, <1>4, <1>5, <1>6, <2>1, <2>2, <2>3
       DEF TableInvOf, workerVars
<1> QED
  BY <1>7, <1>8, <1>9, <1>10, <1>11, <1>12

(* The entry in dispatch's hands is of a connection of the log, and its    *)
(* thread, once it exists, is in its loop: it has that entry to wait for.  *)
LEMMA HeldThread ==
  ASSUME PlaceInv, Holding
  PROVE  /\ conn \in Workers
         /\ entry.pos \in Positions /\ getThreadId(entry.pos) = conn
         /\ dpc = "push" => thread[conn] \in {"pop", "perform"}
<1> USE DEF PlaceInv
<1>1. entry.pos \in Positions /\ performed[entry.pos] = 0
  BY DEF DispatchInv
<1>2. conn \in Workers /\ getThreadId(entry.pos) = conn
  BY <1>1, LogFacts DEF conn
<1>3. ~Ended(conn)
  BY <1>1, <1>2 DEF EndedInv, EndedInvOf
<1>4. dpc = "push" => thread[conn] # "none"
  BY <1>2 DEF DispatchInv, TableInv, TableInvOf
<1> QED
  BY <1>1, <1>2, <1>3, <1>4 DEF Ended, TypeOK, WorkerTypeOK, ThreadStates

(* The thread of a connection is started with nothing in its queue.        *)
LEMMA CreatePlaceInv ==
  ASSUME PlaceInv, TypeOK', Create
  PROVE  PlaceInv'
<1> USE DEF PlaceInv
<1>0. UNCHANGED <<log, next, entry, performed, last_query_of_conn>>
  BY DEF Create, StartThread
<1>1. Positions' = Positions /\ LastQueries' = LastQueries /\ conn' = conn
  BY <1>0, LogFixed DEF conn, getThreadId
<1>2. Holding /\ Holding' /\ dpc = "admit" /\ dpc' = "push"
  BY DEF Create, Holding
<1>3. conn \in Workers
  BY <1>2, HeldThread
<1>4. /\ executors[conn] = "null" /\ thread[conn] = "none"
      /\ queries[conn] = << >>
  BY <1>2, <1>3 DEF DispatchInv, TableInv, TableInvOf, EndedInv, EndedInvOf
<1>5. /\ queries' = queries
      /\ executors'[conn] = "thread" /\ thread'[conn] = "pop"
      /\ query'[conn] = NoEntry
      /\ \A w \in Workers \ {conn} : /\ executors'[w] = executors[w]
                                     /\ thread'[w] = thread[w]
                                     /\ query'[w] = query[w]
                                     /\ connected'[w] = connected[w]
  BY <1>3, <1>4, WorkersAssumption
     DEF Create, StartThread, TypeOK, WorkerTypeOK
<1>6. DispatchInv'
  BY <1>0, <1>1, <1>2, <1>5 DEF DispatchInv
<1>7. QueueInv'
  BY <1>0, <1>1, <1>2, <1>5 DEF QueueInv, QueueInvOf, Given, getThreadId
<1>8. QueryInv'
  BY <1>0, <1>1, <1>2, <1>3, <1>5 DEF QueryInv, QueryInvOf, Given, getThreadId
<1>9. PerformedInv'
  <2> SUFFICES ASSUME NEW e \in Positions PROVE PerformedInvOf(e)'
    BY <1>1 DEF PerformedInv
  <2>1. PerformedInvOf(e) /\ getThreadId(e)' = getThreadId(e)
    BY <1>0 DEF PerformedInv, getThreadId
  <2>2. getThreadId(e) \in Workers
    BY LogFacts
  <2>3. Somewhere(e) => Somewhere(e)'
    BY <1>0, <1>2, <1>4, <1>5, <2>1, <2>2 DEF Somewhere
  <2> QED
    BY <1>0, <2>1, <2>3 DEF PerformedInvOf
<1>10. EndedInv'
  BY <1>0, <1>1, <1>3, <1>5 DEF EndedInv, EndedInvOf, Ended, getThreadId
<1>11. TableInv'
  BY <1>0, <1>1, <1>2, <1>3, <1>5 DEF TableInv, TableInvOf
<1> QED
  BY <1>6, <1>7, <1>8, <1>9, <1>10, <1>11

(* The entry goes from dispatch's hands to the end of its thread's queue.  *)
LEMMA PushPlaceInv ==
  ASSUME PlaceInv, TypeOK', Push
  PROVE  PlaceInv'
<1> USE DEF PlaceInv
<1>0. /\ UNCHANGED <<log, next, performed, last_query_of_conn, executors>>
      /\ UNCHANGED <<thread, query, connected>>
  BY DEF Push, PushQuery
<1>1. Positions' = Positions /\ LastQueries' = LastQueries
  BY <1>0, LogFixed
<1>2. Holding /\ ~Holding' /\ dpc = "push" /\ dpc' = "pop"
  BY DEF Push, Holding
<1>3. /\ conn \in Workers /\ thread[conn] \in {"pop", "perform"}
      /\ entry.pos \in Positions /\ getThreadId(entry.pos) = conn
      /\ entry.pos = next - 1 /\ next \in Nat /\ Positions \subseteq Nat
      /\ entry.shutdown = (entry.pos \in LastQueries)
      /\ performed[entry.pos] = 0
  BY <1>2, HeldThread, LogFacts DEF DispatchInv, TypeOK
<1>4. queries[conn] \in Seq(Entries) /\ entry \in Entries
  BY <1>3 DEF TypeOK, WorkerTypeOK
<1> DEFINE n == Len(queries[conn])
<1>5. /\ n \in Nat /\ Len(queries'[conn]) = n + 1
      /\ queries'[conn][n + 1] = entry
      /\ \A k \in 1 .. n : queries'[conn][k] = queries[conn][k]
      /\ \A w \in Workers \ {conn} : queries'[w] = queries[w]
  BY <1>3, <1>4 DEF Push, PushQuery, TypeOK, WorkerTypeOK
<1>6. DispatchInv'
  BY <1>0, <1>1, <1>2 DEF DispatchInv, Holding
<1>7. QueueInv'
  <2> SUFFICES ASSUME NEW w \in Workers PROVE QueueInvOf(w)'
    BY <1>0 DEF QueueInv
  <2>1. QueueInvOf(w)
    BY DEF QueueInv
  <2>2. CASE w # conn
    BY <1>0, <1>1, <1>2, <1>5, <2>1, <2>2 DEF QueueInvOf, Given, getThreadId
  <2>3. CASE w = conn
    <3>1. \A k \in 1 .. n : Given(w, queries[w][k])
      BY <2>1, <2>3 DEF QueueInvOf
    <3>2. ASSUME NEW k \in 1 .. n + 1 PROVE Given(w, queries[w][k])'
      <4>1. k \in 1 .. n \/ k = n + 1
        BY <1>5
      <4>2. CASE k \in 1 .. n
        <5>1. Given(w, queries[w][k]) /\ queries'[w][k] = queries[w][k]
          BY <1>5, <2>3, <3>1, <4>2
        <5> QED
          BY <1>0, <1>1, <1>2, <5>1 DEF Given, getThreadId
      <4>3. CASE k = n + 1
        <5>1. queries'[w][k] = entry /\ entry.pos < next
          BY <1>3, <1>5, <2>3, <4>3
        <5> QED
          BY <1>0, <1>1, <1>2, <1>3, <2>3, <5>1 DEF Given, getThreadId
      <4> QED
        BY <4>1, <4>2, <4>3
    <3>3. \A k \in 1 .. n : queries[w][k].pos < entry.pos
      BY <1>2, <3>1 DEF Given
    <3>4. ASSUME NEW k \in 1 .. n + 1, NEW m \in 1 .. n + 1, m < k
          PROVE  queries'[w][m].pos < queries'[w][k].pos
      <4>1. m \in 1 .. n
        BY <1>5, <3>4
      <4>2. k \in 1 .. n \/ k = n + 1
        BY <1>5
      <4> QED
        BY <1>5, <2>1, <2>3, <3>3, <3>4, <4>1, <4>2 DEF QueueInvOf
    <3> QED
      BY <1>5, <2>3, <3>2, <3>4 DEF QueueInvOf
  <2> QED
    BY <2>2, <2>3
<1>8. QueryInv'
  <2> SUFFICES ASSUME NEW w \in Workers, thread[w] = "perform"
               PROVE  /\ Given(w, query[w])'
                      /\ \A k \in 1 .. Len(queries'[w]) :
                           query[w].pos < queries'[w][k].pos
    BY <1>0 DEF QueryInv, QueryInvOf
  <2>1. /\ Given(w, query[w])
        /\ \A k \in 1 .. Len(queries[w]) : query[w].pos < queries[w][k].pos
    BY DEF QueryInv, QueryInvOf
  <2>2. Given(w, query[w])'
    BY <1>0, <1>1, <1>2, <2>1 DEF Given, getThreadId
  <2>3. query[w].pos < entry.pos
    BY <1>2, <2>1 DEF Given
  <2>4. ASSUME NEW k \in 1 .. Len(queries'[w])
        PROVE  query[w].pos < queries'[w][k].pos
    <3>1. CASE w # conn
      BY <1>5, <2>1, <3>1
    <3>2. CASE w = conn
      <4>1. k \in 1 .. n \/ k = n + 1
        BY <1>5, <3>2
      <4> QED
        BY <1>5, <2>1, <2>3, <3>2, <4>1
    <3> QED
      BY <3>1, <3>2
  <2> QED
    BY <2>2, <2>4
<1>9. PerformedInv'
  <2> SUFFICES ASSUME NEW e \in Positions PROVE PerformedInvOf(e)'
    BY <1>1 DEF PerformedInv
  <2>1. PerformedInvOf(e) /\ getThreadId(e)' = getThreadId(e)
    BY <1>0 DEF PerformedInv, getThreadId
  <2>2. getThreadId(e) \in Workers
    BY LogFacts
  <2>3. Somewhere(e) => Somewhere(e)'
    <3>1. CASE e = entry.pos
      BY <1>3, <1>5, <2>1, <3>1 DEF Somewhere
    <3>2. CASE e # entry.pos /\ getThreadId(e) = conn
      <4> SUFFICES ASSUME NEW k \in 1 .. n, queries[conn][k].pos = e
                   PROVE  Somewhere(e)'
        BY <1>0, <2>1, <3>2 DEF Somewhere
      <4>1. k \in 1 .. n + 1 /\ queries'[conn][k].pos = e
        BY <1>5
      <4> QED
        BY <1>5, <2>1, <3>2, <4>1 DEF Somewhere
    <3>3. CASE e # entry.pos /\ getThreadId(e) # conn
      BY <1>0, <1>5, <2>1, <2>2, <3>3 DEF Somewhere
    <3> QED
      BY <3>1, <3>2, <3>3
  <2> QED
    BY <1>0, <2>1, <2>3 DEF PerformedInvOf
<1>10. EndedInv'
  BY <1>0, <1>1, <1>3, <1>5 DEF EndedInv, EndedInvOf, Ended, getThreadId
<1>11. TableInv'
  BY <1>0, <1>2 DEF TableInv, TableInvOf
<1> QED
  BY <1>6, <1>7, <1>8, <1>9, <1>10, <1>11

(* A join, of a sweep or of finish_all_and_wait: the thread had ended.     *)
LEMMA JoinPlaceInv ==
  ASSUME PlaceInv, TypeOK', NEW c \in ThreadIds, TryJoin(c) \/ Join(c)
  PROVE  PlaceInv'
<1> USE DEF PlaceInv
<1>0. /\ UNCHANGED <<log, next, entry, performed, last_query_of_conn, dpc>>
      /\ UNCHANGED <<queries, query, connected>>
      /\ c \in Workers /\ thread[c] = "exited" /\ executors[c] = "thread"
      /\ unvisited' = unvisited \ {c}
  BY WorkersAssumption DEF TryJoin, Join, JoinThread
<1>1. Positions' = Positions /\ LastQueries' = LastQueries /\ conn' = conn
  BY <1>0, LogFixed DEF conn, getThreadId
<1>2. \/ /\ dpc = "sweep"
         /\ executors'[c] = "absent" /\ thread'[c] = "joined"
      \/ /\ dpc = "finish"
         /\ executors'[c] = "thread" /\ thread'[c] = "deleted"
  BY <1>0, WorkersAssumption DEF TryJoin, Join, JoinThread, TypeOK, WorkerTypeOK
<1>3. \A w \in Workers \ {c} :
        executors'[w] = executors[w] /\ thread'[w] = thread[w]
  BY <1>0, WorkersAssumption DEF TryJoin, Join, JoinThread, TypeOK, WorkerTypeOK
<1>4. DispatchInv'
  <2>1. dpc \in {"admit", "sweep"} => conn \in Workers /\ conn # c
    BY <1>0, HeldThread DEF DispatchInv, Holding
  <2> QED
    BY <1>0, <1>1, <1>2, <1>3, <2>1 DEF DispatchInv, Holding
<1>5. QueueInv'
  BY <1>0, <1>1 DEF QueueInv, QueueInvOf, Given, Holding, getThreadId
<1>6. QueryInv'
  BY <1>0, <1>1, <1>2, <1>3
     DEF QueryInv, QueryInvOf, Given, Holding, getThreadId
<1>7. PerformedInv'
  <2> SUFFICES ASSUME NEW e \in Positions PROVE PerformedInvOf(e)'
    BY <1>1 DEF PerformedInv
  <2>1. PerformedInvOf(e) /\ getThreadId(e)' = getThreadId(e)
    BY <1>0 DEF PerformedInv, getThreadId
  <2>2. getThreadId(e) \in Workers
    BY LogFacts
  <2>3. Somewhere(e) => Somewhere(e)'
    BY <1>0, <1>3, <2>1, <2>2 DEF Somewhere, Holding
  <2> QED
    BY <1>0, <2>1, <2>3 DEF PerformedInvOf
<1>8. EndedInv'
  BY <1>0, <1>1, <1>2, <1>3 DEF EndedInv, EndedInvOf, Ended, getThreadId
<1>9. TableInv'
  BY <1>0, <1>1, <1>2, <1>3 DEF TableInv, TableInvOf
<1> QED
  BY <1>4, <1>5, <1>6, <1>7, <1>8, <1>9

(* A thread takes the first entry of its queue in hand.                    *)
LEMMA PopPlaceInv ==
  ASSUME PlaceInv, TypeOK', NEW w \in Workers, Pop(w), UNCHANGED <<log, dispatchVars>>
  PROVE  PlaceInv'
<1> USE DEF PlaceInv
<1>0. /\ UNCHANGED <<log, next, entry, performed, last_query_of_conn, dpc>>
      /\ UNCHANGED <<executors, unvisited, connected>>
  BY DEF Pop, dispatchVars
<1>1. Positions' = Positions /\ LastQueries' = LastQueries /\ conn' = conn
  BY <1>0, LogFixed DEF conn, getThreadId
<1> DEFINE n == Len(queries[w])
<1>2. queries[w] \in Seq(Entries) /\ queries[w] # << >>
  BY DEF Pop, TypeOK, WorkerTypeOK
<1>3. /\ n \in Nat \ {0} /\ Len(Tail(queries[w])) = n - 1
      /\ \A k \in 1 .. n - 1 : Tail(queries[w])[k] = queries[w][k + 1]
      /\ Head(queries[w]) = queries[w][1]
  BY <1>2
<1>4. /\ thread[w] = "pop" /\ thread'[w] = "perform"
      /\ query'[w] = Head(queries[w]) /\ queries'[w] = Tail(queries[w])
      /\ \A v \in Workers \ {w} : /\ thread'[v] = thread[v]
                                  /\ query'[v] = query[v]
                                  /\ queries'[v] = queries[v]
  BY DEF Pop, TypeOK, WorkerTypeOK
<1>11. /\ 1 \in 1 .. n
       /\ \A k \in 1 .. n - 1 : k + 1 \in 1 .. n /\ 1 < k + 1
       /\ \A k, m \in 1 .. n - 1 : m < k => m + 1 < k + 1
  BY <1>3
<1>12. /\ Len(queries'[w]) = n - 1
       /\ \A k \in 1 .. n - 1 : queries'[w][k] = queries[w][k + 1]
       /\ query'[w] = queries[w][1]
  BY <1>3, <1>4
<1>13. /\ \A k \in 1 .. n : Given(w, queries[w][k])
       /\ \A k, m \in 1 .. n : m < k => queries[w][m].pos < queries[w][k].pos
  BY DEF QueueInv, QueueInvOf
<1>5. DispatchInv'
  BY <1>0, <1>1 DEF DispatchInv, Holding
<1>6. QueueInv'
  <2> SUFFICES ASSUME NEW v \in Workers PROVE QueueInvOf(v)'
    BY <1>0 DEF QueueInv
  <2>1. QueueInvOf(v)
    BY DEF QueueInv
  <2>2. CASE v # w
    BY <1>0, <1>1, <1>4, <2>1, <2>2 DEF QueueInvOf, Given, Holding, getThreadId
  <2>3. CASE v = w
    <3>1. ASSUME NEW k \in 1 .. n - 1 PROVE Given(v, queries[v][k])'
      <4>1. Given(w, queries[w][k + 1])
        BY <1>11, <1>13
      <4>2. queries'[v][k] = queries[w][k + 1]
        BY <1>12, <2>3
      <4> QED
        BY <1>0, <1>1, <2>3, <4>1, <4>2 DEF Given, Holding, getThreadId
    <3>2. ASSUME NEW k \in 1 .. n - 1, NEW m \in 1 .. n - 1, m < k
          PROVE  queries'[v][m].pos < queries'[v][k].pos
      <4>1. queries[w][m + 1].pos < queries[w][k + 1].pos
        BY <1>11, <1>13, <3>2
      <4> QED
        BY <1>12, <2>3, <4>1
    <3> QED
      BY <1>12, <2>3, <3>1, <3>2 DEF QueueInvOf
  <2> QED
    BY <2>2, <2>3
<1>7. QueryInv'
  <2> SUFFICES ASSUME NEW v \in Workers PROVE QueryInvOf(v)'
    BY <1>0 DEF QueryInv
  <2>1. QueryInvOf(v) /\ QueueInvOf(v)
    BY DEF QueryInv, QueueInv
  <2>2. CASE v # w
    BY <1>0, <1>1, <1>4, <2>1, <2>2 DEF QueryInvOf, Given, Holding, getThreadId
  <2>3. CASE v = w
    <3>1. Given(w, queries[w][1])
      BY <1>11, <1>13
    <3>2. Given(v, query[v])'
      BY <1>0, <1>1, <1>12, <2>3, <3>1 DEF Given, Holding, getThreadId
    <3>3. ASSUME NEW k \in 1 .. n - 1
          PROVE  query'[v].pos < queries'[v][k].pos
      BY <1>11, <1>12, <1>13, <2>3
    <3> QED
      BY <1>12, <2>3, <3>2, <3>3 DEF QueryInvOf
  <2> QED
    BY <2>2, <2>3
<1>8. PerformedInv'
  <2> SUFFICES ASSUME NEW e \in Positions PROVE PerformedInvOf(e)'
    BY <1>1 DEF PerformedInv
  <2>1. PerformedInvOf(e) /\ getThreadId(e)' = getThreadId(e)
    BY <1>0 DEF PerformedInv, getThreadId
  <2>2. getThreadId(e) \in Workers
    BY LogFacts
  <2>3. Somewhere(e) => Somewhere(e)'
    <3>1. CASE getThreadId(e) # w
      BY <1>0, <1>4, <2>1, <2>2, <3>1 DEF Somewhere, Holding
    <3>2. CASE getThreadId(e) = w
      <4>1. ASSUME NEW k \in 1 .. n, queries[w][k].pos = e
            PROVE  Somewhere(e)'
        <5>1. CASE k = 1
          BY <1>4, <1>12, <2>1, <3>2, <4>1, <5>1 DEF Somewhere
        <5>2. CASE k # 1
          <6>1. /\ k - 1 \in 1 .. n - 1
                /\ queries'[w][k - 1] = queries[w][k]
            <7>1. k - 1 \in 1 .. n - 1 /\ k - 1 + 1 = k
              BY <1>3, <5>2
            <7> QED
              BY <1>12, <7>1
          <6> QED
            BY <1>12, <2>1, <3>2, <4>1, <6>1 DEF Somewhere
        <5> QED
          BY <5>1, <5>2
      <4> QED
        BY <1>0, <1>4, <2>1, <3>2, <4>1 DEF Somewhere, Holding
    <3> QED
      BY <3>1, <3>2
  <2> QED
    BY <1>0, <2>1, <2>3 DEF PerformedInvOf
<1>9. EndedInv'
  BY <1>0, <1>1, <1>4 DEF EndedInv, EndedInvOf, Ended, getThreadId
<1>10. TableInv'
  BY <1>0, <1>1, <1>4 DEF TableInv, TableInvOf
<1> QED
  BY <1>5, <1>6, <1>7, <1>8, <1>9, <1>10

(* The disconnect after the loop.                                          *)
LEMMA LeavePlaceInv ==
  ASSUME PlaceInv, TypeOK', NEW w \in Workers, Leave(w), UNCHANGED <<log, dispatchVars>>
  PROVE  PlaceInv'
<1> USE DEF PlaceInv
<1>0. /\ UNCHANGED <<log, next, entry, performed, last_query_of_conn, dpc>>
      /\ UNCHANGED <<executors, unvisited, queries, query>>
  BY DEF Leave, dispatchVars
<1>1. Positions' = Positions /\ LastQueries' = LastQueries /\ conn' = conn
  BY <1>0, LogFixed DEF conn, getThreadId
<1>2. /\ thread[w] = "leave" /\ thread'[w] = "exited" /\ connected'[w] = FALSE
      /\ \A v \in Workers \ {w} : /\ thread'[v] = thread[v]
                                  /\ connected'[v] = connected[v]
  BY DEF Leave, TypeOK, WorkerTypeOK
<1>3. DispatchInv'
  BY <1>0, <1>1 DEF DispatchInv, Holding
<1>4. QueueInv'
  BY <1>0, <1>1 DEF QueueInv, QueueInvOf, Given, Holding, getThreadId
<1>5. QueryInv'
  BY <1>0, <1>1, <1>2
     DEF QueryInv, QueryInvOf, Given, Holding, getThreadId
<1>6. PerformedInv'
  <2> SUFFICES ASSUME NEW e \in Positions PROVE PerformedInvOf(e)'
    BY <1>1 DEF PerformedInv
  <2>1. PerformedInvOf(e) /\ getThreadId(e)' = getThreadId(e)
    BY <1>0 DEF PerformedInv, getThreadId
  <2>2. getThreadId(e) \in Workers
    BY LogFacts
  <2>3. Somewhere(e) => Somewhere(e)'
    BY <1>0, <1>2, <2>1, <2>2 DEF Somewhere, Holding
  <2> QED
    BY <1>0, <2>1, <2>3 DEF PerformedInvOf
<1>7. EndedInv'
  BY <1>0, <1>1, <1>2 DEF EndedInv, EndedInvOf, Ended, getThreadId
<1>8. TableInv'
  BY <1>0, <1>1, <1>2 DEF TableInv, TableInvOf
<1> QED
  BY <1>3, <1>4, <1>5, <1>6, <1>7, <1>8

(* An entry that a thread has in hand is the first of its connection that  *)
(* has not been performed, and dispatch has not returned.                  *)
LEMMA InHand ==
  ASSUME PlaceInv, NEW w \in Workers, thread[w] = "perform"
  PROVE  /\ Given(w, query[w])
         /\ \A d \in Positions :
              d < query[w].pos /\ getThreadId(d) = w => performed[d] = 1
         /\ dpc # "returned"
<1> USE DEF PlaceInv
<1>1. /\ Given(w, query[w])
      /\ \A k \in 1 .. Len(queries[w]) : query[w].pos < queries[w][k].pos
  BY DEF QueryInv, QueryInvOf
<1>2. /\ query[w].pos \in Int /\ next \in Int
      /\ \A d \in Positions : d \in Int
  BY <1>1, LogFacts DEF TypeOK, Given
<1>3. ASSUME NEW d \in Positions, d < query[w].pos, getThreadId(d) = w
      PROVE  performed[d] = 1
  <2>1. d \in Int /\ d < next
    BY <1>1, <1>2, <1>3 DEF Given
  <2>2. ~(Holding /\ d = entry.pos)
    BY <1>1, <1>2, <1>3, <2>1 DEF Given, DispatchInv
  <2>3. ASSUME NEW k \in 1 .. Len(queries[w]) PROVE queries[w][k].pos # d
    BY <1>1, <1>2, <1>3, <2>1
  <2>4. query[w].pos # d
    BY <1>2, <1>3, <2>1
  <2>5. ~Somewhere(d)
    BY <1>3, <2>2, <2>3, <2>4 DEF Somewhere
  <2>6. PerformedInvOf(d)
    BY DEF PerformedInv
  <2> QED
    BY <2>1, <2>5, <2>6 DEF PerformedInvOf
<1>4. dpc # "returned"
  BY WorkersAssumption DEF TableInv, TableInvOf, TypeOK
<1> QED
  BY <1>1, <1>3, <1>4

(* A thread performs the entry in its hands, and leaves its loop if that   *)
(* was the last one of its connection.                                     *)
LEMMA PerformPlaceInv ==
  ASSUME PlaceInv, TypeOK', NEW w \in Workers, Quit(w) \/ Execute(w),
         UNCHANGED <<log, dispatchVars>>
  PROVE  PlaceInv'
<1> USE DEF PlaceInv
<1> DEFINE e == query[w].pos
<1>0. /\ UNCHANGED <<log, next, entry, last_query_of_conn, dpc>>
      /\ UNCHANGED <<executors, unvisited, queries>>
      /\ thread[w] = "perform"
  BY DEF Quit, Execute, dispatchVars
<1>1. Positions' = Positions /\ LastQueries' = LastQueries /\ conn' = conn
  BY <1>0, LogFixed DEF conn, getThreadId
<1>2. /\ Given(w, query[w]) /\ e \in Positions
      /\ e < next /\ performed[e] = 0 /\ getThreadId(e) = w
      /\ \A d \in Positions : d < e /\ getThreadId(d) = w => performed[d] = 1
  BY <1>0, InHand DEF Given
<1>3. performed' = [performed EXCEPT ![e] = performed[e] + 1]
  BY DEF Quit, Execute
<1>4. /\ performed'[e] = 1
      /\ \A d \in Positions \ {e} : performed'[d] = performed[d]
  BY <1>2, <1>3 DEF TypeOK, WorkerTypeOK
<1>5. /\ thread'[w] = IF query[w].shutdown THEN "leave" ELSE "pop"
      /\ query'[w] = NoEntry
      /\ \A v \in Workers \ {w} : /\ thread'[v] = thread[v]
                                  /\ query'[v] = query[v]
                                  /\ connected'[v] = connected[v]
  BY DEF Quit, Execute, LoopOrLeave, TypeOK, WorkerTypeOK
<1>6. Positions \subseteq Int /\ next \in Int
  BY LogFacts DEF TypeOK
<1>7. ASSUME NEW v \in Workers, NEW en, Given(v, en), en.pos # e
      PROVE  performed'[en.pos] = 0
  BY <1>4, <1>7 DEF Given
<1>8. DispatchInv'
  <2>1. Holding => entry.pos # e
    BY <1>2, <1>6 DEF Given, DispatchInv
  <2> QED
    BY <1>0, <1>1, <1>4, <2>1 DEF DispatchInv, Holding
<1>9. ASSUME NEW v \in Workers, NEW k \in 1 .. Len(queries[v])
      PROVE  queries[v][k].pos # e
  <2>1. Given(v, queries[v][k])
    BY DEF QueueInv, QueueInvOf
  <2>2. CASE v = w
    <3>1. e < queries[w][k].pos
      BY <1>0, <2>2 DEF QueryInv, QueryInvOf
    <3>2. e \in Int
      BY <1>2, <1>6
    <3> QED
      BY <2>2, <3>1, <3>2
  <2>3. CASE v # w
    BY <1>2, <2>1, <2>3 DEF Given
  <2> QED
    BY <2>2, <2>3
<1>10. QueueInv'
  <2> SUFFICES ASSUME NEW v \in Workers PROVE QueueInvOf(v)'
    BY <1>0 DEF QueueInv
  <2>1. QueueInvOf(v)
    BY DEF QueueInv
  <2>2. ASSUME NEW k \in 1 .. Len(queries[v]) PROVE Given(v, queries[v][k])'
    <3>1. Given(v, queries[v][k]) /\ performed'[queries[v][k].pos] = 0
      BY <1>7, <1>9, <2>1 DEF QueueInvOf
    <3> QED
      BY <1>0, <1>1, <3>1 DEF Given, Holding, getThreadId
  <2> QED
    BY <1>0, <2>1, <2>2 DEF QueueInvOf
<1>11. QueryInv'
  <2> SUFFICES ASSUME NEW v \in Workers PROVE QueryInvOf(v)'
    BY <1>0 DEF QueryInv
  <2>1. CASE v = w
    BY <1>5, <2>1 DEF QueryInvOf
  <2>2. CASE v # w
    <3> SUFFICES ASSUME thread[v] = "perform" PROVE QueryInvOf(v)'
      BY <1>5, <2>2 DEF QueryInvOf
    <3>1. /\ Given(v, query[v])
          /\ \A k \in 1 .. Len(queries[v]) : query[v].pos < queries[v][k].pos
      BY DEF QueryInv, QueryInvOf
    <3>2. performed'[query[v].pos] = 0
      BY <1>2, <1>4, <2>2, <3>1 DEF Given
    <3>3. Given(v, query[v])'
      BY <1>0, <1>1, <1>5, <2>2, <3>1, <3>2 DEF Given, Holding, getThreadId
    <3> QED
      BY <1>0, <1>5, <2>2, <3>1, <3>3 DEF QueryInvOf
  <2> QED
    BY <2>1, <2>2
<1>12. PerformedInv'
  <2> SUFFICES ASSUME NEW d \in Positions PROVE PerformedInvOf(d)'
    BY <1>1 DEF PerformedInv
  <2>1. PerformedInvOf(d) /\ getThreadId(d)' = getThreadId(d)
    BY <1>0 DEF PerformedInv, getThreadId
  <2>2. CASE d = e
    BY <1>0, <1>2, <1>4, <1>6, <2>2 DEF PerformedInvOf
  <2>3. CASE d # e
    <3>1. getThreadId(d) \in Workers
      BY LogFacts
    <3>2. Somewhere(d) => Somewhere(d)'
      BY <1>0, <1>5, <2>1, <2>3, <3>1 DEF Somewhere, Holding
    <3> QED
      BY <1>0, <1>4, <2>1, <2>3, <3>2 DEF PerformedInvOf
  <2> QED
    BY <2>2, <2>3
<1>13. EndedInv'
  <2> SUFFICES ASSUME NEW v \in Workers PROVE EndedInvOf(v)'
    BY <1>0 DEF EndedInv
  <2>1. EndedInvOf(v)
    BY DEF EndedInv
  <2>2. CASE v # w
    <3>1. ASSUME NEW d \in Positions, getThreadId(d) = v
          PROVE  performed'[d] = performed[d]
      BY <1>2, <1>4, <2>2, <3>1
    <3> QED
      BY <1>0, <1>1, <1>5, <2>1, <2>2, <3>1 DEF EndedInvOf, Ended, getThreadId
  <2>3. CASE v = w
    <3>1. ASSUME query[w].shutdown, NEW d \in Positions, getThreadId(d) = w
          PROVE  performed'[d] = 1
      <4>1. e \in LastQueries
        BY <1>2, <3>1 DEF Given
      <4>2. d <= e
        <5>1. e \in Int /\ d \in Int
          BY <1>2, <1>6, <3>1
        <5>2. ~(d > e)
          BY <1>2, <3>1, <4>1 DEF LastQueries
        <5> QED
          BY <5>1, <5>2
      <4> QED
        BY <1>2, <1>4, <1>6, <3>1, <4>2
    <3>2. Ended(w)' => query[w].shutdown
      BY <1>5 DEF Ended
    <3>3. /\ thread'[w] \in {"leave", "pop"}
          /\ thread'[w] = "leave" => queries[w] = << >>
      <4>1. query[w].shutdown => queries[w] = << >>
        <5> SUFFICES ASSUME query[w].shutdown, queries[w] # << >> PROVE FALSE
          OBVIOUS
        <5>1. queries[w] \in Seq(Entries)
          BY DEF TypeOK, WorkerTypeOK
        <5>2. 1 \in 1 .. Len(queries[w])
          BY <5>1
        <5>3. Given(w, queries[w][1])
          BY <5>2 DEF QueueInv, QueueInvOf
        <5>4. performed'[queries[w][1].pos] = 1
          BY <3>1, <5>3 DEF Given
        <5> QED
          BY <1>7, <1>9, <5>2, <5>3, <5>4
      <4> QED
        BY <1>5, <4>1
    <3> QED
      BY <1>0, <1>1, <1>5, <2>3, <3>1, <3>2, <3>3 DEF EndedInvOf, getThreadId
  <2> QED
    BY <2>2, <2>3
<1>14. TableInv'
  <2> SUFFICES ASSUME NEW v \in Workers PROVE TableInvOf(v)'
    BY <1>0 DEF TableInv
  <2>1. TableInvOf(v)
    BY DEF TableInv
  <2>2. CASE v # w
    BY <1>0, <1>1, <1>5, <2>1, <2>2 DEF TableInvOf
  <2>3. CASE v = w
    BY <1>0, <1>1, <1>5, <2>1, <2>3 DEF TableInvOf
  <2> QED
    BY <2>2, <2>3
<1> QED
  BY <1>8, <1>10, <1>11, <1>12, <1>13, <1>14

(* PlaceInv is inductive.  No FinishEntry is ever in a queue here.             *)
LEMMA NextPlaceInv == PlaceInv /\ [Next]_vars => PlaceInv'
<1> SUFFICES ASSUME PlaceInv, [Next]_vars PROVE PlaceInv'
  OBVIOUS
<1>0. TypeOK'
  BY TypeStep DEF PlaceInv
<1>1. CASE UNCHANGED vars
  BY <1>0, <1>1 DEF PlaceInv, vars, workerVars, dispatchVars, DispatchInv, QueueInv,
    QueueInvOf, QueryInv, QueryInvOf, PerformedInv, PerformedInvOf, EndedInv,
    EndedInvOf, TableInv, TableInvOf, Given, Holding, Ended, Somewhere, conn,
    getThreadId, Positions, LastQueries
<1>2. CASE Dispatcher
  BY <1>0, <1>2, ControlPlaceInv, PopEntryPlaceInv, CreatePlaceInv, PushPlaceInv, JoinPlaceInv
     DEF Dispatcher
<1>3. ASSUME NEW w \in Workers, RunThread(w) PROVE PlaceInv'
  <2>1. ~ExecuteFinish(w)
    BY InHand, LogFacts DEF ExecuteFinish, Given, PlaceInv
  <2> QED
    BY <1>0, <1>3, <2>1, PopPlaceInv, PerformPlaceInv, LeavePlaceInv DEF RunThread, Run
<1> QED
  BY <1>1, <1>2, <1>3 DEF Next, Terminated

(* So every entry is always in its place.                                  *)
LEMMA Placement == SafeSpec => []PlaceInv
  BY InitPlaceInv, NextPlaceInv, PTL DEF SafeSpec

-----------------------------------------------------------------------------
(* dispatch only ever pushes to a thread that will pop the entry.          *)
THEOREM PushSafe == SafeSpec => []PushReachesThread
<1>1. ASSUME PlaceInv PROVE PushReachesThread
  <2> SUFFICES ASSUME dpc = "push" PROVE PushReachesThread
    BY DEF PushReachesThread
  <2>1. Holding /\ entry.pos \in Positions /\ entry.pos \in Int
    BY <1>1, HeldThread, LogFacts DEF Holding, PlaceInv
  <2>2. /\ conn \in Workers /\ getThreadId(entry.pos) = conn
        /\ thread[conn] \in {"pop", "perform"}
    BY <1>1, <2>1, HeldThread
  <2>3. executors[conn] = "thread"
    BY <1>1 DEF PlaceInv, DispatchInv
  <2>4. ASSUME NEW en, Given(conn, en) PROVE ~en.shutdown
    <3>1. en.pos < entry.pos /\ getThreadId(en.pos) = conn
      BY <2>1, <2>4 DEF Given
    <3>2. en.pos \in Int /\ entry.pos > en.pos
      BY <1>1, <2>1, <2>4, <3>1, LogFacts DEF Given, PlaceInv
    <3>3. en.pos \notin LastQueries
      BY <2>1, <2>2, <3>1, <3>2 DEF LastQueries
    <3> QED
      BY <2>4, <3>3, Zenon DEF Given
  <2>5. ~query[conn].shutdown
    <3>1. CASE thread[conn] = "perform"
      BY <1>1, <2>2, <2>4, <3>1 DEF PlaceInv, QueryInv, QueryInvOf
    <3>2. CASE thread[conn] # "perform"
      BY <1>1, <2>2, <3>2 DEF PlaceInv, EndedInv, EndedInvOf, NoEntry
    <3> QED
      BY <3>1, <3>2
  <2>6. \A k \in 1 .. Len(queries[conn]) : ~queries[conn][k].shutdown
    BY <1>1, <2>2, <2>4 DEF PlaceInv, QueueInv, QueueInvOf
  <2>7. DOMAIN queries[conn] = 1 .. Len(queries[conn])
    BY <1>1, <2>2 DEF PlaceInv, TypeOK, WorkerTypeOK
  <2> QED
    BY <2>2, <2>3, <2>5, <2>6, <2>7 DEF PushReachesThread
<1> QED
  BY <1>1, Placement, PTL

(* The reference that dispatch took before a sweep refers to its null      *)
(* pointer throughout.                                                     *)
THEOREM ReferenceSafe == SafeSpec => []ReferenceValid
<1>1. PlaceInv => ReferenceValid
  BY DEF PlaceInv, DispatchInv, ReferenceValid
<1> QED
  BY <1>1, Placement, PTL

(* When finish_all_and_wait has returned, no thread runs, and no entry or  *)
(* connection is left behind.                                              *)
THEOREM NothingLeft == SafeSpec => []NothingLeftRunning
<1>1. ASSUME PlaceInv, dpc = "returned", NEW w \in Workers
      PROVE  /\ thread[w] \in {"none", "joined", "deleted"}
             /\ queries[w] = << >>
             /\ ~connected[w]
  <2>1. TableInvOf(w) /\ EndedInvOf(w)
    BY <1>1 DEF PlaceInv, TableInv, EndedInv
  <2>2. executors[w] \in {"absent", "null", "thread"}
    BY <1>1, WorkersAssumption DEF PlaceInv, TypeOK
  <2> QED
    BY <1>1, <2>1, <2>2 DEF TableInvOf, EndedInvOf
<1>2. PlaceInv => NothingLeftRunning
  BY <1>1 DEF NothingLeftRunning
<1> QED
  BY <1>2, Placement, PTL

(* A thread that has been joined stays so: its connection does not come    *)
(* back to the table, for its last entry has been performed.               *)
THEOREM JoinedStays == SafeSpec => JoinedForGood
<1>1. ASSUME PlaceInv, [Next]_vars, NEW w \in Workers,
             thread[w] \in {"joined", "deleted"}
      PROVE  thread'[w] = thread[w]
  <2>1. thread \in [Workers -> ThreadStates]
    BY <1>1 DEF PlaceInv, TypeOK, WorkerTypeOK
  <2>2. CASE UNCHANGED thread
    BY <2>2
  <2>3. CASE Create
    <3>1. conn \in Workers /\ executors[conn] = "null"
      BY <1>1, <2>3, HeldThread DEF Create, Holding, PlaceInv, DispatchInv
    <3>2. conn # w
      BY <1>1, <3>1 DEF PlaceInv, TableInv, TableInvOf
    <3> QED
      BY <2>1, <2>3, <3>2 DEF Create, StartThread
  <2>4. ASSUME NEW c \in ThreadIds, TryJoin(c) \/ Join(c)
        PROVE  thread'[w] = thread[w]
    BY <1>1, <2>1, <2>4 DEF TryJoin, Join, JoinThread
  <2>5. ASSUME NEW v \in Workers, RunThread(v) PROVE thread'[w] = thread[w]
    BY <1>1, <2>1, <2>5 DEF RunThread, Run, Pop, Quit, Execute, ExecuteFinish,
                            Leave, LoopOrLeave
  <2> QED
    BY <1>1, <2>2, <2>3, <2>4, <2>5
       DEF Next, Dispatcher, Terminated, vars, workerVars, Dispatch, PopEntry,
           Sleep, Push, PushQuery, EndDispatch, EndSweep, Return, SkipJoin
<1>2. PlaceInv /\ [Next]_vars =>
        [\A w \in Workers :
           thread[w] \in {"joined", "deleted"} => thread'[w] = thread[w]]_vars
  BY <1>1
<1> QED
  BY <1>2, Placement, PTL DEF SafeSpec, JoinedForGood

-----------------------------------------------------------------------------
(* The count of threads.                                                   *)

(* The actions that do not touch the table do not touch the count, but for *)
(* dispatch's reset, which finds it empty.                                 *)
LEMMA CountKept ==
  ASSUME CountInv, executors' = executors, dpc' # "start" \/ dpc' = dpc,
         num_running' = num_running \/ (dpc = "start" /\ num_running' = 0)
  PROVE  CountInv'
<1>1. Started' = Started
  BY DEF Started
<1>2. Cardinality({}) = 0
  BY FS_EmptySet
<1> QED
  BY <1>1, <1>2, MaxRunningAssumption DEF CountInv

(* Create counts the thread it adds to the table.                          *)
LEMMA CountCreate ==
  ASSUME PlaceInv, CountInv, Create
  PROVE  CountInv'
<1>1. /\ conn \in ThreadIds /\ executors[conn] = "null"
      /\ executors \in [ThreadIds -> {"absent", "null", "thread"}]
  BY HeldThread, WorkersAssumption
     DEF Create, Holding, PlaceInv, DispatchInv, TypeOK
<1>2. Started' = Started \cup {conn} /\ conn \notin Started
  BY <1>1 DEF Create, Started
<1>3. /\ IsFiniteSet(Started \cup {conn})
      /\ Cardinality(Started \cup {conn}) = Cardinality(Started) + 1
  BY <1>2, FS_AddElement DEF CountInv
<1>4. num_running \in Int
  BY DEF PlaceInv, TypeOK
<1> QED
  BY <1>2, <1>3, <1>4, MaxRunningAssumption DEF Create, CountInv

(* TryJoin no longer counts the thread it takes from the table.            *)
LEMMA CountTryJoin ==
  ASSUME PlaceInv, CountInv, NEW c \in ThreadIds, TryJoin(c)
  PROVE  CountInv'
<1>1. executors \in [ThreadIds -> {"absent", "null", "thread"}]
  BY DEF PlaceInv, TypeOK
<1>2. Started' = Started \ {c} /\ c \in Started
  BY <1>1 DEF TryJoin, Started
<1>3. /\ IsFiniteSet(Started \ {c})
      /\ Cardinality(Started \ {c}) = Cardinality(Started) - 1
  BY <1>2, FS_RemoveElement DEF CountInv
<1>4. num_running \in Int
  BY DEF PlaceInv, TypeOK
<1> QED
  BY <1>2, <1>3, <1>4, MaxRunningAssumption DEF TryJoin, CountInv

(* The table is empty before dispatch.                                     *)
LEMMA InitCount == Init => CountInv
<1> SUFFICES ASSUME Init PROVE CountInv
  OBVIOUS
<1>1. Started = {}
  BY DEF Init, Started
<1> QED
  BY <1>1, FS_EmptySet, MaxRunningAssumption DEF Init, CountInv

(* The count stays exact.                                                  *)
LEMMA NextCount == PlaceInv /\ CountInv /\ [Next]_vars => CountInv'
<1> SUFFICES ASSUME PlaceInv, CountInv, [Next]_vars PROVE CountInv'
  OBVIOUS
<1>1. CASE UNCHANGED vars
  BY <1>1, CountKept DEF vars, dispatchVars
<1>2. ASSUME NEW w \in Workers, RunThread(w) PROVE CountInv'
  BY <1>2, CountKept DEF RunThread, dispatchVars
<1>3. CASE PopEntry
  <2>1. Started' = Started
    BY <1>3 DEF PopEntry, Started, PlaceInv, TypeOK
  <2> QED
    BY <1>3, <2>1 DEF PopEntry, CountInv
<1>4. ASSUME \/ Dispatch \/ Sleep \/ Push \/ EndDispatch \/ EndSweep \/ Return
             \/ \E c \in ThreadIds : SkipJoin(c) \/ Join(c)
      PROVE  CountInv'
  BY <1>4, CountKept DEF Dispatch, Sleep, Push, EndDispatch, EndSweep, Return,
                         SkipJoin, Join
<1> QED
  BY <1>1, <1>2, <1>3, <1>4, CountCreate, CountTryJoin
     DEF Next, Dispatcher, Terminated

(* num_running is exact and bounded.                                       *)
THEOREM CountSafe == SafeSpec => []NumRunningExact
<1>1. CountInv => NumRunningExact
  BY DEF CountInv, NumRunningExact, Started
<1> QED
  BY <1>1, InitCount, NextCount, Placement, PTL DEF SafeSpec

-----------------------------------------------------------------------------
(* Getting stuck.                                                          *)

(* No connection has a key, and nothing is performed, before dispatch.     *)
LEMMA InitBegun == Init => BegunInv /\ StuckInv
<1> SUFFICES ASSUME Init PROVE BegunInv /\ StuckInv
  OBVIOUS
<1>1. BegunInv
  BY DEF Init, WorkerInit, BegunInv, Keys
<1>2. \A e \in Positions : next <= e
  BY TypeInit, LogFacts DEF Init
<1> QED
  BY <1>1, <1>2 DEF StuckInv

(* A connection gets its key when its first entry is popped, and its       *)
(* thread before any of it is performed; no thread is uncreated.           *)
LEMMA NextBegun == PlaceInv /\ BegunInv /\ [Next]_vars => BegunInv'
<1> SUFFICES ASSUME PlaceInv, BegunInv, [Next]_vars PROVE BegunInv'
  OBVIOUS
<1> USE DEF PlaceInv
<1>1. /\ Positions' = Positions /\ \A e \in Positions : getThreadId(e)' = getThreadId(e)
      /\ log' = log
  BY DEF Next, Dispatcher, Dispatch, PopEntry, Sleep, Create, Push, EndDispatch,
         EndSweep, Return, TryJoin, SkipJoin, Join, RunThread, Terminated, vars,
         Positions, getThreadId
<1>2. /\ Positions \subseteq Int /\ next \in Int /\ \A e \in Positions : getThreadId(e) \in Workers
      /\ executors \in [ThreadIds -> {"absent", "null", "thread"}]
      /\ thread \in [Workers -> ThreadStates]
      /\ performed \in [Positions -> Nat]
  BY LogFacts DEF TypeOK, WorkerTypeOK
<1>3. \A c \in Keys' : \E d \in Positions : d < next' /\ getThreadId(d) = c
  <2>1. CASE PopEntry
    <3>1. \A c \in Keys' : c \in Keys \/ c = getThreadId(next)
      BY <1>2, <2>1 DEF PopEntry, Keys
    <3>2. next \in Positions /\ next' = next + 1
      BY <2>1 DEF PopEntry
    <3>3. ASSUME NEW c \in Keys
          PROVE  \E d \in Positions : d < next' /\ getThreadId(d) = c
      <4>1. PICK d \in Positions : d < next /\ getThreadId(d) = c
        BY <3>3 DEF BegunInv
      <4> QED
        BY <1>2, <3>2, <4>1
    <3>4. next < next'
      BY <1>2, <3>2
    <3> QED
      BY <3>1, <3>2, <3>3, <3>4
  <2>2. CASE ~PopEntry
    <3>1. next' = next
      BY <2>2 DEF Next, Dispatcher, Dispatch, Sleep, Create, Push, EndDispatch,
                  EndSweep, Return, TryJoin, SkipJoin, Join, RunThread, Terminated,
                  vars, dispatchVars
    <3>2. Keys' \subseteq Keys
      <4>1. CASE Create
        <5>1. conn \in ThreadIds /\ executors[conn] = "null"
          BY <4>1, HeldThread, WorkersAssumption DEF Create, Holding, DispatchInv
        <5> QED
          BY <1>2, <4>1, <5>1 DEF Create, Keys
      <4>2. CASE \E c \in ThreadIds : TryJoin(c)
        BY <1>2, <4>2 DEF TryJoin, Keys
      <4>3. CASE UNCHANGED executors
        BY <4>3 DEF Keys
      <4> QED
        BY <2>2, <4>1, <4>2, <4>3
           DEF Next, Dispatcher, Dispatch, Sleep, Push, EndDispatch, EndSweep, Return,
               SkipJoin, Join, RunThread, Terminated, vars, dispatchVars
    <3> QED
      BY <3>1, <3>2 DEF BegunInv
  <2> QED
    BY <2>1, <2>2
<1>4. ASSUME NEW w \in Workers, thread[w] # "none" PROVE thread'[w] # "none"
  <2>1. CASE UNCHANGED thread
    BY <1>4, <2>1
  <2>2. CASE Create
    BY <1>2, <1>4, <2>2 DEF Create, StartThread
  <2>3. CASE \E c \in ThreadIds : TryJoin(c) \/ Join(c)
    BY <1>2, <1>4, <2>3 DEF TryJoin, Join, JoinThread
  <2>4. ASSUME NEW v \in Workers, Run(v) PROVE thread'[w] # "none"
    BY <1>2, <1>4, <2>4 DEF Run, Pop, Quit, Execute, ExecuteFinish, Leave, LoopOrLeave
  <2> QED
    BY <2>1, <2>2, <2>3, <2>4
       DEF Next, Dispatcher, Dispatch, PopEntry, Sleep, Push, PushQuery, EndDispatch,
           EndSweep, Return, SkipJoin, RunThread, Terminated, vars, workerVars
<1>5. ASSUME NEW e \in Positions, performed'[e] # 0
      PROVE  thread'[getThreadId(e)] # "none"
  <2>1. CASE performed'[e] = performed[e]
    BY <1>2, <1>4, <1>5, <2>1 DEF BegunInv
  <2>2. ASSUME NEW w \in Workers, Quit(w) \/ Execute(w), performed'[e] # performed[e]
        PROVE  thread'[getThreadId(e)] # "none"
    <3>1. thread[w] = "perform"
      BY <2>2 DEF Quit, Execute
    <3>2. Given(w, query[w])
      BY <3>1, InHand
    <3>3. e = query[w].pos
      BY <1>2, <2>2 DEF Quit, Execute
    <3>4. getThreadId(e) = w
      BY <3>2, <3>3 DEF Given
    <3> QED
      BY <1>4, <3>1, <3>4
  <2> QED
    BY <2>1, <2>2
       DEF Next, Dispatcher, Dispatch, PopEntry, Sleep, Create, StartThread, Push,
           PushQuery, EndDispatch, EndSweep, Return, TryJoin, SkipJoin, Join, JoinThread,
           RunThread, Run, Pop, ExecuteFinish, Leave, Terminated, vars, workerVars
<1> QED
  BY <1>1, <1>3, <1>5 DEF BegunInv, Keys

(* The connections that are open when the first entry of another has been  *)
(* popped have threads, which are in the table: what a sweep joins has     *)
(* performed the last entry of its connection.                             *)
LEMMA OpenStarted ==
  ASSUME PlaceInv, BegunInv, NEW e \in Positions, next = e + 1, dpc = "admit",
         \A d \in R!Earlier(e) : FALSE, NEW c \in OpenAt(e)
  PROVE  c \in Started
<1> USE DEF PlaceInv
<1>1. /\ Len(log) \in Nat /\ Positions = 1 .. Len(log) /\ e \in Int
      /\ Holding /\ entry.pos = e
  BY LogFacts DEF Holding, DispatchInv
<1>2. PICK d \in Positions : d < e /\ getThreadId(d) = c
  BY DEF OpenAt
<1>3. PICK f \in Positions : f > e /\ getThreadId(f) = c
  BY DEF OpenAt
<1>4. c # conn
  <2>1. d \in 1 .. e - 1
    BY <1>1, <1>2
  <2> QED
    BY <1>1, <1>2, <2>1 DEF R!Earlier, R!getThreadId, getThreadId, conn
<1>5. c \in Workers /\ TableInvOf(c) /\ EndedInvOf(c)
  BY <1>2, LogFacts DEF TableInv, EndedInv
<1>6. thread[c] # "joined"
  <2>1. PerformedInvOf(f) /\ f >= next
    BY <1>1, <1>3 DEF PerformedInv
  <2> QED
    BY <1>3, <1>5, <2>1 DEF PerformedInvOf, EndedInvOf, Ended
<1>7. thread[c] # "none"
  <2> SUFFICES ASSUME thread[c] = "none" PROVE FALSE
    OBVIOUS
  <2>1. performed[d] = 0
    BY <1>2 DEF BegunInv
  <2>2. d # entry.pos /\ d < next
    BY <1>1, <1>2
  <2>3. queries[c] = << >>
    BY <1>5 DEF EndedInvOf
  <2>4. ~Somewhere(d)
    BY <1>2, <2>2, <2>3 DEF Somewhere
  <2> QED
    BY <2>1, <2>2, <2>4 DEF PerformedInv, PerformedInvOf
<1>8. executors[c] = "thread"
  BY <1>4, <1>5, <1>6, <1>7, WorkersAssumption DEF TableInvOf, TypeOK
<1> QED
  BY <1>5, <1>8, WorkersAssumption DEF Started

(* With too many of them dispatch sleeps and sweeps, and creates nothing.  *)
LEMMA NoCreate ==
  ASSUME PlaceInv, CountInv, BegunInv, NEW e \in Positions, Crowded(e), next = e + 1,
         Create
  PROVE  FALSE
<1>1. dpc = "admit" /\ num_running <= MaxRunning
  BY DEF Create
<1>2. OpenAt(e) \in SUBSET Started
  BY <1>1, OpenStarted DEF Crowded
<1>3. /\ IsFiniteSet(OpenAt(e)) /\ Cardinality(OpenAt(e)) <= Cardinality(Started)
      /\ Cardinality(OpenAt(e)) \in Nat /\ Cardinality(Started) \in Nat
  BY <1>2, FS_Subset, FS_CardinalityType DEF CountInv
<1> QED
  BY <1>1, <1>3, MaxRunningAssumption DEF CountInv, Crowded

(* Hence that entry is never pushed, and nothing behind it popped.         *)
LEMMA NextStuck ==
  PlaceInv /\ CountInv /\ BegunInv /\ StuckInv /\ [Next]_vars => StuckInv'
<1> SUFFICES ASSUME PlaceInv, CountInv, BegunInv, StuckInv, [Next]_vars,
                    NEW e \in Positions', Crowded(e)'
             PROVE  (next <= e \/ (next = e + 1 /\ dpc \in {"admit", "sweep"}))'
  BY DEF StuckInv
<1> USE DEF PlaceInv
<1>1. log' = log
  BY DEF Next, Dispatcher, Dispatch, PopEntry, Sleep, Create, Push, EndDispatch,
         EndSweep, Return, TryJoin, SkipJoin, Join, RunThread, Terminated, vars
<1>2. /\ e \in Positions /\ Crowded(e) /\ e \in Int /\ next \in Int
      /\ \A d \in Positions : d \in Int
  <2>1. e \in Positions
    BY <1>1 DEF Positions
  <2>2. Crowded(e)
    BY <1>1 DEF Crowded, OpenAt, Positions, getThreadId, R!Earlier, R!getThreadId
  <2> QED
    BY <2>1, <2>2, LogFacts DEF TypeOK
<1>3. next <= e \/ (next = e + 1 /\ dpc \in {"admit", "sweep"})
  BY <1>2 DEF StuckInv
<1>4. CASE PopEntry
  <2>1. next <= e /\ next' = next + 1 /\ dpc = "pop" /\ next \in Positions
    BY <1>3, <1>4 DEF PopEntry
  <2>2. CASE next = e
    <3>1. getThreadId(e) \notin Keys
      <4>1. ASSUME NEW d \in Positions, d < e PROVE getThreadId(d) # getThreadId(e)
        <5>1. d \in 1 .. e - 1
          BY <1>2, <4>1, LogFacts
        <5> QED
          BY <1>2, <5>1 DEF Crowded, R!Earlier, R!getThreadId, getThreadId
      <4> QED
        BY <2>2, <4>1 DEF BegunInv
    <3>2. executors[getThreadId(e)] = "absent"
      BY <1>2, <3>1, LogFacts, WorkersAssumption DEF Keys
    <3> QED
      BY <1>2, <1>4, <2>1, <2>2, <3>2 DEF PopEntry
  <2>3. CASE next < e
    BY <1>2, <2>1, <2>3
  <2> QED
    BY <1>2, <2>1, <2>2, <2>3
<1>5. CASE Create
  <2>1. next <= e /\ next' = next
    BY <1>2, <1>3, <1>5, NoCreate DEF Create
  <2> QED
    BY <2>1
<1>6. CASE UNCHANGED <<next, dpc>>
  BY <1>3, <1>6
<1>7. CASE Dispatch \/ Sleep \/ Push \/ EndDispatch \/ EndSweep \/ Return
  BY <1>3, <1>7 DEF Dispatch, Sleep, Push, EndDispatch, EndSweep, Return
<1> QED
  BY <1>4, <1>5, <1>6, <1>7
     DEF Next, Dispatcher, TryJoin, SkipJoin, Join, RunThread, Terminated, vars, dispatchVars

(* With more than MaxRunning connections open at the first query of        *)
(* another dispatch never returns: it sleeps and sweeps for ever, since    *)
(* none of the threads in the table has been given its last entry.         *)
THEOREM StuckForever == SafeSpec => StuckOtherwise
<1>1. PlaceInv /\ StuckInv /\ ~EnoughThreads => dpc # "returned"
  <2> SUFFICES ASSUME PlaceInv, StuckInv, ~EnoughThreads, dpc = "returned" PROVE FALSE
    OBVIOUS
  <2>1. PICK e \in Positions : Crowded(e)
    BY DEF EnoughThreads, Crowded
  <2>2. next = Len(log) + 1 /\ Len(log) \in Nat /\ e \in 1 .. Len(log)
    BY LogFacts DEF PlaceInv, DispatchInv
  <2> QED
    BY <2>1, <2>2 DEF StuckInv
<1>2. [Next]_vars => (~EnoughThreads => ~EnoughThreads')
  <2> SUFFICES ASSUME [Next]_vars PROVE EnoughThreads' <=> EnoughThreads
    OBVIOUS
  <2>1. log' = log
    BY DEF Next, Dispatcher, Dispatch, PopEntry, Sleep, Create, Push, EndDispatch,
           EndSweep, Return, TryJoin, SkipJoin, Join, RunThread, Terminated, vars
  <2> QED
    BY <2>1 DEF EnoughThreads, OpenAt, Positions, getThreadId, R!Earlier, R!getThreadId
<1> QED
  BY <1>1, <1>2, InitBegun, NextBegun, NextStuck, InitCount, NextCount, Placement, PTL
     DEF SafeSpec, StuckOtherwise

-----------------------------------------------------------------------------
(* Waiting.                                                                *)

(* A thread that has left its loop does not come back to it.               *)
LEMMA EndedStays ==
  ASSUME PlaceInv, [Next]_vars, NEW w \in Workers, Ended(w)
  PROVE  Ended(w)'
<1> USE DEF PlaceInv, Ended
<1>1. /\ thread \in [Workers -> ThreadStates]
      /\ executors \in [ThreadIds -> {"absent", "null", "thread"}]
  BY DEF TypeOK, WorkerTypeOK
<1>2. CASE UNCHANGED thread
  BY <1>2
<1>3. CASE Create
  <2>1. conn \in Workers /\ executors[conn] = "null"
    BY <1>3, HeldThread DEF Create, Holding, DispatchInv
  <2>2. thread[conn] = "none"
    BY <2>1 DEF TableInv, TableInvOf
  <2> QED
    BY <1>1, <1>3, <2>1, <2>2 DEF Create, StartThread
<1>4. CASE \E c \in ThreadIds : TryJoin(c) \/ Join(c)
  BY <1>1, <1>4 DEF TryJoin, Join, JoinThread
<1>5. ASSUME NEW v \in Workers, Run(v) PROVE Ended(w)'
  BY <1>1, <1>5 DEF Run, Pop, Quit, Execute, ExecuteFinish, Leave, LoopOrLeave
<1> QED
  BY <1>2, <1>3, <1>4, <1>5
     DEF Next, Dispatcher, Dispatch, PopEntry, Sleep, Push, PushQuery, EndDispatch,
         EndSweep, Return, SkipJoin, RunThread, Terminated, vars, workerVars

(* Before dispatch nothing has been performed, nor a thread deleted.       *)
LEMMA InitLast == Init => LastInv
BY DEF Init, WorkerInit, LastInv, LastQueries

(* A thread that performs the last entry of its connection ends; nothing   *)
(* but finish_all_and_wait deletes a thread; and the keys that a loop has  *)
(* not passed stay in the table.                                           *)
LEMMA NextLast == PlaceInv /\ LastInv /\ [Next]_vars => LastInv'
<1> SUFFICES ASSUME PlaceInv, LastInv, [Next]_vars PROVE LastInv'
  OBVIOUS
<1> USE DEF PlaceInv
<1>0. log' = log
  BY DEF Next, Dispatcher, Dispatch, PopEntry, Sleep, Create, Push, EndDispatch,
         EndSweep, Return, TryJoin, SkipJoin, Join, RunThread, Terminated, vars
<1>1. LastQueries' = LastQueries /\ \A e \in Positions : getThreadId(e)' = getThreadId(e)
  BY <1>0, LogFixed DEF getThreadId
<1>2. /\ LastQueries \subseteq Positions /\ \A e \in Positions : getThreadId(e) \in Workers
      /\ executors \in [ThreadIds -> {"absent", "null", "thread"}]
      /\ thread \in [Workers -> ThreadStates]
      /\ performed \in [Positions -> Nat]
  BY LogFacts DEF TypeOK, WorkerTypeOK, LastQueries
<1>3. ASSUME NEW e \in LastQueries, performed'[e] # 0
      PROVE  Ended(getThreadId(e))'
  <2>1. CASE performed'[e] = performed[e]
    <3>1. Ended(getThreadId(e))
      BY <1>3, <2>1 DEF LastInv
    <3> QED
      BY <1>1, <1>2, <3>1, EndedStays DEF Ended
  <2>2. ASSUME NEW w \in Workers, Quit(w) \/ Execute(w), performed'[e] # performed[e]
        PROVE  Ended(getThreadId(e))'
    <3>1. thread[w] = "perform"
      BY <2>2 DEF Quit, Execute
    <3>2. Given(w, query[w])
      BY <3>1, InHand
    <3>3. e = query[w].pos
      BY <1>2, <2>2 DEF Quit, Execute
    <3>4. getThreadId(e) = w /\ query[w].shutdown
      BY <3>2, <3>3 DEF Given
    <3>5. thread'[w] = "leave"
      BY <1>2, <2>2, <3>4 DEF Quit, Execute, LoopOrLeave
    <3>6. getThreadId(e)' = w
      BY <1>1, <1>2, <3>4
    <3> QED
      BY <3>5, <3>6 DEF Ended
  <2> QED
    BY <2>1, <2>2
       DEF Next, Dispatcher, Dispatch, PopEntry, Sleep, Create, StartThread, Push,
           PushQuery, EndDispatch, EndSweep, Return, TryJoin, SkipJoin, Join, JoinThread,
           RunThread, Run, Pop, ExecuteFinish, Leave, Terminated, vars, workerVars
<1>4. ASSUME NEW w \in Workers, thread'[w] = "deleted"
      PROVE  dpc' = "returned" \/ (dpc' = "finish" /\ w \notin unvisited')
  <2>1. CASE thread[w] = "deleted"
    <3>1. dpc = "returned" \/ (dpc = "finish" /\ w \notin unvisited)
      BY <2>1 DEF LastInv
    <3> QED
      BY <3>1 DEF Next, Dispatcher, Dispatch, PopEntry, Sleep, Create, Push, EndDispatch,
                  EndSweep, Return, TryJoin, SkipJoin, Join, RunThread, Terminated, vars,
                  dispatchVars
  <2>2. CASE thread[w] # "deleted"
    <3>1. CASE \E c \in ThreadIds : Join(c)
      BY <1>2, <1>4, <2>2, <3>1 DEF Join, JoinThread
    <3>2. CASE \E c \in ThreadIds : TryJoin(c)
      BY <1>2, <1>4, <2>2, <3>2 DEF TryJoin, JoinThread
    <3>3. CASE Create
      BY <1>2, <1>4, <2>2, <3>3 DEF Create, StartThread
    <3>4. ASSUME NEW v \in Workers, Run(v) PROVE FALSE
      BY <1>2, <1>4, <2>2, <3>4
         DEF Run, Pop, Quit, Execute, ExecuteFinish, Leave, LoopOrLeave
    <3> QED
      BY <1>4, <2>2, <3>1, <3>2, <3>3, <3>4
         DEF Next, Dispatcher, Dispatch, PopEntry, Sleep, Push, PushQuery, EndDispatch,
             EndSweep, Return, SkipJoin, RunThread, Terminated, vars, workerVars
  <2> QED
    BY <2>1, <2>2
<1>5. dpc' \in {"sweep", "finish"} => unvisited' \subseteq Keys'
  <2> SUFFICES ASSUME dpc' \in {"sweep", "finish"} PROVE unvisited' \subseteq Keys'
    OBVIOUS
  <2>1. CASE Sleep \/ EndDispatch
    BY <2>1 DEF Sleep, EndDispatch, Keys
  <2>2. CASE \E c \in ThreadIds : TryJoin(c) \/ SkipJoin(c) \/ Join(c)
    BY <1>2, <2>2 DEF TryJoin, SkipJoin, Join, Keys, LastInv
  <2>3. CASE UNCHANGED <<executors, unvisited, dpc>>
    BY <2>3 DEF Keys, LastInv
  <2> QED
    BY <2>1, <2>2, <2>3
       DEF Next, Dispatcher, Dispatch, PopEntry, Create, Push, EndSweep, Return,
           RunThread, Terminated, vars, dispatchVars
<1> QED
  BY <1>1, <1>2, <1>3, <1>4, <1>5 DEF LastInv

(* All parts of the inductive invariant together.                          *)
THEOREM Invariance == SafeSpec => []IInv
<1>1. Init => IInv
  BY InitPlaceInv, InitCount, InitBegun, InitLast DEF IInv
<1>2. IInv /\ [Next]_vars => IInv'
  BY NextPlaceInv, NextCount, NextBegun, NextStuck, NextLast DEF IInv
<1> QED
  BY <1>1, <1>2, PTL DEF SafeSpec

(* A thread that can go on by itself; one that waits for an entry cannot.  *)
Moving(w) ==
  \/ thread[w] = "pop" /\ queries[w] # << >>
  \/ thread[w] \in {"perform", "leave"}

(* Nobody waits for one who waits: when the dispatcher cannot go on by     *)
(* itself, the thread that it waits for can, or has ended.  A push waits   *)
(* for room in a queue, finish_all_and_wait for each thread in turn, and   *)
(* a dispatch that sleeps and sweeps for any thread that a sweep can join. *)
NobodyWaitsInVain ==
  /\ dpc = "push" /\ Len(queries[conn]) >= QueueDepth => Moving(conn)
  /\ dpc = "finish" => \A c \in unvisited :
       executors[c] = "thread" /\ (Moving(c) \/ thread[c] = "exited")
  /\ dpc \in {"admit", "sweep"} /\ num_running > MaxRunning /\ EnoughThreads =>
       \E c \in Started : Moving(c) \/ thread[c] = "exited"

(* A thread whose connection has been pushed to the end does not wait for  *)
(* another entry.                                                          *)
LEMMA AllGiven ==
  ASSUME PlaceInv, LastInv, NEW d \in Positions, NEW w \in Workers, getThreadId(d) = w,
         \A e \in Positions : getThreadId(e) = w => e < next /\ ~(Holding /\ e = entry.pos),
         thread[w] \notin {"none", "joined", "deleted"}
  PROVE  Moving(w) \/ thread[w] = "exited"
<1> SUFFICES ASSUME thread[w] = "pop", queries[w] = << >> PROVE FALSE
  BY DEF Moving, PlaceInv, TypeOK, WorkerTypeOK, ThreadStates
<1>1. PICK e \in LastQueries : getThreadId(e) = w
  BY LastQuery DEF PlaceInv, TypeOK
<1>2. e \in Positions /\ e < next /\ ~(Holding /\ e = entry.pos)
  BY <1>1 DEF LastQueries
<1>3. performed[e] = 0
  BY <1>1 DEF LastInv, Ended
<1>4. Somewhere(e)
  BY <1>2, <1>3 DEF PlaceInv, PerformedInv, PerformedInvOf
<1>5. Len(queries[w]) = 0
  OBVIOUS
<1> QED
  BY <1>1, <1>2, <1>4, <1>5 DEF Somewhere

(* finish_all_and_wait waits for threads that have had all their entries.  *)
LEMMA FinishEnds ==
  ASSUME IInv, dpc = "finish", NEW c \in unvisited
  PROVE  executors[c] = "thread" /\ (Moving(c) \/ thread[c] = "exited")
<1> USE DEF IInv, PlaceInv
<1>1. c \in Keys /\ c \in Workers /\ thread[c] # "deleted"
  BY WorkersAssumption DEF LastInv, TypeOK
<1>2. TableInvOf(c)
  BY <1>1 DEF TableInv
<1>3. executors[c] = "thread" /\ thread[c] \notin {"none", "joined"}
  BY <1>1, <1>2, WorkersAssumption DEF TableInvOf, Keys, TypeOK
<1>4. PICK d \in Positions : getThreadId(d) = c
  BY <1>1 DEF BegunInv
<1>5. \A e \in Positions : e < next
  BY LogFacts DEF DispatchInv
<1>6. ~Holding
  BY DEF Holding
<1> QED
  BY <1>1, <1>3, <1>4, <1>5, <1>6, AllGiven

(* An entry of a connection without a thread is its first.                 *)
LEMMA HeldFirst ==
  ASSUME IInv, dpc \in {"admit", "sweep"}
  PROVE  /\ entry.pos \in Positions /\ next = entry.pos + 1
         /\ \A d \in R!Earlier(entry.pos) : FALSE
<1> USE DEF IInv, PlaceInv
<1> DEFINE e == entry.pos
<1>1. /\ Holding /\ e \in Positions /\ e = next - 1 /\ e \in Int /\ next \in Int
      /\ executors[conn] = "null" /\ Len(log) \in Nat /\ Positions = 1 .. Len(log)
  BY LogFacts DEF Holding, DispatchInv, TypeOK
<1>2. conn = getThreadId(e) /\ conn \in Workers
  BY <1>1, LogFacts DEF conn
<1>3. thread[conn] = "none" /\ queries[conn] = << >>
  BY <1>1, <1>2 DEF TableInv, TableInvOf, EndedInv, EndedInvOf
<1>4. ASSUME NEW d \in R!Earlier(e) PROVE FALSE
  <2>1. d \in Positions /\ d < e /\ getThreadId(d) = conn
    BY <1>1, <1>2, <1>4 DEF R!Earlier, R!getThreadId, getThreadId
  <2>2. performed[d] = 0
    BY <1>3, <2>1 DEF BegunInv
  <2>3. Somewhere(d)
    BY <1>1, <2>1, <2>2 DEF PerformedInv, PerformedInvOf
  <2>4. Len(queries[conn]) = 0
    BY <1>3
  <2> QED
    BY <1>1, <1>3, <2>1, <2>3, <2>4 DEF Somewhere
<1> QED
  BY <1>1, <1>4

(* If more threads run than dispatch admits, one of them serves a          *)
(* connection that is not open any more.                                   *)
LEMMA SomeEnds ==
  ASSUME IInv, dpc \in {"admit", "sweep"}, num_running > MaxRunning, EnoughThreads
  PROVE  \E c \in Started : Moving(c) \/ thread[c] = "exited"
<1> USE DEF IInv, PlaceInv
<1> DEFINE e == entry.pos
<1>1. e \in Positions /\ next = e + 1 /\ e \in Int /\ Positions \subseteq Int
  BY HeldFirst, LogFacts
<1>2. Cardinality(OpenAt(e)) <= MaxRunning
  BY HeldFirst DEF EnoughThreads
<1>3. PICK c \in Started : c \notin OpenAt(e)
  <2> SUFFICES ASSUME Started \subseteq OpenAt(e) PROVE FALSE
    OBVIOUS
  <2>1. IsFiniteSet(OpenAt(e))
    <3>1. OpenAt(e) \subseteq {getThreadId(d) : d \in Positions}
      BY DEF OpenAt
    <3>2. IsFiniteSet({getThreadId(d) : d \in Positions})
      <4> DEFINE f == [d \in Positions |-> getThreadId(d)]
      <4>1. f \in Surjection(Positions, {getThreadId(d) : d \in Positions})
        BY DEF Surjection
      <4>2. IsFiniteSet(Positions)
        BY LogFacts, FS_Interval
      <4> QED
        BY <4>1, <4>2, FS_Surjection
    <3> QED
      BY <3>1, <3>2, FS_Subset
  <2>2. Cardinality(Started) <= Cardinality(OpenAt(e))
    BY <2>1, FS_Subset
  <2>3. Cardinality(OpenAt(e)) \in Nat /\ Cardinality(Started) \in Nat
    BY <2>1, FS_CardinalityType DEF CountInv
  <2> QED
    BY <1>2, <2>2, <2>3, MaxRunningAssumption DEF CountInv
<1>4. c \in ThreadIds /\ c \in Workers /\ executors[c] = "thread" /\ c # conn
  BY <1>3, WorkersAssumption DEF Started, DispatchInv
<1>5. PICK d \in Positions : d < next /\ getThreadId(d) = c
  BY <1>4 DEF BegunInv, Keys
<1>6. d < e
  BY <1>1, <1>4, <1>5 DEF conn
<1>7. ASSUME NEW f \in Positions, getThreadId(f) = c
      PROVE  f < next /\ ~(Holding /\ f = entry.pos)
  <2>1. ~(f > e)
    BY <1>3, <1>4, <1>5, <1>6, <1>7 DEF OpenAt
  <2>2. f # e
    BY <1>4, <1>7 DEF conn
  <2> QED
    BY <1>1, <2>1, <2>2
<1>8. thread[c] \notin {"none", "joined", "deleted"}
  BY <1>4 DEF TableInv, TableInvOf, LastInv
<1> QED
  BY <1>4, <1>5, <1>7, <1>8, AllGiven

(* The dispatcher never waits for a thread that waits for it: a full queue *)
(* is being emptied, a thread to be joined ends, and unless too many       *)
(* connections are open a sweep finds a thread to join sooner or later.    *)
THEOREM NoDeadlock == SafeSpec => []NobodyWaitsInVain
<1>1. ASSUME IInv, dpc = "push", Len(queries[conn]) >= QueueDepth PROVE Moving(conn)
  <2>1. thread[conn] \in {"pop", "perform"}
    BY <1>1, HeldThread DEF IInv, Holding
  <2>2. queries[conn] # << >>
    BY <1>1, QueueDepthAssumption
  <2> QED
    BY <2>1, <2>2 DEF Moving
<1>2. IInv => NobodyWaitsInVain
  BY <1>1, FinishEnds, SomeEnds DEF NobodyWaitsInVain
<1> QED
  BY <1>2, Invariance, PTL

-----------------------------------------------------------------------------
(* How much is left to do.                                                 *)

(* The connections of the log, and those whose thread has yet to be        *)
(* created, to exit and to be joined.                                      *)
Served == {getThreadId(e) : e \in Positions}

Uncreated == {w \in Served : thread[w] = "none"}
Unexited  == {w \in Served : thread[w] \notin {"exited", "joined", "deleted"}}
Unjoined  == {w \in Served : thread[w] \notin {"joined", "deleted"}}

(* The entries to be popped from the log, to be pushed, to be taken from a *)
(* queue and to be performed.                                              *)
InHands(e) == thread[getThreadId(e)] = "perform" /\ query[getThreadId(e)].pos = e

Unread      == {e \in Positions : e >= next}
Unpushed    == {e \in Positions : e >= next \/ (Holding /\ e = entry.pos)}
Untaken     == {e \in Positions : performed[e] = 0 /\ ~InHands(e)}
Unperformed == {e \in Positions : performed[e] = 0}

(* The parts of the playback that have not ended.                          *)
Unfinished ==
  {part \in {"start", "dispatch", "finish"} :
     \/ dpc = "start"
     \/ dpc = "pop" /\ part # "start"
     \/ Holding /\ part # "start"
     \/ dpc = "finish" /\ part = "finish"}

Todo ==
  ({"create"} \X Uncreated) \cup ({"exit"} \X Unexited) \cup ({"join"} \X Unjoined)
    \cup ({"read"} \X Unread) \cup ({"push"} \X Unpushed) \cup ({"take"} \X Untaken)
    \cup ({"perform"} \X Unperformed) \cup ({"part"} \X Unfinished)

StepsLeft == Cardinality(Todo)

(* A sweep goes on, begins or ends in vain: dispatch still waits.          *)
SweepsInVain ==
  /\ {dpc, dpc'} \subseteq {"admit", "sweep"}
  /\ UNCHANGED <<log, workerVars, executors, num_running, last_query_of_conn, next, entry>>

LessToDo == StepsLeft \in Nat /\ (StepsLeft' < StepsLeft \/ SweepsInVain)

(* A thread that is in its loop or leaving it serves a connection of the   *)
(* log.                                                                    *)
LEMMA InLog ==
  ASSUME IInv, NEW w \in Workers, thread[w] \notin {"none", "joined"}
  PROVE  w \in Served
<1>1. executors[w] = "thread"
  BY WorkersAssumption DEF IInv, PlaceInv, TypeOK, TableInv, TableInvOf
<1>2. \E d \in Positions : getThreadId(d) = w
  BY <1>1, WorkersAssumption DEF IInv, BegunInv, Keys
<1> QED
  BY <1>2 DEF Served

(* What has been created, has exited and been joined stays so.             *)
LEMMA ThreadsShrink ==
  ASSUME PlaceInv, [Next]_vars, log' = log
  PROVE  /\ Uncreated' \subseteq Uncreated
         /\ Unexited' \subseteq Unexited
         /\ Unjoined' \subseteq Unjoined
<1>1. Served' = Served /\ Served \subseteq Workers
  BY LogFixed, LogFacts DEF PlaceInv, Served, getThreadId, Positions
<1> SUFFICES ASSUME NEW w \in Workers
             PROVE  /\ thread'[w] = "none" => thread[w] = "none"
                    /\ thread[w] \in {"exited", "joined", "deleted"} =>
                         thread'[w] \in {"exited", "joined", "deleted"}
                    /\ thread[w] \in {"joined", "deleted"} =>
                         thread'[w] \in {"joined", "deleted"}
  BY <1>1 DEF Uncreated, Unexited, Unjoined
<1>2. thread \in [Workers -> ThreadStates]
  BY DEF PlaceInv, TypeOK, WorkerTypeOK
<1>3. CASE Create
  <2>1. thread[conn] = "none"
    BY <1>3, HeldThread DEF Create, PlaceInv, DispatchInv, TableInv, TableInvOf, Holding
  <2> QED
    BY <1>2, <1>3, <2>1 DEF Create, StartThread
<1>4. ASSUME NEW c \in ThreadIds, TryJoin(c) \/ Join(c)
      PROVE  thread[w] # "exited" => thread'[w] = thread[w]
  BY <1>2, <1>4 DEF TryJoin, Join, JoinThread
<1>5. ASSUME NEW c \in ThreadIds, TryJoin(c) \/ Join(c)
      PROVE  thread'[w] \in {thread[w], "joined", "deleted"}
  BY <1>2, <1>5 DEF TryJoin, Join, JoinThread
<1>6. ASSUME NEW v \in Workers, Run(v)
      PROVE  /\ thread'[w] = "none" => thread[w] = "none"
             /\ thread[w] \in {"exited", "joined", "deleted"} => thread'[w] = thread[w]
  BY <1>2, <1>6 DEF Run, Pop, Quit, Execute, ExecuteFinish, LoopOrLeave, Leave
<1>7. CASE thread' = thread
  BY <1>7
<1> QED
  BY <1>3, <1>4, <1>5, <1>6, <1>7
     DEF Next, Dispatcher, Dispatch, PopEntry, Sleep, Push, PushQuery, EndDispatch,
         EndSweep, Return, SkipJoin, RunThread, Terminated, vars, workerVars

(* What has been read, pushed, taken and performed stays so.               *)
LEMMA EntriesShrink ==
  ASSUME PlaceInv, [Next]_vars, log' = log
  PROVE  /\ Unread' \subseteq Unread
         /\ Unpushed' \subseteq Unpushed
         /\ Untaken' \subseteq Untaken
         /\ Unperformed' \subseteq Unperformed
         /\ Unfinished' \subseteq Unfinished
<1>0. /\ thread \in [Workers -> ThreadStates] /\ query \in [Workers -> Entries]
      /\ performed \in [Positions -> Nat] /\ next \in Nat
      /\ Positions \subseteq Nat \ {0} /\ \A e \in Positions : getThreadId(e) \in Workers
      /\ Positions' = Positions /\ \A e : getThreadId(e)' = getThreadId(e)
  BY LogFixed, LogFacts DEF PlaceInv, TypeOK, WorkerTypeOK, getThreadId
<1>2. /\ Unread' \subseteq Unread
      /\ Unpushed' \subseteq Unpushed
      /\ Unfinished' \subseteq Unfinished
  <2>1. CASE PopEntry
    <3>1. /\ next \in Positions /\ next' = next + 1 /\ entry'.pos = next
          /\ dpc = "pop" /\ dpc' \in {"admit", "push"}
      BY <2>1 DEF PopEntry
    <3>2. Unread' \subseteq Unread /\ Unpushed' \subseteq Unpushed
      <4> SUFFICES ASSUME NEW e \in Positions
                   PROVE  /\ e >= next' => e >= next
                          /\ e = entry'.pos => e >= next
        BY <1>0 DEF Unread, Unpushed
      <4>1. e \in Nat /\ next \in Nat
        BY <1>0
      <4> QED
        BY <3>1, <4>1
    <3>3. Unfinished' \subseteq Unfinished
      BY <3>1 DEF Unfinished, Holding
    <3> QED
      BY <3>2, <3>3
  <2>2. CASE Push
    BY <1>0, <2>2 DEF Push, Unread, Unpushed, Unfinished, Holding
  <2>3. CASE Dispatch \/ EndDispatch \/ Return
    BY <1>0, <2>3 DEF Dispatch, EndDispatch, Return, Unread, Unpushed, Unfinished, Holding
  <2>4. CASE UNCHANGED <<next, entry>> /\ Holding /\ Holding'
    BY <1>0, <2>4 DEF Unread, Unpushed, Unfinished, Holding
  <2>5. CASE UNCHANGED <<next, entry, dpc>>
    BY <1>0, <2>5 DEF Unread, Unpushed, Unfinished, Holding
  <2> QED
    BY <2>1, <2>2, <2>3, <2>4, <2>5
       DEF Next, Dispatcher, Sleep, Create, EndSweep, TryJoin, SkipJoin, Join, RunThread,
           Terminated, vars, dispatchVars, Holding
<1>3. ASSUME NEW e \in Positions
      PROVE  /\ performed'[e] = 0 => performed[e] = 0
             /\ InHands(e) => InHands(e)' \/ performed'[e] # 0
  <2> DEFINE w == getThreadId(e)
  <2>0. w \in Workers /\ e # 0
    BY <1>0
  <2>1. CASE Dispatcher
    <3>1. performed' = performed
      BY <2>1 DEF Dispatcher, Dispatch, PopEntry, Sleep, Create, StartThread, Push,
                  PushQuery, EndDispatch, EndSweep, Return, TryJoin, SkipJoin, Join,
                  JoinThread, workerVars
    <3>2. CASE Create
      <4>1. thread[conn] = "none"
        BY <3>2, HeldThread DEF Create, PlaceInv, DispatchInv, TableInv, TableInvOf, Holding
      <4>2. thread[w] = "perform" => thread'[w] = thread[w] /\ query'[w] = query[w]
        BY <1>0, <2>0, <3>2, <4>1 DEF Create, StartThread
      <4> QED
        BY <1>0, <3>1, <4>2 DEF InHands
    <3>3. ASSUME NEW c \in ThreadIds, TryJoin(c) \/ Join(c)
          PROVE  InHands(e) => InHands(e)'
      <4>1. thread[w] = "perform" => thread'[w] = thread[w] /\ query'[w] = query[w]
        BY <1>0, <2>0, <3>3 DEF TryJoin, Join, JoinThread
      <4> QED
        BY <1>0, <4>1 DEF InHands
    <3>4. CASE UNCHANGED <<thread, query>>
      BY <1>0, <3>1, <3>4 DEF InHands
    <3> QED
      BY <2>1, <3>1, <3>2, <3>3, <3>4
         DEF Dispatcher, Dispatch, PopEntry, Sleep, Push, PushQuery, EndDispatch, EndSweep,
             Return, SkipJoin, workerVars
  <2>2. ASSUME NEW v \in Workers, Pop(v) \/ Leave(v) \/ ExecuteFinish(v)
        PROVE  /\ performed'[e] = 0 => performed[e] = 0
               /\ InHands(e) => InHands(e)' \/ performed'[e] # 0
    <3>1. performed' = performed
      BY <2>2 DEF Pop, Leave, ExecuteFinish
    <3>2. thread[w] = "perform" /\ query[w].pos # 0 =>
            thread'[w] = "perform" /\ query'[w] = query[w]
      BY <1>0, <2>0, <2>2 DEF Pop, Leave, ExecuteFinish, LoopOrLeave
    <3> QED
      BY <1>0, <2>0, <3>1, <3>2 DEF InHands
  <2>3. ASSUME NEW v \in Workers, Quit(v) \/ Execute(v)
        PROVE  /\ performed'[e] = 0 => performed[e] = 0
               /\ InHands(e) => InHands(e)' \/ performed'[e] # 0
    <3>1. performed' = [performed EXCEPT ![query[v].pos] = performed[query[v].pos] + 1]
      BY <2>3 DEF Quit, Execute
    <3>2. performed'[e] = IF e = query[v].pos THEN performed[e] + 1 ELSE performed[e]
      BY <1>0, <3>1
    <3>3. w # v => thread'[w] = thread[w] /\ query'[w] = query[w]
      BY <1>0, <2>0, <2>3 DEF Quit, Execute, LoopOrLeave
    <3>4. performed[e] \in Nat
      BY <1>0
    <3> QED
      BY <1>0, <3>2, <3>3, <3>4 DEF InHands
  <2>4. CASE UNCHANGED vars
    BY <1>0, <2>4 DEF vars, workerVars, InHands
  <2> QED
    BY <2>1, <2>2, <2>3, <2>4 DEF Next, RunThread, Run, Terminated
<1>4. Untaken' \subseteq Untaken /\ Unperformed' \subseteq Unperformed
  BY <1>0, <1>3 DEF Untaken, Unperformed
<1> QED
  BY <1>2, <1>4

(* Every step of the dispatcher but those of a sweep in vain gets          *)
(* something done,                                                         *)
LEMMA DispatcherShrinks ==
  ASSUME IInv, Dispatcher
  PROVE  \/ Uncreated' # Uncreated \/ Unjoined' # Unjoined \/ Unread' # Unread
         \/ Unpushed' # Unpushed \/ Unfinished' # Unfinished
         \/ SweepsInVain
<1>0. /\ thread \in [Workers -> ThreadStates] /\ next \in Nat /\ PlaceInv
      /\ Workers = ThreadIds /\ Positions \subseteq Nat
  BY WorkersAssumption, LogFacts DEF IInv, PlaceInv, TypeOK, WorkerTypeOK
<1>1. CASE Dispatch
  <2>1. "start" \in Unfinished /\ "start" \notin Unfinished'
    BY <1>1 DEF Dispatch, Unfinished, Holding
  <2> QED
    BY <2>1
<1>2. CASE PopEntry
  <2>1. next \in Unread /\ next \notin Unread'
    BY <1>0, <1>2 DEF PopEntry, Unread
  <2> QED
    BY <2>1
<1>3. CASE Create
  <2>1. /\ conn \in Workers /\ thread[conn] = "none"
        /\ entry.pos \in Positions /\ getThreadId(entry.pos) = conn
    BY <1>0, <1>3, HeldThread
       DEF Create, PlaceInv, DispatchInv, TableInv, TableInvOf, Holding
  <2>2. thread'[conn] = "pop"
    BY <1>0, <1>3, <2>1 DEF Create, StartThread
  <2>p. PICK w : w = conn
    OBVIOUS
  <2>3. w \in Uncreated /\ w \notin Uncreated'
    BY <2>1, <2>2, <2>p DEF Uncreated, Served
  <2> QED
    BY <2>3
<1>4. CASE Push
  <2>1. entry.pos \in Positions /\ entry.pos = next - 1
    BY <1>0, <1>4 DEF Push, PlaceInv, DispatchInv, Holding
  <2>p. PICK e : e = entry.pos
    OBVIOUS
  <2>2. e \in Unpushed /\ e \notin Unpushed'
    BY <1>0, <1>4, <2>1, <2>p DEF Push, Unpushed, Holding
  <2> QED
    BY <2>2
<1>5. CASE EndDispatch
  <2>1. "dispatch" \in Unfinished /\ "dispatch" \notin Unfinished'
    BY <1>5 DEF EndDispatch, Unfinished, Holding
  <2> QED
    BY <2>1
<1>6. CASE Return
  <2>1. "finish" \in Unfinished /\ "finish" \notin Unfinished'
    BY <1>6 DEF Return, Unfinished, Holding
  <2> QED
    BY <2>1
<1>7. ASSUME NEW c \in ThreadIds, TryJoin(c) \/ Join(c)
      PROVE  Unjoined' # Unjoined
  <2>1. thread[c] = "exited" /\ thread'[c] \in {"joined", "deleted"}
    BY <1>0, <1>7 DEF TryJoin, Join, JoinThread
  <2>2. c \in Served
    BY <1>0, <2>1, InLog
  <2>3. c \in Unjoined /\ c \notin Unjoined'
    BY <2>1, <2>2 DEF Unjoined
  <2> QED
    BY <2>3
<1>8. CASE Sleep \/ EndSweep \/ \E c \in ThreadIds : SkipJoin(c)
  BY <1>8 DEF Sleep, EndSweep, SkipJoin, SweepsInVain
<1> QED
  BY <1>1, <1>2, <1>3, <1>4, <1>5, <1>6, <1>7, <1>8 DEF Dispatcher

(* and so does every step of a thread.                                     *)
LEMMA RunShrinks ==
  ASSUME IInv, NEW w \in Workers, RunThread(w)
  PROVE  Unexited' # Unexited \/ Untaken' # Untaken \/ Unperformed' # Unperformed
<1>0. /\ PlaceInv /\ thread \in [Workers -> ThreadStates]
      /\ query \in [Workers -> Entries] /\ queries \in [Workers -> Seq(Entries)]
      /\ performed \in [Positions -> Nat]
      /\ log' = log /\ Positions' = Positions /\ \A e : getThreadId(e)' = getThreadId(e)
  BY LogFixed DEF IInv, PlaceInv, TypeOK, WorkerTypeOK, RunThread, getThreadId
<1>1. CASE Pop(w)
  <2>p. PICK e : e = queries[w][1].pos
    OBVIOUS
  <2>1. /\ thread[w] = "pop" /\ thread'[w] = "perform"
        /\ 1 \in 1 .. Len(queries[w]) /\ query'[w].pos = e
        /\ performed' = performed
    BY <1>0, <1>1, <2>p DEF Pop
  <2>2. e \in Positions /\ getThreadId(e) = w /\ performed[e] = 0
    BY <1>0, <2>1, <2>p DEF PlaceInv, QueueInv, QueueInvOf, Given
  <2>3. e \in Untaken
    BY <2>1, <2>2 DEF Untaken, InHands
  <2>4. InHands(e)'
    BY <1>0, <2>1, <2>2 DEF InHands
  <2>5. e \notin Untaken'
    BY <2>4 DEF Untaken
  <2> QED
    BY <2>3, <2>5
<1>2. CASE Quit(w) \/ Execute(w)
  <2> DEFINE e == query[w].pos
  <2>1. e \in Positions /\ performed[e] = 0
    BY <1>0, <1>2, InHand DEF Quit, Execute, Given
  <2>2. performed'[e] = 1
    BY <1>0, <1>2, <2>1 DEF Quit, Execute
  <2>3. e \in Unperformed /\ e \notin Unperformed'
    BY <2>1, <2>2 DEF Unperformed
  <2> QED
    BY <2>3
<1>3. CASE ExecuteFinish(w)
  <2>1. 0 \in Positions
    BY <1>0, <1>3, InHand DEF ExecuteFinish, Given
  <2> QED
    BY <1>0, <2>1, LogFacts DEF PlaceInv
<1>4. CASE Leave(w)
  <2>1. thread[w] = "leave" /\ thread'[w] = "exited"
    BY <1>0, <1>4 DEF Leave
  <2>2. w \in Served
    BY <2>1, InLog
  <2>3. w \in Unexited /\ w \notin Unexited'
    BY <2>1, <2>2 DEF Unexited
  <2> QED
    BY <2>3
<1> QED
  BY <1>1, <1>2, <1>3, <1>4 DEF RunThread, Run

(* There is only so much to do.                                            *)
LEMMA TodoFinite ==
  ASSUME TypeOK
  PROVE  IsFiniteSet(Todo)
<1> DEFINE Some(kind, S) == {kind} \X S
<1>1. IsFiniteSet(Positions) /\ IsFiniteSet(Served)
  <2>1. IsFiniteSet(Positions)
    BY LogFacts, FS_Interval
  <2> DEFINE f == [e \in Positions |-> getThreadId(e)]
  <2>2. f \in Surjection(Positions, Served)
    BY DEF Surjection, Served
  <2> QED
    BY <2>1, <2>2, FS_Surjection
<1>2. IsFiniteSet({"start", "dispatch", "finish"})
  <2>1. {"start", "dispatch", "finish"} = {"start"} \cup ({"dispatch"} \cup {"finish"})
    OBVIOUS
  <2>2. \A x : IsFiniteSet({x})
    BY FS_Singleton
  <2>3. IsFiniteSet({"dispatch"} \cup {"finish"})
    BY <2>2, FS_Union
  <2>4. IsFiniteSet({"start"} \cup ({"dispatch"} \cup {"finish"}))
    BY <2>2, <2>3, FS_Union
  <2> QED
    BY <2>1, <2>4
<1>3. IsFiniteSet(Uncreated) /\ IsFiniteSet(Unexited) /\ IsFiniteSet(Unjoined)
  BY <1>1, FS_Subset DEF Uncreated, Unexited, Unjoined
<1>4. /\ IsFiniteSet(Unread) /\ IsFiniteSet(Unpushed) /\ IsFiniteSet(Untaken)
      /\ IsFiniteSet(Unperformed)
  BY <1>1, FS_Subset DEF Unread, Unpushed, Untaken, Unperformed
<1>5. IsFiniteSet(Unfinished)
  BY <1>2, FS_Subset DEF Unfinished
<1>6. ASSUME NEW kind, NEW S, IsFiniteSet(S) PROVE IsFiniteSet(Some(kind, S))
  <2>1. IsFiniteSet({kind})
    BY FS_Singleton
  <2> QED
    BY <1>6, <2>1, FS_Product
<1>7. /\ IsFiniteSet(Some("create", Uncreated)) /\ IsFiniteSet(Some("exit", Unexited))
      /\ IsFiniteSet(Some("join", Unjoined)) /\ IsFiniteSet(Some("read", Unread))
      /\ IsFiniteSet(Some("push", Unpushed)) /\ IsFiniteSet(Some("take", Untaken))
      /\ IsFiniteSet(Some("perform", Unperformed)) /\ IsFiniteSet(Some("part", Unfinished))
  <2> HIDE DEF Some
  <2> QED
    BY <1>3, <1>4, <1>5, <1>6
<1>8. Todo = Some("create", Uncreated) \cup Some("exit", Unexited)
               \cup Some("join", Unjoined) \cup Some("read", Unread)
               \cup Some("push", Unpushed) \cup Some("take", Untaken)
               \cup Some("perform", Unperformed) \cup Some("part", Unfinished)
  BY DEF Todo
<1> HIDE DEF Some
<1> QED
  BY <1>7, <1>8, FS_Union

(* Replaying a log takes a bounded number of steps, however the threads    *)
(* are scheduled, but for those of the sweeps that find nothing to join:   *)
(* each step leaves less to do.                                            *)
THEOREM Progress == SafeSpec => [][LessToDo]_vars
<1>1. ASSUME IInv, [Next]_vars
      PROVE  [LessToDo]_vars
  <2> SUFFICES ASSUME vars' # vars, ~SweepsInVain
               PROVE  StepsLeft \in Nat /\ StepsLeft' < StepsLeft
    <3>1. StepsLeft \in Nat
      BY <1>1, TodoFinite, FS_CardinalityType DEF IInv, PlaceInv, StepsLeft
    <3> QED
      BY <3>1 DEF LessToDo
  <2>0. PlaceInv /\ TypeOK /\ log' = log
    BY <1>1 DEF IInv, PlaceInv, Next, Dispatcher, Dispatch, PopEntry, Sleep, Create, Push,
                EndDispatch, EndSweep, Return, TryJoin, SkipJoin, Join, RunThread,
                Terminated, vars
  <2>1. Todo' \subseteq Todo
    BY <1>1, <2>0, ThreadsShrink, EntriesShrink DEF Todo
  <2>2. Todo' # Todo
    <3>1. \/ Uncreated' # Uncreated \/ Unexited' # Unexited \/ Unjoined' # Unjoined
          \/ Unread' # Unread \/ Unpushed' # Unpushed \/ Untaken' # Untaken
          \/ Unperformed' # Unperformed \/ Unfinished' # Unfinished
      BY <1>1, DispatcherShrinks, RunShrinks DEF Next, Terminated
    <3>2. /\ \A x : <<"create", x>> \in Todo <=> x \in Uncreated
          /\ \A x : <<"exit", x>> \in Todo <=> x \in Unexited
          /\ \A x : <<"join", x>> \in Todo <=> x \in Unjoined
          /\ \A x : <<"read", x>> \in Todo <=> x \in Unread
          /\ \A x : <<"push", x>> \in Todo <=> x \in Unpushed
          /\ \A x : <<"take", x>> \in Todo <=> x \in Untaken
          /\ \A x : <<"perform", x>> \in Todo <=> x \in Unperformed
          /\ \A x : <<"part", x>> \in Todo <=> x \in Unfinished
      BY DEF Todo
    <3>3. /\ \A x : <<"create", x>> \in Todo' <=> x \in Uncreated'
          /\ \A x : <<"exit", x>> \in Todo' <=> x \in Unexited'
          /\ \A x : <<"join", x>> \in Todo' <=> x \in Unjoined'
          /\ \A x : <<"read", x>> \in Todo' <=> x \in Unread'
          /\ \A x : <<"push", x>> \in Todo' <=> x \in Unpushed'
          /\ \A x : <<"take", x>> \in Todo' <=> x \in Untaken'
          /\ \A x : <<"perform", x>> \in Todo' <=> x \in Unperformed'
          /\ \A x : <<"part", x>> \in Todo' <=> x \in Unfinished'
      BY DEF Todo
    <3> QED
      BY <3>1, <3>2, <3>3
  <2>3. IsFiniteSet(Todo) /\ IsFiniteSet(Todo')
    <3>1. IsFiniteSet(Todo)
      BY <2>0, TodoFinite
    <3> QED
      BY <2>1, <3>1, FS_Subset
  <2>4. /\ Cardinality(Todo) \in Nat /\ Cardinality(Todo') \in Nat
        /\ Cardinality(Todo') <= Cardinality(Todo)
        /\ Cardinality(Todo') # Cardinality(Todo)
    BY <2>1, <2>2, <2>3, FS_CardinalityType, FS_Subset
  <2> QED
    BY <2>4 DEF StepsLeft
<1> QED
  BY <1>1, Invariance, PTL DEF SafeSpec

-----------------------------------------------------------------------------
(* Refinement.                                                             *)

(* When finish_all_and_wait returns, every entry has been performed.       *)
LEMMA AllPerformed ==
  ASSUME PlaceInv, Return, NEW e \in Positions
  PROVE  performed[e] = 1
<1> USE DEF PlaceInv
<1> DEFINE w == getThreadId(e)
<1>1. w \in Workers /\ e \in Int /\ e < next /\ ~Holding
  BY LogFacts DEF Return, DispatchInv, Holding
<1>2. TableInvOf(w) /\ EndedInvOf(w)
  BY <1>1 DEF TableInv, EndedInv
<1>3. thread[w] \in {"none", "joined", "deleted"}
  BY <1>1, <1>2, WorkersAssumption DEF TableInvOf, TypeOK, Return
<1>4. queries[w] = << >>
  BY <1>2, <1>3 DEF EndedInvOf
<1>5. ~Somewhere(e)
  BY <1>1, <1>3, <1>4 DEF Somewhere
<1>6. PerformedInvOf(e)
  BY DEF PerformedInv
<1> QED
  BY <1>1, <1>5, <1>6 DEF PerformedInvOf

(* Each step performs the next entry of a connection, or returns when all  *)
(* have been performed, or is a stuttering step of Replay.                 *)
LEMMA StepImplements ==
  PlaceInv /\ [Next]_vars => [R!Next]_(R!replayVars)
<1> SUFFICES ASSUME PlaceInv, [Next]_vars PROVE [R!Next]_(R!replayVars)
  OBVIOUS
<1>1. ASSUME NEW w \in Workers, RunThread(w), Quit(w) \/ Execute(w)
      PROVE  R!Next
  <2> DEFINE e == query[w].pos
  <2>1. thread[w] = "perform"
    BY <1>1 DEF Quit, Execute
  <2>2. /\ Given(w, query[w]) /\ dpc # "returned"
        /\ \A d \in Positions : d < e /\ getThreadId(d) = w => performed[d] = 1
    BY <2>1, InHand
  <2>3. /\ e \in Positions /\ getThreadId(e) = w /\ performed[e] = 0
    BY <2>2 DEF Given
  <2>4. \A d \in R!Earlier(e) : performed[d] = 1
    <3> SUFFICES ASSUME NEW d \in 1 .. e - 1, getThreadId(d) = w
                 PROVE  performed[d] = 1
      BY <2>3 DEF R!Earlier, R!getThreadId, getThreadId
    <3>1. Len(log) \in Nat /\ Positions = 1 .. Len(log)
      BY LogFacts DEF PlaceInv
    <3>2. e \in 1 .. Len(log)
      BY <2>3, <3>1
    <3>3. d \in 1 .. Len(log) /\ d < e
      BY <3>1, <3>2
    <3> QED
      BY <2>2, <3>1, <3>3
  <2>5. performed' = [performed EXCEPT ![e] = 1]
    BY <1>1, <2>3 DEF Quit, Execute
  <2>6. UNCHANGED <<log, dpc>>
    BY <1>1 DEF RunThread, dispatchVars
  <2>7. R!Perform(e)
    BY <2>2, <2>3, <2>4, <2>5, <2>6 DEF R!Perform
  <2> QED
    BY <2>3, <2>7 DEF R!Next, R!Positions, Positions
<1>2. CASE Return
  <2>1. \A e \in Positions : performed[e] = 1
    BY <1>2, AllPerformed
  <2>2. dpc' = "returned" /\ UNCHANGED <<log, performed>>
    BY <1>2 DEF Return, workerVars
  <2> QED
    BY <2>1, <2>2 DEF R!Next, R!Return, R!Positions, Positions
<1>3. ASSUME UNCHANGED <<log, performed>>, (dpc' = "returned") = (dpc = "returned")
      PROVE  UNCHANGED R!replayVars
  BY <1>3 DEF R!replayVars
<1>4. CASE UNCHANGED vars
  BY <1>3, <1>4 DEF vars, workerVars, dispatchVars
<1>5. CASE Dispatcher /\ ~Return
  BY <1>3, <1>5
     DEF Dispatcher, Dispatch, PopEntry, Sleep, Create, StartThread, Push,
         PushQuery, EndDispatch, EndSweep, TryJoin, SkipJoin, Join, JoinThread,
         workerVars
<1>6. ASSUME NEW w \in Workers, RunThread(w), ~(Quit(w) \/ Execute(w))
      PROVE  UNCHANGED R!replayVars
  BY <1>3, <1>6 DEF RunThread, Run, Pop, ExecuteFinish, Leave, dispatchVars
<1> QED
  BY <1>1, <1>2, <1>4, <1>5, <1>6 DEF Next, Terminated

(* Thread-per-connection keeps the promise of Replay: every entry exactly  *)
(* once, in the order of its connection, all before it returns.            *)
THEOREM Refinement == SafeSpec => ImplementsReplay
<1>1. Init => R!Init
  BY DEF Init, WorkerInit, R!Init, R!Positions, Positions
<1> QED
  BY <1>1, StepImplements, Placement, PTL
     DEF SafeSpec, ImplementsReplay, R!SafeSpec
=============================================================================
