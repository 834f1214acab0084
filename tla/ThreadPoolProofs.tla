-------------------------- MODULE ThreadPoolProofs --------------------------
(***************************************************************************)
(* Theorems about ThreadPool, for every set of connections, every set of   *)
(* logs, every queue depth, every number of workers and every hash.        *)
(***************************************************************************)
EXTENDS ThreadPool, DBThreadProofs, FiniteSetTheorems

-----------------------------------------------------------------------------
(* The inductive invariant.  A worker pops an entry off the queue it came  *)
(* in on, so what matters is what the worker holds: the entry in its hands *)
(* followed by its queue.                                                  *)

Held(w) ==
  IF thread[w] = "perform" THEN <<query[w]>> \o queries[w] ELSE queries[w]

Ended(w) == thread[w] \in {"leave", "exited", "joined", "deleted"}

(* finish_all_and_wait has pushed the FinishEntry of worker w.             *)
Told(w) ==
  \/ dpc = "finish" /\ w < i
  \/ dpc \in {"join", "returned"}

(* The worker that an entry of the log goes to.                            *)
WorkerFor(e) == WorkerOf[getThreadId(e)]

(* A query that worker w was given: popped from the log, earlier than the  *)
(* one that dispatch holds, and neither it nor any later query that goes   *)
(* to w has been performed.                                                *)
Given(w, en) ==
  /\ en.pos \in Positions
  /\ en.pos < next
  /\ dpc = "push" => en.pos < entry.pos
  /\ WorkerFor(en.pos) = w
  /\ \A d \in Positions : d >= en.pos /\ WorkerFor(d) = w => performed[d] = 0

DispatchInv ==
  /\ dpc = "run" => next = 1 /\ workers = i
  /\ dpc \in {"pop", "push", "finish", "join"} => workers = threads_count
  /\ dpc = "push" => /\ entry.pos \in Positions
                     /\ entry.pos = next - 1
                     /\ ~entry.shutdown
                     /\ performed[entry.pos] = 0
  /\ dpc \in {"finish", "join", "returned"} => next = Len(log) + 1

(* The queries that a worker holds are in the order of the log, and behind *)
(* them is at most the one FinishEntry.                                    *)
HeldInvOf(w) ==
  \A k \in 1 .. Len(Held(w)) :
    /\ Held(w)[k].shutdown => /\ Held(w)[k] = FinishEntry
                              /\ k = Len(Held(w))
                              /\ Told(w)
    /\ ~Held(w)[k].shutdown =>
         /\ Given(w, Held(w)[k])
         /\ \A m \in 1 .. k - 1 : Held(w)[m].pos < Held(w)[k].pos

(* Nothing is lost: a query popped from the log and not performed is with  *)
(* the dispatcher or held by its worker.                                   *)
Somewhere(e) ==
  \/ dpc = "push" /\ e = entry.pos
  \/ \E k \in 1 .. Len(Held(WorkerFor(e))) : Held(WorkerFor(e))[k].pos = e

PerformedInvOf(e) ==
  /\ performed[e] \in {0, 1}
  /\ e >= next => performed[e] = 0
  /\ e < next /\ performed[e] = 0 => Somewhere(e)

(* A worker ends only when told to, and leaves nothing undone.             *)
ThreadInvOf(w) ==
  /\ dpc = "run" => (thread[w] = "none" <=> w >= i)
  /\ dpc # "run" => thread[w] # "none"
  /\ Ended(w) => /\ Told(w)
                 /\ queries[w] = << >>
                 /\ \A e \in Positions : WorkerFor(e) = w => performed[e] = 1
  /\ thread[w] # "perform" => query[w] = NoEntry
  /\ thread[w] \notin {"pop", "perform", "leave"} => ~connected[w]
  /\ dpc = "join" /\ w < i => thread[w] = "joined"
  /\ dpc = "returned" => thread[w] = "deleted"

HeldInv      == \A w \in Workers : HeldInvOf(w)
PerformedInv == \A e \in Positions : PerformedInvOf(e)
ThreadInv    == \A w \in Workers : ThreadInvOf(w)

PlaceInv ==
  /\ TypeOK
  /\ DispatchInv
  /\ HeldInv
  /\ PerformedInv
  /\ ThreadInv

(* A worker that was told to finish still holds the FinishEntry until it   *)
(* ends, and is joined and deleted by finish_all_and_wait only.            *)
FinishInvOf(w) ==
  /\ Told(w) /\ ~Ended(w) => \E k \in 1 .. Len(Held(w)) : Held(w)[k].shutdown
  /\ thread[w] = "joined" => dpc = "join" /\ w < i
  /\ thread[w] = "deleted" => dpc = "returned"

FinishInv == \A w \in Workers : FinishInvOf(w)

IInv == PlaceInv /\ FinishInv

-----------------------------------------------------------------------------
(* Every position of the log goes to one of the workers, which are named   *)
(* by numbers.                                                             *)
LEMMA LogFacts ==
  ASSUME log \in Logs
  PROVE  /\ Len(log) \in Nat
         /\ Positions = 1 .. Len(log)
         /\ \A e \in Positions : WorkerFor(e) \in Workers
BY LogPositions, WorkerOfAssumption DEF WorkerFor

(* The initial state has the types of TypeOK.                              *)
LEMMA TypeInit == Init => TypeOK
<1> SUFFICES ASSUME Init PROVE TypeOK
  OBVIOUS
<1>1. WorkerTypeOK /\ Len(log) \in Nat
  BY WorkerInitType, LogPositions DEF Init
<1> QED
  BY <1>1, EntriesType, ThreadsCountAssumption DEF Init, TypeOK

(* A step of the dispatcher keeps the types of the whole state.  The count *)
(* of the workers does not outgrow the threads only because it is the loop *)
(* variable of run.                                                        *)
LEMMA TypeDispatcher ==
  ASSUME TypeOK, DispatchInv, Dispatcher
  PROVE  TypeOK'
<1> USE ThreadsCountAssumption DEF TypeOK
<1>0. Len(log) \in Nat /\ Positions = 1 .. Len(log) /\ log' = log
  BY LogPositions DEF Dispatcher, StartWorker, EndRun, PopEntry, Push, EndDispatch,
                      PushFinish, EndPushFinish, Join, Clear
<1>1. ASSUME UNCHANGED workerVars PROVE WorkerTypeOK'
  BY <1>0, <1>1, LogFixed DEF WorkerTypeOK, workerVars
<1>2. CASE StartWorker
  BY <1>0, <1>2, StartThreadType DEF StartWorker, DispatchInv
<1>3. CASE EndRun \/ EndDispatch \/ EndPushFinish
  BY <1>1, <1>3 DEF EndRun, EndDispatch, EndPushFinish
<1>4. CASE PopEntry
  <2>1. next' \in 1 .. Len(log) + 1 /\ entry' \in Entries
    BY <1>0, <1>4 DEF PopEntry, Entries
  <2> QED
    BY <1>1, <1>4, <2>1 DEF PopEntry
<1>5. CASE Push
  <2>1. WorkerTypeOK'
    BY <1>0, <1>5, PushQueryType DEF Push
  <2> QED
    BY <1>5, <2>1, EntriesType DEF Push
<1>6. CASE PushFinish
  <2>1. WorkerTypeOK'
    BY <1>0, <1>6, PushQueryType, EntriesType DEF PushFinish
  <2> QED
    BY <1>6, <2>1 DEF PushFinish
<1>7. CASE Join
  <2>1. WorkerTypeOK'
    BY <1>0, <1>7, JoinThreadType DEF Join, ThreadStates
  <2> QED
    BY <1>7, <2>1 DEF Join
<1>8. CASE Clear
  <2>1. WorkerTypeOK'
    BY <1>0, <1>8, LogFixed DEF Clear, WorkerTypeOK, ThreadStates
  <2> QED
    BY <1>8, <2>1 DEF Clear
<1> QED
  BY <1>2, <1>3, <1>4, <1>5, <1>6, <1>7, <1>8 DEF Dispatcher

(* Every step, and every stuttering step, keeps the types.                 *)
LEMMA TypeStep == TypeOK /\ DispatchInv /\ [Next]_vars => TypeOK'
<1> SUFFICES ASSUME TypeOK, DispatchInv, [Next]_vars PROVE TypeOK'
  OBVIOUS
<1>1. CASE UNCHANGED vars
  BY <1>1 DEF TypeOK, WorkerTypeOK, vars, workerVars, dispatchVars, Positions
<1>2. ASSUME NEW w \in Workers, RunThread(w) PROVE TypeOK'
  <2>1. WorkerTypeOK' /\ log' = log
    BY <1>2, RunType DEF TypeOK, RunThread
  <2> QED
    BY <1>2, <2>1 DEF TypeOK, RunThread, dispatchVars
<1> QED
  BY <1>1, <1>2, TypeDispatcher DEF Next, Terminated

-----------------------------------------------------------------------------
(* What a worker holds.                                                    *)

(* It is a sequence of entries: the one in hand, if any, then the queue.   *)
LEMMA HeldType ==
  ASSUME TypeOK, NEW w \in Workers
  PROVE  /\ Held(w) \in Seq(Entries)
         /\ thread[w] = "perform" =>
              /\ Held(w)[1] = query[w]
              /\ Len(Held(w)) = Len(queries[w]) + 1
              /\ \A k \in 1 .. Len(queries[w]) : Held(w)[k + 1] = queries[w][k]
         /\ thread[w] # "perform" => Held(w) = queries[w]
BY Cons DEF TypeOK, WorkerTypeOK, Held

(* Popping moves an entry from the queue to the hand, which changes        *)
(* nothing in what is held.                                                *)
LEMMA HeldPop ==
  ASSUME TypeOK, NEW w \in Workers, Pop(w), NEW v \in Workers
  PROVE  Held(v)' = Held(v)
<1>1. /\ queries[w] = <<Head(queries[w])>> \o Tail(queries[w])
      /\ thread[w] = "pop"
  BY HeadTail DEF Pop, TypeOK, WorkerTypeOK
<1>2. CASE v = w
  <2>1. /\ thread'[w] = "perform"
        /\ query'[w] = Head(queries[w])
        /\ queries'[w] = Tail(queries[w])
    BY DEF Pop, TypeOK, WorkerTypeOK
  <2> QED
    BY <1>1, <1>2, <2>1 DEF Held
<1>3. CASE v # w
  BY <1>3 DEF Pop, TypeOK, WorkerTypeOK, Held
<1> QED
  BY <1>2, <1>3

(* Pushing adds an entry behind what is held.                              *)
LEMMA HeldPush ==
  ASSUME TypeOK, TypeOK', NEW w \in Workers, NEW e \in Entries, PushQuery(w, e)
  PROVE  /\ Len(Held(w)') = Len(Held(w)) + 1
         /\ Held(w)'[Len(Held(w)) + 1] = e
         /\ \A k \in 1 .. Len(Held(w)) : Held(w)'[k] = Held(w)[k]
         /\ \A v \in Workers : v # w => Held(v)' = Held(v)
<1> DEFINE q == queries[w]
<1>1. q \in Seq(Entries) /\ UNCHANGED <<thread, query>>
  BY DEF PushQuery, TypeOK, WorkerTypeOK
<1>2. /\ Len(q) \in Nat /\ Len(queries'[w]) = Len(q) + 1
      /\ queries'[w][Len(q) + 1] = e
      /\ \A k \in 1 .. Len(q) : queries'[w][k] = q[k]
      /\ \A v \in Workers : v # w => queries'[v] = queries[v]
  BY <1>1 DEF PushQuery, TypeOK, WorkerTypeOK
<1>3. \A v \in Workers : v # w => Held(v)' = Held(v)
  BY <1>1, <1>2 DEF Held
<1>4. CASE thread[w] # "perform"
  <2>1. Held(w) = q /\ Held(w)' = queries'[w]
    BY <1>1, <1>4 DEF Held
  <2> QED
    BY <1>2, <1>3, <2>1
<1>5. CASE thread[w] = "perform"
  <2>1. /\ Len(Held(w)) = Len(q) + 1
        /\ Held(w)[1] = query[w]
        /\ \A k \in 1 .. Len(q) : Held(w)[k + 1] = q[k]
    BY <1>5, HeldType
  <2>2. /\ query[w] \in Entries /\ queries'[w] \in Seq(Entries)
        /\ Held(w)' = <<query[w]>> \o queries'[w]
    BY <1>1, <1>5 DEF Held, TypeOK, WorkerTypeOK
  <2>3. /\ Len(Held(w)') = Len(q) + 2
        /\ Held(w)'[1] = query[w]
        /\ \A k \in 1 .. Len(q) + 1 : Held(w)'[k + 1] = queries'[w][k]
    BY <1>2, <2>2, Cons, SMTT(30)
  <2>4. Held(w)'[Len(Held(w)) + 1] = e
    BY <1>2, <2>1, <2>3
  <2>5. ASSUME NEW k \in 1 .. Len(Held(w)) PROVE Held(w)'[k] = Held(w)[k]
    <3>1. CASE k = 1
      BY <2>1, <2>3, <3>1
    <3>2. CASE k # 1
      <4>1. k - 1 \in 1 .. Len(q) /\ (k - 1) + 1 = k
        BY <1>2, <2>1, <3>2
      <4>2. Held(w)[k] = q[k - 1] /\ Held(w)'[k] = queries'[w][k - 1]
        BY <1>2, <2>1, <2>3, <4>1
      <4> QED
        BY <1>2, <4>1, <4>2
    <3> QED
      BY <3>1, <3>2
  <2> QED
    BY <1>2, <1>3, <2>1, <2>3, <2>4, <2>5
<1> QED
  BY <1>4, <1>5

(* Performing takes the first entry away.                                  *)
LEMMA HeldPerform ==
  ASSUME TypeOK, NEW w \in Workers, Quit(w) \/ Execute(w) \/ ExecuteFinish(w)
  PROVE  /\ Len(Held(w)) = Len(queries[w]) + 1 /\ Len(queries[w]) \in Nat
         /\ Held(w)[1] = query[w]
         /\ Held(w)' = queries[w]
         /\ \A k \in 1 .. Len(queries[w]) : Held(w)'[k] = Held(w)[k + 1]
         /\ \A v \in Workers : v # w => Held(v)' = Held(v)
<1>1. thread[w] = "perform"
  BY DEF Quit, Execute, ExecuteFinish
<1>2. /\ queries' = queries /\ thread'[w] # "perform"
      /\ \A v \in Workers : v # w => /\ thread'[v] = thread[v]
                                     /\ query'[v] = query[v]
  BY DEF Quit, Execute, ExecuteFinish, LoopOrLeave, TypeOK, WorkerTypeOK
<1>3. Held(w)' = queries[w] /\ \A v \in Workers : v # w => Held(v)' = Held(v)
  BY <1>2 DEF Held
<1>4. queries[w] \in Seq(Entries)
  BY DEF TypeOK, WorkerTypeOK
<1> QED
  BY <1>1, <1>3, <1>4, HeldType

-----------------------------------------------------------------------------
(* The inductive invariant.                                                *)

(* Initially nothing has been popped and no worker exists.                 *)
LEMMA InitPlaceInv == Init => PlaceInv
<1> SUFFICES ASSUME Init PROVE PlaceInv
  OBVIOUS
<1>1. TypeOK /\ log \in Logs
  BY TypeInit DEF Init
<1>2. DispatchInv
  BY DEF Init, DispatchInv
<1>3. \A w \in Workers : Held(w) = << >>
  BY DEF Init, WorkerInit, Held
<1>4. HeldInv
  BY <1>3 DEF HeldInv, HeldInvOf
<1>5. PerformedInv
  BY <1>1, LogFacts DEF Init, WorkerInit, PerformedInv, PerformedInvOf
<1>6. ThreadInv
  BY PoolWorkersAssumption, ThreadsCountAssumption
     DEF Init, WorkerInit, ThreadInv, ThreadInvOf, Ended
<1> QED
  BY <1>1, <1>2, <1>4, <1>5, <1>6 DEF PlaceInv

(* A step that neither moves an entry nor performs one.                    *)
LEMMA NothingMoves ==
  ASSUME HeldInv, PerformedInv, log \in Logs,
         UNCHANGED <<log, performed, next, entry>>,
         dpc' = "push" <=> dpc = "push",
         \A w \in Workers : Held(w)' = Held(w),
         \A w \in Workers : Told(w) => Told(w)'
  PROVE  HeldInv' /\ PerformedInv'
<1>1. Positions' = Positions /\ \A e : WorkerFor(e)' = WorkerFor(e)
  BY LogFixed DEF WorkerFor, getThreadId
<1>2. \A w, en : Given(w, en)' <=> Given(w, en)
  BY <1>1 DEF Given
<1>3. HeldInv'
  <2> SUFFICES ASSUME NEW w \in Workers, NEW k \in 1 .. Len(Held(w))
               PROVE  /\ Held(w)[k].shutdown => /\ Held(w)[k] = FinishEntry
                                                 /\ k = Len(Held(w))
                                                 /\ Told(w)'
                      /\ ~Held(w)[k].shutdown =>
                           /\ Given(w, Held(w)[k])'
                           /\ \A m \in 1 .. k - 1 : Held(w)[m].pos < Held(w)[k].pos
    BY DEF HeldInv, HeldInvOf
  <2> QED
    BY <1>2 DEF HeldInv, HeldInvOf
<1>4. PerformedInv'
  <2> SUFFICES ASSUME NEW e \in Positions PROVE PerformedInvOf(e)'
    BY <1>1 DEF PerformedInv
  <2>1. PerformedInvOf(e) /\ WorkerFor(e) \in Workers
    BY LogFacts DEF PerformedInv
  <2>2. Somewhere(e) => Somewhere(e)'
    BY <1>1, <2>1 DEF Somewhere
  <2> QED
    BY <2>1, <2>2 DEF PerformedInvOf
<1> QED
  BY <1>3, <1>4

(* run starts a worker, which holds nothing.                               *)
LEMMA StartPlaceInv ==
  ASSUME PlaceInv, TypeOK', StartWorker
  PROVE  PlaceInv'
<1> USE DEF PlaceInv
<1>0. /\ UNCHANGED <<log, performed, next, entry, dpc>>
      /\ dpc = "run" /\ next = 1 /\ i \in Workers /\ i' = i + 1
      /\ workers' = i' /\ log \in Logs /\ Workers \subseteq Nat /\ i \in Nat
  BY PoolWorkersAssumption, ThreadsCountAssumption
     DEF StartWorker, StartThread, DispatchInv, TypeOK
<1>1. \A w \in Workers : w # i => /\ thread'[w] = thread[w]
                                 /\ query'[w] = query[w]
                                 /\ queries'[w] = queries[w]
                                 /\ connected'[w] = connected[w]
  BY DEF StartWorker, StartThread, TypeOK, WorkerTypeOK
<1>2. /\ thread'[i] = "pop" /\ queries'[i] = << >>
      /\ query'[i] = NoEntry /\ connected'[i] = FALSE
  BY <1>0 DEF StartWorker, StartThread, TypeOK, WorkerTypeOK
<1>3. Held(i) = << >>
  <2> SUFFICES ASSUME Held(i) # << >> PROVE FALSE
    OBVIOUS
  <2>1. 1 \in 1 .. Len(Held(i))
    BY <1>0, HeldType
  <2>2. Held(i)[1].shutdown \/ Given(i, Held(i)[1])
    BY <1>0, <2>1 DEF HeldInv, HeldInvOf
  <2>3. ~Told(i)
    BY <1>0 DEF Told
  <2>4. Given(i, Held(i)[1])
    BY <1>0, <2>1, <2>2, <2>3 DEF HeldInv, HeldInvOf
  <2> QED
    BY <1>0, <2>4, LogFacts DEF Given
<1>4. \A w \in Workers : Held(w)' = Held(w)
  BY <1>1, <1>2, <1>3 DEF Held
<1>5. HeldInv' /\ PerformedInv'
  BY <1>0, <1>4, NothingMoves DEF Told
<1>6. DispatchInv'
  BY <1>0 DEF DispatchInv
<1>7. ThreadInv'
  <2> SUFFICES ASSUME NEW w \in Workers PROVE ThreadInvOf(w)'
    BY <1>0 DEF ThreadInv
  <2>1. CASE w = i
    BY <1>0, <1>2, <2>1 DEF ThreadInvOf, Ended
  <2>2. CASE w # i
    <3>1. ThreadInvOf(w) /\ thread[w] \in ThreadStates
      BY DEF ThreadInv, TypeOK, WorkerTypeOK
    <3>2. ~Ended(w)
      BY <1>0, <3>1 DEF ThreadInvOf, Told
    <3> QED
      BY <1>0, <1>1, <2>2, <3>1, <3>2 DEF ThreadInvOf, Ended
  <2> QED
    BY <2>1, <2>2
<1> QED
  BY <1>5, <1>6, <1>7

(* The steps of the dispatcher from one loop to the next.                  *)
LEMMA ControlPlaceInv ==
  ASSUME PlaceInv, TypeOK', EndRun \/ EndDispatch \/ EndPushFinish
  PROVE  PlaceInv'
<1> USE ThreadsCountAssumption, PoolWorkersAssumption DEF PlaceInv
<1>0. /\ UNCHANGED <<log, workerVars, workers, next, entry>>
      /\ dpc # "push" /\ dpc' # "push" /\ dpc' # "returned" /\ dpc' # "run"
      /\ log \in Logs
  BY DEF EndRun, EndDispatch, EndPushFinish, TypeOK
<1>1. \A w \in Workers : /\ Held(w)' = Held(w)
                         /\ Told(w) => Told(w)'
                         /\ Ended(w)' = Ended(w)
  BY <1>0 DEF workerVars, Held, Ended, Told, EndRun, EndDispatch, EndPushFinish
<1>2. HeldInv' /\ PerformedInv'
  BY <1>0, <1>1, NothingMoves DEF workerVars
<1>3. DispatchInv'
  BY <1>0, LogFacts DEF DispatchInv, EndRun, EndDispatch, EndPushFinish, TypeOK
<1>4. ThreadInv'
  <2> SUFFICES ASSUME NEW w \in Workers PROVE ThreadInvOf(w)'
    BY <1>0 DEF ThreadInv
  <2>1. ThreadInvOf(w) /\ w \in 0 .. threads_count - 1
    BY DEF ThreadInv
  <2>2. thread[w] # "none"
    BY <2>1 DEF ThreadInvOf, EndRun, EndDispatch, EndPushFinish
  <2>3. ~(dpc' = "join" /\ w < i')
    BY <2>1 DEF EndRun, EndDispatch, EndPushFinish
  <2> QED
    BY <1>0, <1>1, <2>1, <2>2, <2>3, LogFixed
       DEF ThreadInvOf, workerVars, WorkerFor, getThreadId
<1> QED
  BY <1>2, <1>3, <1>4

(* popEntry: the query was in the log, and is now in dispatch's hands.     *)
LEMMA PopEntryPlaceInv ==
  ASSUME PlaceInv, TypeOK', PopEntry
  PROVE  PlaceInv'
<1> USE DEF PlaceInv
<1>0. /\ UNCHANGED <<log, workerVars, workers, i>> /\ log \in Logs
      /\ dpc = "pop" /\ dpc' = "push"
      /\ next \in Positions /\ next' = next + 1
      /\ entry'.pos = next /\ ~entry'.shutdown
  BY DEF PopEntry, TypeOK
<1>1. /\ Positions' = Positions /\ \A e : WorkerFor(e)' = WorkerFor(e)
      /\ Len(log) \in Nat /\ Positions = 1 .. Len(log)
  BY <1>0, LogFixed, LogFacts DEF WorkerFor, getThreadId
<1>2. \A w : Held(w)' = Held(w) /\ Told(w)' = Told(w) /\ Ended(w)' = Ended(w)
  BY <1>0 DEF Held, Told, Ended, workerVars
<1>3. \A w, en : Given(w, en) => Given(w, en)'
  BY <1>0, <1>1 DEF Given, workerVars
<1>4. performed' = performed /\ performed[next] = 0
  BY <1>0, <1>1 DEF workerVars, PerformedInv, PerformedInvOf
<1>5. DispatchInv'
  BY <1>0, <1>1, <1>4 DEF DispatchInv
<1>6. HeldInv'
  <2> SUFFICES ASSUME NEW w \in Workers, NEW k \in 1 .. Len(Held(w))
               PROVE  /\ Held(w)[k].shutdown => /\ Held(w)[k] = FinishEntry
                                                 /\ k = Len(Held(w))
                                                 /\ Told(w)
                      /\ ~Held(w)[k].shutdown =>
                           /\ Given(w, Held(w)[k])'
                           /\ \A m \in 1 .. k - 1 : Held(w)[m].pos < Held(w)[k].pos
    BY <1>2 DEF HeldInv, HeldInvOf
  <2> QED
    BY <1>2, <1>3 DEF HeldInv, HeldInvOf
<1>7. PerformedInv'
  <2> SUFFICES ASSUME NEW e \in Positions PROVE PerformedInvOf(e)'
    BY <1>1 DEF PerformedInv
  <2>1. PerformedInvOf(e)
    BY DEF PerformedInv
  <2>2. Somewhere(e) => Somewhere(e)'
    BY <1>0, <1>1, <1>2 DEF Somewhere
  <2>3. e = next => Somewhere(e)'
    BY <1>0 DEF Somewhere
  <2> QED
    BY <1>0, <1>1, <1>4, <2>1, <2>2, <2>3 DEF PerformedInvOf
<1>8. ThreadInv'
  BY <1>0, <1>1, <1>2 DEF ThreadInv, ThreadInvOf, workerVars
<1> QED
  BY <1>5, <1>6, <1>7, <1>8

(* The query goes from dispatch's hands to the end of its worker's queue.  *)
LEMMA PushPlaceInv ==
  ASSUME PlaceInv, TypeOK', Push
  PROVE  PlaceInv'
<1> USE DEF PlaceInv
<1>p. PICK c \in Workers : c = WorkerFor(entry.pos)
  BY LogFacts DEF Push, DispatchInv, TypeOK
<1>q. PICK en \in Entries : en = entry
  BY DEF TypeOK
<1> DEFINE n == Len(Held(c))
<1>0. /\ UNCHANGED <<log, workers, next, i>>
      /\ UNCHANGED <<thread, query, connected, performed>>
      /\ log \in Logs /\ dpc = "push" /\ dpc' = "pop"
      /\ PushQuery(c, en)
  BY <1>p, <1>q DEF Push, PushQuery, TypeOK, WorkerFor
<1>1. /\ Positions' = Positions /\ \A e : WorkerFor(e)' = WorkerFor(e)
      /\ Len(log) \in Nat /\ Positions = 1 .. Len(log)
  BY <1>0, LogFixed, LogFacts DEF WorkerFor, getThreadId
<1>2. /\ entry.pos \in Positions /\ entry.pos = next - 1
      /\ ~entry.shutdown /\ performed[entry.pos] = 0
      /\ en.pos = entry.pos /\ ~en.shutdown /\ next \in Nat
  BY <1>p, <1>q, <1>0, <1>1, LogFacts DEF DispatchInv, TypeOK
<1>3. /\ Len(Held(c)') = n + 1
      /\ Held(c)'[n + 1] = en
      /\ \A k \in 1 .. n : Held(c)'[k] = Held(c)[k]
      /\ \A v \in Workers : v # c => Held(v)' = Held(v)
      /\ n \in Nat
  BY <1>0, <1>2, HeldPush, HeldType
<1>4. \A w : ~Told(w) /\ ~Told(w)'
  BY <1>0 DEF Told
<1>5. \A w, x : Given(w, x) => Given(w, x)'
  BY <1>0, <1>1 DEF Given
<1>6. Given(c, en)'
  <2>1. \A d \in Positions : d >= next => performed[d] = 0
    BY DEF PerformedInv, PerformedInvOf
  <2>2. \A d \in Positions : d >= entry.pos => performed[d] = 0
    BY <1>1, <1>2, <2>1
  <2> QED
    BY <1>p, <1>0, <1>1, <1>2, <2>2 DEF Given
<1>7. DispatchInv'
  BY <1>0 DEF DispatchInv
<1>8. HeldInv'
  <2> SUFFICES ASSUME NEW w \in Workers PROVE HeldInvOf(w)'
    BY DEF HeldInv
  <2>1. \A k \in 1 .. Len(Held(w)) :
          /\ ~Held(w)[k].shutdown /\ Given(w, Held(w)[k])
          /\ \A m \in 1 .. k - 1 : Held(w)[m].pos < Held(w)[k].pos
    BY <1>4 DEF HeldInv, HeldInvOf
  <2>2. CASE w # c
    BY <1>3, <1>5, <2>1, <2>2 DEF HeldInvOf
  <2>3. CASE w = c
    <3> SUFFICES ASSUME NEW k \in 1 .. n + 1
                 PROVE  /\ ~Held(c)'[k].shutdown /\ Given(c, Held(c)[k])'
                        /\ \A m \in 1 .. k - 1 : Held(c)'[m].pos < Held(c)'[k].pos
      BY <1>3, <2>3 DEF HeldInvOf
    <3>1. CASE k \in 1 .. n
      <4>1. Held(c)'[k] = Held(c)[k]
        BY <1>3, <3>1
      <4>2. \A m \in 1 .. k - 1 : m \in 1 .. n /\ Held(c)'[m] = Held(c)[m]
        BY <1>3, <3>1
      <4> QED
        BY <1>5, <2>1, <2>3, <3>1, <4>1, <4>2
    <3>2. CASE k = n + 1
      <4>1. Held(c)'[k] = en
        BY <1>3, <3>2
      <4>2. \A m \in 1 .. k - 1 : m \in 1 .. n /\ Held(c)'[m] = Held(c)[m]
        BY <1>3, <3>2
      <4>3. \A m \in 1 .. k - 1 : Held(c)[m].pos < en.pos
        BY <1>0, <1>2, <2>1, <2>3, <4>2 DEF Given
      <4> QED
        BY <1>2, <1>6, <4>1, <4>2, <4>3
    <3> QED
      BY <1>3, <3>1, <3>2
  <2> QED
    BY <2>2, <2>3
<1>9. PerformedInv'
  <2> SUFFICES ASSUME NEW e \in Positions PROVE PerformedInvOf(e)'
    BY <1>1 DEF PerformedInv
  <2>1. PerformedInvOf(e) /\ WorkerFor(e) \in Workers
    BY <1>0, LogFacts DEF PerformedInv
  <2>2. Somewhere(e) => Somewhere(e)'
    <3>1. CASE e = entry.pos
      <4>1. n + 1 \in 1 .. n + 1
        BY <1>3
      <4> QED
        BY <1>p, <1>1, <1>2, <1>3, <3>1, <4>1 DEF Somewhere
    <3>2. CASE e # entry.pos /\ WorkerFor(e) = c
      <4> SUFFICES ASSUME NEW k \in 1 .. n, Held(c)[k].pos = e
                   PROVE  Somewhere(e)'
        BY <1>0, <3>2 DEF Somewhere
      <4>1. k \in 1 .. n + 1 /\ Held(c)'[k].pos = e
        BY <1>3
      <4> QED
        BY <1>1, <1>3, <3>2, <4>1 DEF Somewhere
    <3>3. CASE e # entry.pos /\ WorkerFor(e) # c
      BY <1>0, <1>1, <1>3, <2>1, <3>3 DEF Somewhere
    <3> QED
      BY <3>1, <3>2, <3>3
  <2> QED
    BY <1>0, <2>1, <2>2 DEF PerformedInvOf
<1>10. ThreadInv'
  <2>1. \A w \in Workers : ~Ended(w) /\ ~Ended(w)'
    BY <1>0, <1>4 DEF ThreadInv, ThreadInvOf, Ended
  <2> QED
    BY <1>0, <2>1 DEF ThreadInv, ThreadInvOf
<1> QED
  BY <1>7, <1>8, <1>9, <1>10

(* The FinishEntry goes to the end of a worker's queue.                    *)
LEMMA PushFinishPlaceInv ==
  ASSUME PlaceInv, TypeOK', PushFinish
  PROVE  PlaceInv'
<1> USE DEF PlaceInv
<1>p. PICK c \in Workers : c = i
  BY ThreadsCountAssumption, PoolWorkersAssumption
     DEF PushFinish, DispatchInv, TypeOK
<1> DEFINE n == Len(Held(c))
<1>0. /\ UNCHANGED <<log, workers, next, entry, dpc>> /\ i' = i + 1 /\ i \in Nat
      /\ UNCHANGED <<thread, query, connected, performed>>
      /\ log \in Logs /\ dpc = "finish"
      /\ c \in Workers /\ PushQuery(c, FinishEntry)
      /\ \A w \in Workers : w \in Int
  BY <1>p, ThreadsCountAssumption, PoolWorkersAssumption
     DEF PushFinish, PushQuery, DispatchInv, TypeOK
<1>1. Positions' = Positions /\ \A e : WorkerFor(e)' = WorkerFor(e)
  BY <1>0, LogFixed DEF WorkerFor, getThreadId
<1>2. /\ Len(Held(c)') = n + 1
      /\ Held(c)'[n + 1] = FinishEntry
      /\ \A k \in 1 .. n : Held(c)'[k] = Held(c)[k]
      /\ \A v \in Workers : v # c => Held(v)' = Held(v)
      /\ n \in Nat
  BY <1>0, HeldPush, HeldType, EntriesType
<1>3. /\ ~Told(c) /\ Told(c)'
      /\ \A w \in Workers : Told(w) => Told(w)'
  BY <1>p, <1>0 DEF Told
<1>4. \A w, en : Given(w, en) => Given(w, en)'
  BY <1>0, <1>1 DEF Given
<1>5. DispatchInv'
  BY <1>0 DEF DispatchInv
<1>6. HeldInv'
  <2> SUFFICES ASSUME NEW w \in Workers PROVE HeldInvOf(w)'
    BY DEF HeldInv
  <2>1. HeldInvOf(w)
    BY DEF HeldInv
  <2>2. CASE w # c
    BY <1>2, <1>3, <1>4, <2>1, <2>2 DEF HeldInvOf
  <2>3. CASE w = c
    <3>1. ASSUME NEW k \in 1 .. n
          PROVE  /\ ~Held(c)'[k].shutdown /\ Given(c, Held(c)[k])'
                 /\ \A m \in 1 .. k - 1 : Held(c)'[m].pos < Held(c)'[k].pos
      <4>1. /\ ~Held(c)[k].shutdown /\ Given(c, Held(c)[k])
            /\ \A m \in 1 .. k - 1 : Held(c)[m].pos < Held(c)[k].pos
        BY <1>3, <2>1, <2>3 DEF HeldInvOf
      <4>2. \A m \in 1 .. k : Held(c)'[m] = Held(c)[m]
        BY <1>2
      <4> QED
        BY <1>2, <1>4, <4>1, <4>2
    <3>2. \A k \in 1 .. n + 1 : k \in 1 .. n \/ k = n + 1
      BY <1>2
    <3>3. FinishEntry.shutdown
      BY DEF FinishEntry
    <3> QED
      BY <1>2, <1>3, <2>3, <3>1, <3>2, <3>3 DEF HeldInvOf
  <2> QED
    BY <2>2, <2>3
<1>7. PerformedInv'
  <2> SUFFICES ASSUME NEW e \in Positions PROVE PerformedInvOf(e)'
    BY <1>1 DEF PerformedInv
  <2>1. PerformedInvOf(e) /\ WorkerFor(e) \in Workers
    BY <1>0, LogFacts DEF PerformedInv
  <2>2. Somewhere(e) => Somewhere(e)'
    <3>1. CASE WorkerFor(e) = c
      <4> SUFFICES ASSUME NEW k \in 1 .. n, Held(c)[k].pos = e
                   PROVE  Somewhere(e)'
        BY <1>0, <3>1 DEF Somewhere
      <4>1. k \in 1 .. n + 1 /\ Held(c)'[k].pos = e
        BY <1>2
      <4> QED
        BY <1>1, <1>2, <3>1, <4>1 DEF Somewhere
    <3>2. CASE WorkerFor(e) # c
      BY <1>0, <1>1, <1>2, <2>1, <3>2 DEF Somewhere
    <3> QED
      BY <3>1, <3>2
  <2> QED
    BY <1>0, <2>1, <2>2 DEF PerformedInvOf
<1>8. ThreadInv'
  <2> SUFFICES ASSUME NEW w \in Workers PROVE ThreadInvOf(w)'
    BY DEF ThreadInv
  <2>1. ThreadInvOf(w)
    BY DEF ThreadInv
  <2>2. Ended(w) => w # c
    BY <1>3, <2>1 DEF ThreadInvOf
  <2>3. w # c => queries'[w] = queries[w]
    BY <1>0 DEF PushQuery, TypeOK, WorkerTypeOK
  <2> QED
    BY <1>0, <1>1, <1>3, <2>1, <2>2, <2>3 DEF ThreadInvOf, Ended
<1> QED
  BY <1>5, <1>6, <1>7, <1>8

(* A join: the worker had ended.                                           *)
LEMMA JoinPlaceInv ==
  ASSUME PlaceInv, TypeOK', Join
  PROVE  PlaceInv'
<1> USE DEF PlaceInv
<1>0. /\ UNCHANGED <<log, workers, next, entry, dpc>> /\ i' = i + 1 /\ i \in Nat
      /\ UNCHANGED <<queries, query, connected, performed>>
      /\ log \in Logs /\ dpc = "join" /\ i \in Workers /\ thread[i] = "exited"
      /\ \A w \in Workers : w \in Int
  BY ThreadsCountAssumption, PoolWorkersAssumption
     DEF Join, JoinThread, DispatchInv, TypeOK
<1>1. /\ thread'[i] = "joined"
      /\ \A w \in Workers : w # i => thread'[w] = thread[w]
  BY <1>0 DEF Join, JoinThread, TypeOK, WorkerTypeOK
<1>2. \A w \in Workers : Held(w)' = Held(w) /\ Told(w)'
  BY <1>0, <1>1 DEF Held, Told
<1>3. HeldInv' /\ PerformedInv'
  BY <1>0, <1>2, NothingMoves
<1>4. DispatchInv'
  BY <1>0, LogFixed DEF DispatchInv
<1>5. ThreadInv'
  <2> SUFFICES ASSUME NEW w \in Workers PROVE ThreadInvOf(w)'
    BY DEF ThreadInv
  <2>1. ThreadInvOf(w)
    BY DEF ThreadInv
  <2>2. Positions' = Positions /\ \A e : WorkerFor(e)' = WorkerFor(e)
    BY <1>0, LogFixed DEF WorkerFor, getThreadId
  <2>3. CASE w = i
    BY <1>0, <1>1, <1>2, <2>1, <2>2, <2>3 DEF ThreadInvOf, Ended
  <2>4. CASE w # i
    <3>1. w < i' => w < i
      BY <1>0, <2>4
    <3> QED
      BY <1>0, <1>1, <1>2, <2>1, <2>2, <2>4, <3>1 DEF ThreadInvOf, Ended
  <2> QED
    BY <2>3, <2>4
<1> QED
  BY <1>3, <1>4, <1>5

(* The workers, all of them joined, are deleted.                           *)
LEMMA ClearPlaceInv ==
  ASSUME PlaceInv, TypeOK', Clear
  PROVE  PlaceInv'
<1> USE DEF PlaceInv
<1>0. /\ UNCHANGED <<log, next, entry>>
      /\ UNCHANGED <<queries, query, connected, performed>>
      /\ log \in Logs /\ dpc = "join" /\ dpc' = "returned"
      /\ i = threads_count /\ workers = threads_count
  BY DEF Clear, DispatchInv, TypeOK
<1>1. \A w \in Workers : thread[w] = "joined" /\ thread'[w] = "deleted"
  BY <1>0, ThreadsCountAssumption, PoolWorkersAssumption
     DEF Clear, ThreadInv, ThreadInvOf
<1>2. \A w \in Workers : Held(w)' = Held(w) /\ Told(w) /\ Told(w)'
  BY <1>0, <1>1 DEF Held, Told
<1>3. HeldInv' /\ PerformedInv'
  BY <1>0, <1>2, NothingMoves
<1>4. DispatchInv'
  BY <1>0, LogFixed DEF DispatchInv
<1>5. ThreadInv'
  <2> SUFFICES ASSUME NEW w \in Workers PROVE ThreadInvOf(w)'
    BY DEF ThreadInv
  <2>1. ThreadInvOf(w)
    BY DEF ThreadInv
  <2>2. Positions' = Positions /\ \A e : WorkerFor(e)' = WorkerFor(e)
    BY <1>0, LogFixed DEF WorkerFor, getThreadId
  <2> QED
    BY <1>0, <1>1, <1>2, <2>1, <2>2 DEF ThreadInvOf, Ended
<1> QED
  BY <1>3, <1>4, <1>5

(* A worker takes the first entry of its queue in hand.                    *)
LEMMA PopPlaceInv ==
  ASSUME PlaceInv, TypeOK', NEW w \in Workers, Pop(w), UNCHANGED <<log, dispatchVars>>
  PROVE  PlaceInv'
<1> USE DEF PlaceInv
<1>0. /\ UNCHANGED <<log, workers, next, entry, i, dpc, connected, performed>>
      /\ log \in Logs /\ \A v : Told(v)' = Told(v)
  BY DEF Pop, dispatchVars, TypeOK, Told
<1>1. /\ thread[w] = "pop" /\ thread'[w] = "perform"
      /\ \A v \in Workers : v # w => /\ thread'[v] = thread[v]
                                     /\ query'[v] = query[v]
                                     /\ queries'[v] = queries[v]
  BY DEF Pop, TypeOK, WorkerTypeOK
<1>2. HeldInv' /\ PerformedInv'
  BY <1>0, HeldPop, NothingMoves
<1>3. DispatchInv'
  BY <1>0, LogFixed DEF DispatchInv
<1>4. ThreadInv'
  <2> SUFFICES ASSUME NEW v \in Workers PROVE ThreadInvOf(v)'
    BY DEF ThreadInv
  <2>1. ThreadInvOf(v)
    BY DEF ThreadInv
  <2>2. Positions' = Positions /\ \A e : WorkerFor(e)' = WorkerFor(e)
    BY <1>0, LogFixed DEF WorkerFor, getThreadId
  <2>3. CASE v = w
    BY <1>0, <1>1, <2>1, <2>3 DEF ThreadInvOf, Ended
  <2>4. CASE v # w
    BY <1>0, <1>1, <2>1, <2>2, <2>4 DEF ThreadInvOf, Ended
  <2> QED
    BY <2>3, <2>4
<1> QED
  BY <1>2, <1>3, <1>4

(* The disconnect after the loop.                                          *)
LEMMA LeavePlaceInv ==
  ASSUME PlaceInv, TypeOK', NEW w \in Workers, Leave(w), UNCHANGED <<log, dispatchVars>>
  PROVE  PlaceInv'
<1> USE DEF PlaceInv
<1>0. /\ UNCHANGED <<log, workers, next, entry, i, dpc, queries, query, performed>>
      /\ log \in Logs /\ \A v : Told(v)' = Told(v)
  BY DEF Leave, dispatchVars, TypeOK, Told
<1>1. /\ thread[w] = "leave" /\ thread'[w] = "exited" /\ connected'[w] = FALSE
      /\ \A v \in Workers : v # w => /\ thread'[v] = thread[v]
                                     /\ connected'[v] = connected[v]
  BY DEF Leave, TypeOK, WorkerTypeOK
<1>2. \A v \in Workers : Held(v)' = Held(v)
  BY <1>0, <1>1 DEF Held
<1>3. HeldInv' /\ PerformedInv'
  BY <1>0, <1>2, NothingMoves
<1>4. DispatchInv'
  BY <1>0, LogFixed DEF DispatchInv
<1>5. ThreadInv'
  <2> SUFFICES ASSUME NEW v \in Workers PROVE ThreadInvOf(v)'
    BY DEF ThreadInv
  <2>1. ThreadInvOf(v)
    BY DEF ThreadInv
  <2>2. Positions' = Positions /\ \A e : WorkerFor(e)' = WorkerFor(e)
    BY <1>0, LogFixed DEF WorkerFor, getThreadId
  <2> QED
    BY <1>0, <1>1, <2>1, <2>2 DEF ThreadInvOf, Ended
<1> QED
  BY <1>3, <1>4, <1>5

(* What a worker has in hand: a query that no other is to be performed     *)
(* before on that worker, or the FinishEntry with everything done.         *)
LEMMA InHand ==
  ASSUME PlaceInv, NEW w \in Workers, thread[w] = "perform"
  PROVE  /\ query[w].pos # 0 => /\ ~query[w].shutdown
                                /\ Given(w, query[w])
         /\ query[w].pos = 0 => /\ query[w].shutdown /\ Told(w)
                                /\ queries[w] = << >>
         /\ \A d \in Positions :
              /\ WorkerFor(d) = w
              /\ query[w].pos # 0 => d < query[w].pos
              => performed[d] = 1
<1> USE DEF PlaceInv
<1>0. log \in Logs /\ Len(log) \in Nat /\ Positions = 1 .. Len(log)
  BY LogFacts DEF TypeOK
<1>1. /\ Held(w) \in Seq(Entries) /\ queries[w] \in Seq(Entries)
      /\ Held(w)[1] = query[w] /\ query[w] \in Entries
      /\ Len(Held(w)) = Len(queries[w]) + 1 /\ Len(queries[w]) \in Nat
  BY HeldType DEF TypeOK, WorkerTypeOK
<1>2. 1 \in 1 .. Len(Held(w))
  BY <1>1
<1>3. /\ query[w].shutdown => /\ query[w] = FinishEntry
                              /\ ~(1 < Len(Held(w))) /\ Told(w)
      /\ ~query[w].shutdown => Given(w, query[w])
  BY <1>1, <1>2 DEF HeldInv, HeldInvOf
<1>4. /\ query[w].pos # 0 => ~query[w].shutdown
      /\ query[w].pos = 0 => query[w].shutdown
  BY <1>0, <1>3 DEF FinishEntry, Given
<1>5. ~(1 < Len(Held(w))) => queries[w] = << >>
  <2>1. \A s \in Seq(Entries) : ~(0 < Len(s)) => s = << >>
    OBVIOUS
  <2>2. ~(1 < Len(Held(w))) => ~(0 < Len(queries[w]))
    BY <1>1
  <2> QED
    BY <1>1, <2>1, <2>2, Zenon
<1>6. ASSUME NEW d \in Positions, WorkerFor(d) = w,
             query[w].pos # 0 => d < query[w].pos
      PROVE  performed[d] = 1
  <2>1. d < next
    <3>1. CASE query[w].pos # 0
      BY <1>0, <1>3, <1>4, <1>6, <3>1 DEF Given, TypeOK
    <3>2. CASE query[w].pos = 0
      BY <1>0, <1>3, <1>4, <3>2 DEF Told, DispatchInv
    <3> QED
      BY <3>1, <3>2
  <2>2. ~(dpc = "push" /\ d = entry.pos)
    <3>1. CASE query[w].pos # 0
      BY <1>0, <1>3, <1>4, <1>6, <3>1 DEF Given
    <3>2. CASE query[w].pos = 0
      BY <1>3, <1>4, <3>2 DEF Told
    <3> QED
      BY <3>1, <3>2
  <2>3. ASSUME NEW k \in 1 .. Len(Held(w)) PROVE Held(w)[k].pos # d
    <3>1. CASE k = 1
      BY <1>0, <1>1, <1>6, <3>1
    <3>2. CASE k # 1
      <4>1. 1 \in 1 .. k - 1
        BY <1>1, <3>2
      <4>2. ~query[w].shutdown
        BY <1>1, <1>3, <3>2
      <4>3. \/ Held(w)[k] = FinishEntry
            \/ Held(w)[1].pos < Held(w)[k].pos
        BY <4>1 DEF HeldInv, HeldInvOf
      <4>4. Held(w)[k].pos \in Nat
        <5>1. Held(w)[k] \in Entries
          BY <1>1, SeqElement
        <5> QED
          BY <5>1 DEF Entries
      <4> QED
        BY <1>0, <1>1, <1>4, <1>6, <4>2, <4>3, <4>4 DEF FinishEntry, Entries
    <3> QED
      BY <3>1, <3>2
  <2>4. ~Somewhere(d)
    BY <1>6, <2>2, <2>3 DEF Somewhere
  <2> QED
    BY <2>1, <2>4 DEF PerformedInv, PerformedInvOf
<1> QED
  BY <1>3, <1>4, <1>5, <1>6

(* A worker performs the query in its hands.                               *)
LEMMA PerformPlaceInv ==
  ASSUME PlaceInv, TypeOK', NEW w \in Workers, Quit(w) \/ Execute(w),
         UNCHANGED <<log, dispatchVars>>
  PROVE  PlaceInv'
<1> USE DEF PlaceInv
<1>p. PICK en \in Entries : en = query[w]
  BY DEF TypeOK, WorkerTypeOK
<1> DEFINE e == en.pos
<1>0. /\ UNCHANGED <<log, workers, next, entry, i, dpc, queries>>
      /\ log \in Logs /\ \A v : Told(v)' = Told(v)
      /\ thread[w] = "perform"
  BY DEF Quit, Execute, dispatchVars, TypeOK, Told
<1>1. /\ Positions' = Positions /\ \A d : WorkerFor(d)' = WorkerFor(d)
      /\ Positions = 1 .. Len(log) /\ Len(log) \in Nat
  BY <1>0, LogFixed, LogFacts DEF WorkerFor, getThreadId
<1>2. en.pos # 0 /\ ~en.shutdown
  BY <1>p, <1>0, InHand DEF Quit, Execute, is_quit
<1>3. /\ e \in Positions /\ WorkerFor(e) = w /\ e < next
      /\ dpc = "push" => e < entry.pos
      /\ performed[e] = 0
  BY <1>p, <1>0, <1>1, <1>2, InHand DEF Given
<1>4. /\ performed'[e] = 1
      /\ \A d \in Positions : d # e => performed'[d] = performed[d]
  BY <1>p, <1>3 DEF Quit, Execute, TypeOK, WorkerTypeOK
<1>5. /\ thread'[w] = "pop" /\ query'[w] = NoEntry
      /\ \A v \in Workers : v # w => /\ thread'[v] = thread[v]
                                     /\ query'[v] = query[v]
                                     /\ connected'[v] = connected[v]
  <2>1. PICK ok \in BOOLEAN : connected' = [connected EXCEPT ![w] = ok]
    BY DEF Quit, Execute
  <2> QED
    BY <1>p, <1>2, <2>1 DEF Quit, Execute, LoopOrLeave, TypeOK, WorkerTypeOK
<1> DEFINE n == Len(queries[w])
<1>6. /\ Len(Held(w)) = n + 1 /\ n \in Nat
      /\ Held(w)[1] = en
      /\ Len(Held(w)') = n
      /\ \A k \in 1 .. n : Held(w)'[k] = Held(w)[k + 1]
      /\ \A v \in Workers : v # w => Held(v)' = Held(v)
  BY <1>p, HeldPerform
<1>7. DispatchInv'
  <2>1. dpc = "push" => performed'[entry.pos] = performed[entry.pos]
    BY <1>1, <1>3, <1>4 DEF DispatchInv
  <2> QED
    BY <1>0, <1>1, <2>1 DEF DispatchInv
<1>8. ASSUME NEW v \in Workers, NEW other \in Entries, Given(v, other),
             v = w => e < other.pos
      PROVE  Given(v, other)'
  BY <1>0, <1>1, <1>3, <1>4, <1>8 DEF Given
<1>9. HeldInv'
  <2> SUFFICES ASSUME NEW v \in Workers PROVE HeldInvOf(v)'
    BY DEF HeldInv
  <2>1. HeldInvOf(v) /\ Held(v) \in Seq(Entries)
    BY HeldType DEF HeldInv
  <2>2. CASE v # w
    <3>1. \A k \in 1 .. Len(Held(v)) : Given(v, Held(v)[k]) => Given(v, Held(v)[k])'
      <4> SUFFICES ASSUME NEW k \in 1 .. Len(Held(v)), Given(v, Held(v)[k])
                   PROVE  Given(v, Held(v)[k])'
        OBVIOUS
      <4>1. PICK other \in Entries : other = Held(v)[k]
        BY <2>1, SeqElement
      <4>2. Given(v, other)'
        BY <1>8, <2>2, <4>1
      <4> QED
        BY <1>6, <2>2, <4>1, <4>2
    <3> QED
      BY <1>0, <1>6, <2>1, <2>2, <3>1 DEF HeldInvOf
  <2>3. CASE v = w
    <3> SUFFICES ASSUME NEW k \in 1 .. n
                 PROVE  /\ Held(w)'[k].shutdown => /\ Held(w)'[k] = FinishEntry
                                                   /\ k = n
                                                   /\ Told(w)'
                        /\ ~Held(w)'[k].shutdown =>
                             /\ Given(w, Held(w)[k])'
                             /\ \A m \in 1 .. k - 1 :
                                  Held(w)'[m].pos < Held(w)'[k].pos
      BY <1>6, <2>3 DEF HeldInvOf
    <3>1. /\ k + 1 \in 1 .. n + 1 /\ 1 \in 1 .. (k + 1) - 1
          /\ \A m \in 1 .. k - 1 : m \in 1 .. n /\ m + 1 \in 1 .. (k + 1) - 1
      BY <1>6
    <3>2. PICK other \in Entries : other = Held(w)[k + 1]
      BY <1>6, <2>1, <2>3, <3>1, SeqElement
    <3>3. Held(w)'[k] = other
      BY <1>6, <3>2
    <3>4. CASE other.shutdown
      <4>1. other = FinishEntry /\ k + 1 = n + 1 /\ Told(w)
        BY <1>6, <2>1, <2>3, <3>1, <3>2, <3>4 DEF HeldInvOf
      <4> QED
        BY <1>0, <1>6, <3>3, <3>4, <4>1
    <3>5. CASE ~other.shutdown
      <4>1. /\ Given(w, other) /\ e < other.pos
            /\ \A m \in 1 .. (k + 1) - 1 : Held(w)[m].pos < other.pos
        BY <1>6, <2>1, <2>3, <3>1, <3>2, <3>5 DEF HeldInvOf
      <4>2. Given(w, other)'
        BY <1>8, <4>1
      <4>3. \A m \in 1 .. k - 1 : Held(w)'[m].pos < other.pos
        BY <1>6, <3>1, <4>1
      <4> QED
        BY <3>3, <3>5, <4>2, <4>3
    <3> QED
      BY <3>4, <3>5
  <2> QED
    BY <2>2, <2>3
<1>10. PerformedInv'
  <2> SUFFICES ASSUME NEW d \in Positions PROVE PerformedInvOf(d)'
    BY <1>1 DEF PerformedInv
  <2>1. PerformedInvOf(d) /\ WorkerFor(d) \in Workers
    BY <1>0, LogFacts DEF PerformedInv
  <2>2. CASE d = e
    BY <1>0, <1>1, <1>3, <1>4, <2>2 DEF PerformedInvOf, TypeOK
  <2>3. CASE d # e
    <3>1. Somewhere(d) => Somewhere(d)'
      <4>1. CASE WorkerFor(d) = w
        <5> SUFFICES ASSUME NEW k \in 1 .. n + 1, Held(w)[k].pos = d
                     PROVE  Somewhere(d)'
          BY <1>0, <1>6, <4>1 DEF Somewhere
        <5>1. k # 1
          BY <1>6, <2>3
        <5>2. k - 1 \in 1 .. n /\ (k - 1) + 1 = k
          BY <1>6, <5>1
        <5>3. Held(w)'[k - 1].pos = d
          BY <1>6, <5>2
        <5> QED
          BY <1>1, <1>6, <4>1, <5>2, <5>3 DEF Somewhere
      <4>2. CASE WorkerFor(d) # w
        BY <1>0, <1>1, <1>6, <2>1, <4>2 DEF Somewhere
      <4> QED
        BY <4>1, <4>2
    <3> QED
      BY <1>0, <1>4, <2>1, <2>3, <3>1 DEF PerformedInvOf
  <2> QED
    BY <2>2, <2>3
<1>11. ThreadInv'
  <2> SUFFICES ASSUME NEW v \in Workers PROVE ThreadInvOf(v)'
    BY DEF ThreadInv
  <2>1. ThreadInvOf(v)
    BY DEF ThreadInv
  <2>2. CASE v # w
    <3>1. \A d \in Positions : WorkerFor(d) = v => performed'[d] = performed[d]
      BY <1>3, <1>4, <2>2
    <3> QED
      BY <1>0, <1>1, <1>5, <2>1, <2>2, <3>1 DEF ThreadInvOf, Ended
  <2>3. CASE v = w
    BY <1>0, <1>5, <2>1, <2>3 DEF ThreadInvOf, Ended
  <2> QED
    BY <2>2, <2>3
<1> QED
  BY <1>7, <1>9, <1>10, <1>11

(* A worker leaves its loop with the FinishEntry, with nothing left to do. *)
LEMMA FinishPlaceInv ==
  ASSUME PlaceInv, TypeOK', NEW w \in Workers, ExecuteFinish(w),
         UNCHANGED <<log, dispatchVars>>
  PROVE  PlaceInv'
<1> USE DEF PlaceInv
<1>0. /\ UNCHANGED <<log, workers, next, entry, i, dpc, queries, connected, performed>>
      /\ log \in Logs /\ \A v : Told(v)' = Told(v)
      /\ thread[w] = "perform" /\ query[w].pos = 0
  BY DEF ExecuteFinish, dispatchVars, TypeOK, Told
<1>1. /\ Positions' = Positions /\ \A d : WorkerFor(d)' = WorkerFor(d)
  BY <1>0, LogFixed DEF WorkerFor, getThreadId
<1>2. /\ query[w].shutdown /\ Told(w) /\ queries[w] = << >>
      /\ \A d \in Positions : WorkerFor(d) = w => performed[d] = 1
  BY <1>0, InHand
<1>3. /\ thread'[w] = "leave" /\ query'[w] = NoEntry
      /\ \A v \in Workers : v # w => /\ thread'[v] = thread[v]
                                     /\ query'[v] = query[v]
  BY <1>2 DEF ExecuteFinish, LoopOrLeave, TypeOK, WorkerTypeOK
<1>4. /\ Held(w)' = << >>
      /\ \A v \in Workers : v # w => Held(v)' = Held(v)
  BY <1>2, HeldPerform
<1>5. DispatchInv'
  BY <1>0, <1>1 DEF DispatchInv
<1>6. \A v, other : Given(v, other) => Given(v, other)'
  BY <1>0, <1>1 DEF Given
<1>7. HeldInv'
  <2> SUFFICES ASSUME NEW v \in Workers PROVE HeldInvOf(v)'
    BY DEF HeldInv
  <2>1. CASE v # w
    BY <1>0, <1>4, <1>6, <2>1 DEF HeldInv, HeldInvOf
  <2>2. CASE v = w
    BY <1>4, <2>2 DEF HeldInvOf
  <2> QED
    BY <2>1, <2>2
<1>8. PerformedInv'
  <2> SUFFICES ASSUME NEW d \in Positions PROVE PerformedInvOf(d)'
    BY <1>1 DEF PerformedInv
  <2>1. PerformedInvOf(d) /\ WorkerFor(d) \in Workers
    BY <1>0, LogFacts DEF PerformedInv
  <2>2. CASE WorkerFor(d) = w
    BY <1>0, <1>2, <2>1, <2>2 DEF PerformedInvOf
  <2>3. CASE WorkerFor(d) # w
    <3>1. Somewhere(d) => Somewhere(d)'
      BY <1>0, <1>1, <1>4, <2>1, <2>3 DEF Somewhere
    <3> QED
      BY <1>0, <2>1, <3>1 DEF PerformedInvOf
  <2> QED
    BY <2>2, <2>3
<1>9. ThreadInv'
  <2> SUFFICES ASSUME NEW v \in Workers PROVE ThreadInvOf(v)'
    BY DEF ThreadInv
  <2>1. ThreadInvOf(v)
    BY DEF ThreadInv
  <2>2. CASE v # w
    BY <1>0, <1>1, <1>3, <2>1, <2>2 DEF ThreadInvOf, Ended
  <2>3. CASE v = w
    BY <1>0, <1>1, <1>2, <1>3, <2>1, <2>3 DEF ThreadInvOf, Ended
  <2> QED
    BY <2>2, <2>3
<1> QED
  BY <1>5, <1>7, <1>8, <1>9

(* PlaceInv is inductive.                                                  *)
LEMMA NextPlaceInv == PlaceInv /\ [Next]_vars => PlaceInv'
<1> SUFFICES ASSUME PlaceInv, [Next]_vars PROVE PlaceInv'
  OBVIOUS
<1>0. TypeOK'
  BY TypeStep DEF PlaceInv
<1>1. CASE UNCHANGED vars
  <2> USE <1>1 DEF PlaceInv, vars, workerVars, dispatchVars
  <2>1. HeldInv' /\ PerformedInv'
    <3>1. \A w : Held(w)' = Held(w) /\ Told(w)' = Told(w)
      BY DEF Held, Told
    <3> QED
      BY <3>1, NothingMoves DEF TypeOK
  <2>2. DispatchInv'
    BY LogFixed DEF DispatchInv
  <2>3. ThreadInv'
    BY DEF ThreadInv, ThreadInvOf, Ended, Told, WorkerFor, getThreadId, Positions
  <2> QED
    BY <1>0, <2>1, <2>2, <2>3
<1>2. CASE Dispatcher
  BY <1>0, <1>2, StartPlaceInv, ControlPlaceInv, PopEntryPlaceInv, PushPlaceInv, PushFinishPlaceInv,
     JoinPlaceInv, ClearPlaceInv DEF Dispatcher
<1>3. ASSUME NEW w \in Workers, RunThread(w) PROVE PlaceInv'
  BY <1>0, <1>3, PopPlaceInv, PerformPlaceInv, FinishPlaceInv, LeavePlaceInv DEF RunThread, Run
<1> QED
  BY <1>1, <1>2, <1>3 DEF Next, Terminated

(* Where every entry is, at any time.                                      *)
LEMMA Placement == SafeSpec => []PlaceInv
  BY InitPlaceInv, NextPlaceInv, PTL DEF SafeSpec

(* Every variable of dispatcher and workers always has its type.           *)
THEOREM TypeCorrect == SafeSpec => []TypeOK
<1>1. PlaceInv => TypeOK
  BY DEF PlaceInv
<1> QED
  BY <1>1, Placement, PTL

(* A pushed entry is never lost behind the FinishEntry.                    *)
THEOREM NothingBehind == SafeSpec => []NothingBehindFinish
<1>1. ASSUME PlaceInv, NEW w \in Workers
      PROVE  /\ query[w].shutdown => queries[w] = << >>
             /\ \A k \in DOMAIN queries[w] :
                  queries[w][k].shutdown => k = Len(queries[w])
             /\ Ended(w) => queries[w] = << >>
  <2>1. TypeOK /\ HeldInvOf(w) /\ ThreadInvOf(w) /\ queries[w] \in Seq(Entries)
    BY <1>1 DEF PlaceInv, HeldInv, ThreadInv, TypeOK, WorkerTypeOK
  <2>2. query[w].shutdown => queries[w] = << >>
    BY <1>1, <2>1, InHand, LogFacts DEF ThreadInvOf, NoEntry, TypeOK
  <2>3. ASSUME NEW k \in 1 .. Len(queries[w]), queries[w][k].shutdown
        PROVE  k = Len(queries[w])
    <3>1. CASE thread[w] = "perform"
      <4>1. /\ k + 1 \in 1 .. Len(Held(w)) /\ Held(w)[k + 1].shutdown
            /\ Len(Held(w)) = Len(queries[w]) + 1
        BY <2>1, <2>3, <3>1, HeldType
      <4>2. k + 1 = Len(Held(w))
        BY <2>1, <4>1 DEF HeldInvOf
      <4> QED
        BY <2>1, <4>1, <4>2
    <3>2. CASE thread[w] # "perform"
      BY <2>1, <2>3, <3>2, HeldType DEF HeldInvOf
    <3> QED
      BY <3>1, <3>2
  <2> QED
    BY <2>1, <2>2, <2>3 DEF ThreadInvOf
<1>2. PlaceInv => NothingBehindFinish
  BY <1>1 DEF NothingBehindFinish, Ended
<1> QED
  BY <1>2, Placement, PTL

(* When finish_all_and_wait has returned, every worker has ended with its  *)
(* queue drained and its connection closed.                                *)
THEOREM NothingLeft == SafeSpec => []NothingLeftRunning
<1>1. PlaceInv => NothingLeftRunning
  BY DEF PlaceInv, ThreadInv, ThreadInvOf, Ended, NothingLeftRunning
<1> QED
  BY <1>1, Placement, PTL

(* The queries that a worker still has are all of its connections, in the  *)
(* order of the log, and after every query that it performed.              *)
THEOREM WorkerOrder == SafeSpec => []WorkerInLogOrder
<1>1. ASSUME PlaceInv, NEW w \in Workers
      PROVE  LET held == (IF query[w].pos = 0 THEN << >> ELSE <<query[w]>>)
                           \o queries[w]
                 its  == {e \in Positions : WorkerOf[getThreadId(e)] = w}
             IN  \A k \in DOMAIN held : held[k].pos # 0 =>
                   /\ held[k].pos \in its
                   /\ \A m \in 1 .. k - 1 : held[m].pos < held[k].pos
                   /\ \A e \in its : e >= held[k].pos => performed[e] = 0
  <2> DEFINE held == (IF query[w].pos = 0 THEN << >> ELSE <<query[w]>>) \o queries[w]
  <2>1. TypeOK /\ HeldInvOf(w) /\ ThreadInvOf(w) /\ log \in Logs
    BY <1>1 DEF PlaceInv, HeldInv, ThreadInv, TypeOK
  <2>2. queries[w] \in Seq(Entries) /\ query[w] \in Entries
    BY <2>1 DEF TypeOK, WorkerTypeOK
  <2>3. << >> \o queries[w] = queries[w]
    BY <2>2
  <2>4. held = Held(w) \/ held = << >>
    <3>1. CASE query[w].pos # 0
      <4>1. thread[w] = "perform"
        BY <2>1, <3>1 DEF ThreadInvOf, NoEntry
      <4> QED
        BY <3>1, <4>1 DEF Held
    <3>2. CASE query[w].pos = 0 /\ thread[w] = "perform"
      BY <1>1, <2>3, <3>2, InHand
    <3>3. CASE query[w].pos = 0 /\ thread[w] # "perform"
      BY <2>3, <3>3 DEF Held
    <3> QED
      BY <3>1, <3>2, <3>3
  <2>5. Held(w) \in Seq(Entries)
    BY <2>1, HeldType
  <2>6. ASSUME NEW k \in 1 .. Len(Held(w)), Held(w)[k].pos # 0
        PROVE  /\ Given(w, Held(w)[k])
               /\ \A m \in 1 .. k - 1 : Held(w)[m].pos < Held(w)[k].pos
    BY <2>1, <2>6 DEF HeldInvOf, FinishEntry
  <2> HIDE DEF held
  <2>7. DOMAIN held = 1 .. Len(held) /\ (held = Held(w) \/ 1 .. Len(held) = {})
    BY <2>4, <2>5
  <2>8. ASSUME NEW k \in DOMAIN held, held[k].pos # 0
        PROVE  /\ held[k].pos \in Positions /\ WorkerFor(held[k].pos) = w
               /\ \A m \in 1 .. k - 1 : held[m].pos < held[k].pos
               /\ \A e \in Positions :
                    WorkerFor(e) = w /\ e >= held[k].pos => performed[e] = 0
    BY <2>6, <2>7, <2>8 DEF Given
  <2> USE DEF held
  <2> QED
    BY <2>8 DEF WorkerFor
<1>2. PlaceInv => WorkerInLogOrder
  BY <1>1 DEF WorkerInLogOrder
<1> QED
  BY <1>2, Placement, PTL

-----------------------------------------------------------------------------
(* Nobody waits in vain.                                                   *)

(* Initially no worker has been told anything.                             *)
LEMMA InitFinish == Init => FinishInv
BY DEF Init, WorkerInit, FinishInv, FinishInvOf, Told

(* run creates workers that have not been told anything.                   *)
LEMMA StartFinish ==
  ASSUME TypeOK, FinishInv, StartWorker
  PROVE  FinishInv'
<1> SUFFICES ASSUME NEW w \in Workers PROVE FinishInvOf(w)'
  BY DEF FinishInv
<1>1. thread[w] \notin {"joined", "deleted"}
  BY DEF FinishInv, FinishInvOf, StartWorker
<1>2. thread'[w] \notin {"joined", "deleted"}
  BY <1>1 DEF StartWorker, StartThread, TypeOK, WorkerTypeOK
<1>3. ~Told(w)'
  BY DEF Told, StartWorker
<1> QED
  BY <1>2, <1>3 DEF FinishInvOf

(* The FinishEntry stays where it is when the dispatcher goes from one     *)
(* loop to the next, or from the log to a queue.                           *)
LEMMA ControlFinish ==
  ASSUME PlaceInv, TypeOK', FinishInv,
         EndRun \/ PopEntry \/ Push \/ EndDispatch \/ EndPushFinish
  PROVE  FinishInv'
<1> SUFFICES ASSUME NEW w \in Workers PROVE FinishInvOf(w)'
  BY DEF FinishInv
<1>1. thread' = thread /\ dpc \notin {"join", "returned"}
  BY DEF EndRun, PopEntry, Push, PushQuery, EndDispatch, EndPushFinish, workerVars
<1>2. thread[w] \notin {"joined", "deleted"} /\ FinishInvOf(w)
  BY <1>1 DEF FinishInv, FinishInvOf
<1>3. CASE EndPushFinish
  <2>1. Told(w) /\ Held(w)' = Held(w) /\ Ended(w)' = Ended(w)
    BY <1>3, PoolWorkersAssumption, ThreadsCountAssumption
       DEF EndPushFinish, Told, Held, Ended, workerVars, PlaceInv, DispatchInv
  <2> QED
    BY <1>1, <1>2, <2>1 DEF FinishInvOf
<1>4. CASE ~EndPushFinish
  <2>1. ~Told(w)'
    BY <1>4, PoolWorkersAssumption, ThreadsCountAssumption
       DEF EndRun, PopEntry, Push, EndDispatch, Told
  <2> QED
    BY <1>1, <1>2, <2>1 DEF FinishInvOf
<1> QED
  BY <1>3, <1>4

(* finish_all_and_wait gives a worker its FinishEntry.                     *)
LEMMA PushFinishFinish ==
  ASSUME PlaceInv, TypeOK', FinishInv, PushFinish
  PROVE  FinishInv'
<1> SUFFICES ASSUME NEW w \in Workers PROVE FinishInvOf(w)'
  BY DEF FinishInv
<1>0. /\ dpc = "finish" /\ dpc' = "finish" /\ thread' = thread /\ i' = i + 1
      /\ i \in Workers /\ i \in Nat /\ w \in Nat
      /\ PushQuery(i, FinishEntry)
  BY PoolWorkersAssumption, ThreadsCountAssumption
     DEF PushFinish, PushQuery, PlaceInv, TypeOK, DispatchInv
<1>1. FinishInvOf(w) /\ TypeOK
  BY DEF FinishInv, PlaceInv
<1>2. thread[w] \notin {"joined", "deleted"} /\ Ended(w)' = Ended(w)
  BY <1>0, <1>1 DEF FinishInvOf, Ended
<1>3. CASE w = i
  <2>1. Held(w)'[Len(Held(w)) + 1] = FinishEntry /\ Len(Held(w)') = Len(Held(w)) + 1
    BY <1>0, <1>1, <1>3, EntriesType, HeldPush
  <2>2. Len(Held(w)) + 1 \in 1 .. Len(Held(w)')
    BY <1>1, <2>1, HeldType
  <2> QED
    BY <1>0, <1>2, <2>1, <2>2 DEF FinishInvOf, FinishEntry
<1>4. CASE w # i
  <2>1. Held(w)' = Held(w)
    BY <1>0, <1>1, <1>4, EntriesType, HeldPush
  <2>2. Told(w)' => Told(w)
    BY <1>0, <1>4 DEF Told
  <2> QED
    BY <1>0, <1>1, <1>2, <2>1, <2>2 DEF FinishInvOf
<1> QED
  BY <1>3, <1>4

(* It then joins the workers, and deletes them all.                        *)
LEMMA JoinFinish ==
  ASSUME PlaceInv, TypeOK', FinishInv, Join \/ Clear
  PROVE  FinishInv'
<1> SUFFICES ASSUME NEW w \in Workers PROVE FinishInvOf(w)'
  BY DEF FinishInv
<1>0. /\ FinishInvOf(w) /\ dpc = "join" /\ Told(w)
      /\ thread \in [Workers -> ThreadStates]
      /\ i \in Nat /\ w \in 0 .. threads_count - 1 /\ workers = threads_count
  BY PoolWorkersAssumption, ThreadsCountAssumption, SMTT(30)
     DEF FinishInv, PlaceInv, DispatchInv, TypeOK, WorkerTypeOK, Told, Join, Clear
<1>1. CASE Clear
  BY <1>0, <1>1 DEF Clear, FinishInvOf, Ended
<1>2. CASE Join /\ w = i
  BY <1>0, <1>2 DEF Join, JoinThread, FinishInvOf, Ended
<1>3. CASE Join /\ w # i
  <2>1. /\ thread'[w] = thread[w] /\ Held(w)' = Held(w)
        /\ dpc' = "join" /\ i' = i + 1
    BY <1>0, <1>3 DEF Join, JoinThread, Held
  <2> QED
    BY <1>0, <2>1 DEF FinishInvOf, Ended
<1> QED
  BY <1>1, <1>2, <1>3

(* A worker that takes the FinishEntry from those it holds leaves its loop.*)
LEMMA RunFinish ==
  ASSUME PlaceInv, FinishInv, NEW w \in Workers, RunThread(w)
  PROVE  FinishInv'
<1> SUFFICES ASSUME NEW v \in Workers PROVE FinishInvOf(v)'
  BY DEF FinishInv
<1>0. /\ FinishInvOf(v) /\ TypeOK /\ Told(v)' = Told(v) /\ UNCHANGED <<dpc, i>>
      /\ thread \in [Workers -> ThreadStates]
  BY DEF FinishInv, PlaceInv, TypeOK, WorkerTypeOK, RunThread, dispatchVars, Told
<1>1. thread'[v] \in {"joined", "deleted"} => thread'[v] = thread[v]
  BY <1>0 DEF RunThread, Run, Pop, Quit, Execute, ExecuteFinish, LoopOrLeave, Leave
<1>2. Ended(v) => Ended(v)'
  BY <1>0
     DEF Ended, RunThread, Run, Pop, Quit, Execute, ExecuteFinish, LoopOrLeave, Leave
<1>3. ASSUME Told(v), ~Ended(v)', NEW k \in 1 .. Len(Held(v)), Held(v)[k].shutdown
      PROVE  \E m \in 1 .. Len(Held(v)') : Held(v)'[m].shutdown
  <2>1. CASE Pop(w)
    BY <1>0, <1>3, <2>1, HeldPop
  <2>2. CASE Leave(w)
    <3>1. v # w
      BY <1>0, <1>3, <2>2 DEF Leave, Ended
    <3> QED
      BY <1>0, <1>3, <2>2, <3>1 DEF Leave, Held
  <2>3. CASE Quit(w) \/ Execute(w) \/ ExecuteFinish(w)
    <3>1. CASE v # w
      BY <1>0, <1>3, <2>3, <3>1, HeldPerform
    <3>2. CASE v = w
      <4>1. ~query[w].shutdown
        BY <1>0, <1>3, <2>3, <3>2 DEF Quit, Execute, ExecuteFinish, LoopOrLeave, Ended
      <4>2. /\ Len(Held(w)) = Len(queries[w]) + 1 /\ Len(queries[w]) \in Nat
            /\ Held(w)[1] = query[w] /\ Held(w)' = queries[w]
            /\ \A m \in 1 .. Len(queries[w]) : Held(w)'[m] = Held(w)[m + 1]
        BY <1>0, <2>3, HeldPerform
      <4>3. k \in 1 .. Len(queries[w]) + 1 /\ Held(w)[k].shutdown
        BY <1>3, <3>2, <4>2
      <4>4. k # 1
        BY <4>1, <4>2, <4>3
      <4>5. k - 1 \in 1 .. Len(queries[w]) /\ (k - 1) + 1 = k
        BY <4>2, <4>3, <4>4
      <4>6. Held(w)'[k - 1] = Held(w)[k]
        BY <4>2, <4>5
      <4> QED
        BY <3>2, <4>2, <4>3, <4>5, <4>6
    <3> QED
      BY <3>1, <3>2
  <2> QED
    BY <2>1, <2>2, <2>3 DEF RunThread, Run
<1> QED
  BY <1>0, <1>1, <1>2, <1>3 DEF FinishInvOf

(* All parts of the inductive invariant together.                          *)
THEOREM Invariance == SafeSpec => []IInv
<1>1. Init => IInv
  BY InitPlaceInv, InitFinish DEF IInv
<1>2. ASSUME IInv, [Next]_vars PROVE IInv'
  <2>1. PlaceInv' /\ TypeOK' /\ TypeOK
    BY <1>2, NextPlaceInv DEF IInv, PlaceInv
  <2>2. ASSUME UNCHANGED vars PROVE FinishInv'
    <3>1. /\ UNCHANGED <<thread, dpc, i>>
          /\ \A w : /\ Told(w)' = Told(w) /\ Ended(w)' = Ended(w)
                    /\ Held(w)' = Held(w)
      BY <2>2 DEF Told, Ended, Held, vars, workerVars, dispatchVars
    <3> QED
      BY <1>2, <3>1 DEF IInv, FinishInv, FinishInvOf
  <2>3. ASSUME Dispatcher PROVE FinishInv'
    BY <1>2, <2>1, <2>3, StartFinish, ControlFinish, PushFinishFinish, JoinFinish
       DEF Dispatcher, IInv
  <2>4. ASSUME NEW w \in Workers, RunThread(w) PROVE FinishInv'
    BY <1>2, <2>4, RunFinish DEF IInv
  <2>5. FinishInv'
    BY <1>2, <2>2, <2>3, <2>4 DEF Next, Terminated
  <2> QED
    BY <2>1, <2>5 DEF IInv
<1> QED
  BY <1>1, <1>2, PTL DEF SafeSpec

(* A thread that can go on by itself; one that waits for an entry cannot.  *)
Moving(w) ==
  \/ thread[w] = "pop" /\ queries[w] # << >>
  \/ thread[w] \in {"perform", "leave"}

(* Nobody waits for one who waits: a push waits for room in a queue, and   *)
(* the joins of finish_all_and_wait wait for each worker in turn; the      *)
(* worker can then go on by itself, or has ended.                          *)
NobodyWaitsInVain ==
  /\ dpc = "push" /\ Len(queries[WorkerFor(entry.pos)]) >= QueueDepth =>
       Moving(WorkerFor(entry.pos))
  /\ dpc = "finish" /\ i < workers /\ Len(queries[i]) >= QueueDepth => Moving(i)
  /\ dpc = "join" /\ i < workers => Moving(i) \/ thread[i] = "exited"

(* A full queue is being emptied.                                          *)
LEMMA FullMoves ==
  ASSUME PlaceInv, NEW w \in Workers, Len(queries[w]) >= QueueDepth, dpc # "run"
  PROVE  Moving(w)
<1>1. queries[w] # << >>
  BY QueueDepthAssumption
<1>2. ThreadInvOf(w) /\ thread[w] \in ThreadStates
  BY DEF PlaceInv, ThreadInv, TypeOK, WorkerTypeOK
<1> QED
  BY <1>1, <1>2 DEF Moving, ThreadInvOf, Ended, ThreadStates

(* The dispatcher never waits for a worker that waits for it: a full queue *)
(* is being emptied, and a worker to be joined has its FinishEntry yet to  *)
(* come, or has met it.                                                    *)
THEOREM NoDeadlock == SafeSpec => []NobodyWaitsInVain
<1>1. ASSUME IInv PROVE NobodyWaitsInVain
  <2>1. /\ dpc = "push" => WorkerFor(entry.pos) \in Workers
        /\ dpc \in {"finish", "join"} /\ i < workers => i \in Workers
    BY <1>1, LogFacts, PoolWorkersAssumption, ThreadsCountAssumption
       DEF IInv, PlaceInv, TypeOK, DispatchInv
  <2>2. ASSUME dpc = "join", i < workers PROVE Moving(i) \/ thread[i] = "exited"
    <3>1. i \in Workers /\ i \in Nat /\ Told(i)
      BY <1>1, <2>1, <2>2 DEF IInv, PlaceInv, TypeOK, Told
    <3>2. FinishInvOf(i) /\ ThreadInvOf(i) /\ thread[i] \in ThreadStates
      BY <1>1, <3>1 DEF IInv, FinishInv, PlaceInv, ThreadInv, TypeOK, WorkerTypeOK
    <3>3. thread[i] \notin {"none", "joined", "deleted"}
      BY <2>2, <3>1, <3>2 DEF FinishInvOf, ThreadInvOf
    <3>4. ASSUME thread[i] = "pop" PROVE queries[i] # << >>
      <4>1. \E k \in 1 .. Len(queries[i]) : queries[i][k].shutdown
        BY <3>1, <3>2, <3>4 DEF FinishInvOf, Ended, Held
      <4>2. Len(<< >>) = 0
        OBVIOUS
      <4> QED
        BY <4>1, <4>2
    <3> QED
      BY <3>2, <3>3, <3>4 DEF Moving, ThreadStates
  <2> QED
    BY <1>1, <2>1, <2>2, FullMoves DEF NobodyWaitsInVain, IInv
<1> QED
  BY <1>1, Invariance, PTL

-----------------------------------------------------------------------------
(* How much is left to do.                                                 *)

(* The workers that run has yet to create, that finish_all_and_wait has    *)
(* yet to tell to finish, that have yet to take their FinishEntry, to end  *)
(* their loop, to exit and to be joined.                                   *)
Uncreated == {w \in Workers : thread[w] = "none"}
Untold    == {w \in Workers : ~Told(w)}
Unmet     == {w \in Workers : ~(Ended(w) \/ (thread[w] = "perform" /\ query[w].shutdown))}
Unended   == {w \in Workers : ~Ended(w)}
Unexited  == {w \in Workers : thread[w] \notin {"exited", "joined", "deleted"}}
Unjoined  == {w \in Workers : thread[w] \notin {"joined", "deleted"}}

(* The queries to be popped from the log, to be pushed, to be taken from a *)
(* queue and to be performed.                                              *)
InHands(e) == thread[WorkerFor(e)] = "perform" /\ query[WorkerFor(e)].pos = e

Unread      == {e \in Positions : e >= next}
Unpushed    == {e \in Positions : e >= next \/ (dpc = "push" /\ e = entry.pos)}
Untaken     == {e \in Positions : performed[e] = 0 /\ ~InHands(e)}
Unperformed == {e \in Positions : performed[e] = 0}

(* The loops of the dispatcher that have not ended.                        *)
Unfinished ==
  {loop \in {"run", "dispatch", "finish", "join"} :
     \/ dpc = "run"
     \/ dpc \in {"pop", "push"} /\ loop # "run"
     \/ dpc = "finish" /\ loop \in {"finish", "join"}
     \/ dpc = "join" /\ loop = "join"}

Todo ==
  ({"create"} \X Uncreated) \cup ({"tell"} \X Untold) \cup ({"meet"} \X Unmet)
    \cup ({"end"} \X Unended) \cup ({"exit"} \X Unexited) \cup ({"join"} \X Unjoined)
    \cup ({"read"} \X Unread) \cup ({"push"} \X Unpushed) \cup ({"take"} \X Untaken)
    \cup ({"perform"} \X Unperformed) \cup ({"loop"} \X Unfinished)

StepsLeft == Cardinality(Todo)

LessToDo == StepsLeft \in Nat /\ StepsLeft' < StepsLeft

(* What has been created, told, met, ended, exited and joined stays so.    *)
LEMMA WorkersShrink ==
  ASSUME PlaceInv, [Next]_vars
  PROVE  /\ Uncreated' \subseteq Uncreated
         /\ Untold' \subseteq Untold
         /\ Unmet' \subseteq Unmet
         /\ Unended' \subseteq Unended
         /\ Unexited' \subseteq Unexited
         /\ Unjoined' \subseteq Unjoined
<1> SUFFICES ASSUME NEW w \in Workers
             PROVE  /\ thread'[w] = "none" => thread[w] = "none"
                    /\ Told(w) => Told(w)'
                    /\ thread[w] = "perform" /\ query[w].shutdown /\ ~Ended(w)' =>
                         thread'[w] = "perform" /\ query'[w].shutdown
                    /\ Ended(w) => Ended(w)'
                    /\ thread[w] \in {"exited", "joined", "deleted"} =>
                         thread'[w] \in {"exited", "joined", "deleted"}
                    /\ thread[w] \in {"joined", "deleted"} =>
                         thread'[w] \in {"joined", "deleted"}
  BY DEF Uncreated, Untold, Unmet, Unended, Unexited, Unjoined, Ended
<1>0. /\ thread \in [Workers -> ThreadStates] /\ query \in [Workers -> Entries]
      /\ i \in Nat /\ w \in 0 .. threads_count - 1 /\ ThreadInvOf(w) /\ DispatchInv
  BY PoolWorkersAssumption, ThreadsCountAssumption
     DEF PlaceInv, TypeOK, WorkerTypeOK, ThreadInv
<1>1. Told(w) => Told(w)'
  BY <1>0 DEF Next, Dispatcher, StartWorker, EndRun, PopEntry, Push, EndDispatch,
              PushFinish, EndPushFinish, Join, Clear, RunThread, Terminated, vars,
              dispatchVars, Told
<1>2. CASE StartWorker
  <2>1. i = w => thread[w] = "none"
    BY <1>0, <1>2 DEF StartWorker, ThreadInvOf
  <2> QED
    BY <1>0, <1>1, <1>2, <2>1 DEF StartWorker, StartThread, Ended
<1>3. CASE Join
  BY <1>0, <1>1, <1>3 DEF Join, JoinThread, Ended
<1>4. CASE Clear
  <2>1. thread[w] = "joined" /\ thread'[w] = "deleted"
    BY <1>0, <1>4 DEF Clear, ThreadInvOf, DispatchInv
  <2> QED
    BY <1>1, <2>1 DEF Ended
<1>5. ASSUME NEW v \in Workers, RunThread(v)
      PROVE  /\ thread'[w] = "none" => thread[w] = "none"
             /\ thread[w] = "perform" /\ query[w].shutdown /\ ~Ended(w)' =>
                  thread'[w] = "perform" /\ query'[w].shutdown
             /\ Ended(w) => Ended(w)'
             /\ thread[w] \in {"exited", "joined", "deleted"} => thread'[w] = thread[w]
  BY <1>0, <1>5
     DEF RunThread, Run, Pop, Quit, Execute, ExecuteFinish, LoopOrLeave, Leave, Ended
<1>6. CASE UNCHANGED <<thread, query>>
  BY <1>1, <1>6 DEF Ended
<1> QED
  BY <1>1, <1>2, <1>3, <1>4, <1>5, <1>6
     DEF Next, Dispatcher, EndRun, PopEntry, Push, PushQuery, EndDispatch, PushFinish,
         EndPushFinish, Terminated, vars, workerVars

(* What has been read, pushed, taken and performed stays so, and no loop   *)
(* is entered again.                                                       *)
LEMMA EntriesShrink ==
  ASSUME PlaceInv, [Next]_vars
  PROVE  /\ Unread' \subseteq Unread
         /\ Unpushed' \subseteq Unpushed
         /\ Untaken' \subseteq Untaken
         /\ Unperformed' \subseteq Unperformed
         /\ Unfinished' \subseteq Unfinished
<1>0. /\ thread \in [Workers -> ThreadStates] /\ query \in [Workers -> Entries]
      /\ performed \in [Positions -> Nat] /\ log \in Logs /\ next \in Nat /\ DispatchInv
      /\ Positions \subseteq Nat /\ \A e \in Positions : WorkerFor(e) \in Workers
  BY LogFacts DEF PlaceInv, TypeOK, WorkerTypeOK
<1>1. log' = log /\ Positions' = Positions /\ \A e : WorkerFor(e)' = WorkerFor(e)
  <2>1. log' = log
    BY DEF Next, Dispatcher, StartWorker, EndRun, PopEntry, Push, EndDispatch, PushFinish,
           EndPushFinish, Join, Clear, RunThread, Terminated, vars, dispatchVars
  <2> QED
    BY <2>1, LogFixed DEF WorkerFor, getThreadId
<1>2. /\ Unread' \subseteq Unread
      /\ Unpushed' \subseteq Unpushed
      /\ Unfinished' \subseteq Unfinished
  <2>1. CASE PopEntry
    <3>1. /\ next \in Positions /\ next' = next + 1 /\ entry'.pos = next
          /\ dpc = "pop" /\ dpc' = "push"
      BY <2>1 DEF PopEntry
    <3>2. Unread' \subseteq Unread /\ Unpushed' \subseteq Unpushed
      <4> SUFFICES ASSUME NEW e \in Positions
                   PROVE  /\ e >= next' => e >= next
                          /\ dpc' = "push" /\ e = entry'.pos => e >= next
        BY <1>1 DEF Unread, Unpushed
      <4>1. e \in Nat /\ next \in Nat
        BY <1>0
      <4> QED
        BY <3>1, <4>1
    <3>3. Unfinished' \subseteq Unfinished
      BY <3>1 DEF Unfinished
    <3> QED
      BY <3>2, <3>3
  <2>2. CASE Push
    BY <1>0, <1>1, <2>2 DEF Push, Unread, Unpushed, Unfinished
  <2>3. CASE EndRun \/ EndDispatch \/ EndPushFinish \/ Clear
    BY <1>1, <2>3 DEF EndRun, EndDispatch, EndPushFinish, Clear, Unread, Unpushed,
                      Unfinished
  <2>4. CASE UNCHANGED <<next, entry, dpc>>
    BY <1>1, <2>4 DEF Unread, Unpushed, Unfinished
  <2> QED
    BY <2>1, <2>2, <2>3, <2>4
       DEF Next, Dispatcher, StartWorker, PushFinish, Join, RunThread, Terminated, vars,
           dispatchVars
<1>3. ASSUME NEW e \in Positions
      PROVE  /\ performed'[e] = 0 => performed[e] = 0
             /\ InHands(e) => InHands(e)' \/ performed'[e] # 0
  <2> DEFINE w == WorkerFor(e)
  <2>0. w \in Workers /\ ThreadInvOf(w)
    BY <1>0 DEF PlaceInv, ThreadInv
  <2>1. CASE Dispatcher
    <3>1. performed' = performed
      BY <2>1 DEF Dispatcher, StartWorker, StartThread, EndRun, PopEntry, Push, PushQuery,
                  EndDispatch, PushFinish, EndPushFinish, Join, JoinThread, Clear, workerVars
    <3>2. CASE StartWorker
      <4>1. i = w => thread[w] = "none"
        BY <2>0, <3>2, PoolWorkersAssumption DEF StartWorker, ThreadInvOf
      <4>2. thread[w] = "perform" => thread'[w] = thread[w] /\ query'[w] = query[w]
        BY <1>0, <2>0, <3>2, <4>1 DEF StartWorker, StartThread
      <4> QED
        BY <1>1, <3>1, <4>2 DEF InHands
    <3>3. CASE Join
      BY <1>0, <1>1, <2>0, <3>1, <3>3 DEF Join, JoinThread, InHands
    <3>4. CASE Clear
      <4>1. thread[w] = "joined"
        BY <1>0, <2>0, <3>4, PoolWorkersAssumption, ThreadsCountAssumption
           DEF Clear, ThreadInvOf, DispatchInv
      <4> QED
        BY <3>1, <4>1 DEF InHands
    <3>5. CASE UNCHANGED <<thread, query>>
      BY <1>1, <3>1, <3>5 DEF InHands
    <3> QED
      BY <2>1, <3>2, <3>3, <3>4, <3>5
         DEF Dispatcher, EndRun, PopEntry, Push, PushQuery, EndDispatch, PushFinish,
             EndPushFinish, workerVars
  <2>2. ASSUME NEW v \in Workers, Pop(v) \/ Leave(v) \/ ExecuteFinish(v)
        PROVE  /\ performed'[e] = 0 => performed[e] = 0
               /\ InHands(e) => InHands(e)' \/ performed'[e] # 0
    <3>1. performed' = performed
      BY <2>2 DEF Pop, Leave, ExecuteFinish
    <3>2. thread[w] = "perform" /\ query[w].pos # 0 =>
            thread'[w] = "perform" /\ query'[w] = query[w]
      BY <1>0, <2>0, <2>2 DEF Pop, Leave, ExecuteFinish, LoopOrLeave
    <3>3. e # 0
      BY <1>0, LogFacts
    <3> QED
      BY <1>1, <3>1, <3>2, <3>3 DEF InHands
  <2>3. ASSUME NEW v \in Workers, Quit(v) \/ Execute(v)
        PROVE  /\ performed'[e] = 0 => performed[e] = 0
               /\ InHands(e) => InHands(e)' \/ performed'[e] # 0
    <3>1. performed' = [performed EXCEPT ![query[v].pos] = performed[query[v].pos] + 1]
      BY <2>3 DEF Quit, Execute
    <3>2. performed'[e] = IF e = query[v].pos THEN performed[e] + 1 ELSE performed[e]
      BY <1>0, <3>1
    <3>3. w # v => thread'[w] = thread[w] /\ query'[w] = query[w]
      BY <1>0, <2>0, <2>3 DEF Quit, Execute, LoopOrLeave
    <3>4. performed[e] \in Nat
      BY <1>0
    <3> QED
      BY <1>1, <3>2, <3>3, <3>4 DEF InHands
  <2>4. CASE UNCHANGED vars
    BY <1>1, <2>4 DEF vars, workerVars, InHands
  <2> QED
    BY <2>1, <2>2, <2>3, <2>4 DEF Next, RunThread, Run, Terminated
<1>4. Untaken' \subseteq Untaken /\ Unperformed' \subseteq Unperformed
  BY <1>1, <1>3 DEF Untaken, Unperformed
<1> QED
  BY <1>2, <1>4

(* Every step of the dispatcher gets something done,                       *)
LEMMA DispatcherShrinks ==
  ASSUME PlaceInv, Dispatcher
  PROVE  \/ Uncreated' # Uncreated \/ Untold' # Untold \/ Unjoined' # Unjoined
         \/ Unread' # Unread \/ Unpushed' # Unpushed \/ Unfinished' # Unfinished
<1>0. /\ thread \in [Workers -> ThreadStates] /\ i \in Nat
      /\ next \in Nat /\ DispatchInv /\ ThreadInv
      /\ Workers = 0 .. threads_count - 1 /\ workers \in 0 .. threads_count
  BY PoolWorkersAssumption DEF PlaceInv, TypeOK, WorkerTypeOK
<1>1. CASE StartWorker
  <2>1. i \in Workers
    BY <1>0, <1>1, ThreadsCountAssumption DEF StartWorker
  <2>2. thread[i] = "none" /\ thread'[i] # "none"
    BY <1>0, <1>1, <2>1 DEF StartWorker, StartThread, ThreadInv, ThreadInvOf
  <2> QED
    BY <2>1, <2>2 DEF Uncreated
<1>2. CASE EndRun
  <2>1. "run" \in Unfinished /\ "run" \notin Unfinished'
    BY <1>2 DEF EndRun, Unfinished
  <2> QED
    BY <2>1
<1>3. CASE PopEntry
  <2>1. next \in Unread /\ next \notin Unread'
    BY <1>0, <1>3 DEF PopEntry, Unread
  <2> QED
    BY <2>1
<1>4. CASE Push
  <2>1. entry.pos \in Unpushed /\ entry.pos \notin Unpushed'
    BY <1>0, <1>4 DEF Push, DispatchInv, Unpushed
  <2> QED
    BY <2>1
<1>5. CASE EndDispatch
  <2>1. "dispatch" \in Unfinished /\ "dispatch" \notin Unfinished'
    BY <1>5 DEF EndDispatch, Unfinished
  <2> QED
    BY <2>1
<1>6. CASE PushFinish
  <2>1. i \in Untold /\ i \notin Untold'
    BY <1>0, <1>6, ThreadsCountAssumption DEF PushFinish, Untold, Told
  <2> QED
    BY <2>1
<1>7. CASE EndPushFinish
  <2>1. "finish" \in Unfinished /\ "finish" \notin Unfinished'
    BY <1>7 DEF EndPushFinish, Unfinished
  <2> QED
    BY <2>1
<1>8. CASE Join
  <2>1. i \in Unjoined /\ i \notin Unjoined'
    BY <1>0, <1>8, ThreadsCountAssumption DEF Join, JoinThread, Unjoined
  <2> QED
    BY <2>1
<1>9. CASE Clear
  <2>1. "join" \in Unfinished /\ "join" \notin Unfinished'
    BY <1>9 DEF Clear, Unfinished
  <2> QED
    BY <2>1
<1> QED
  BY <1>1, <1>2, <1>3, <1>4, <1>5, <1>6, <1>7, <1>8, <1>9 DEF Dispatcher

(* and so does every step of a worker.                                     *)
LEMMA RunShrinks ==
  ASSUME PlaceInv, NEW w \in Workers, RunThread(w)
  PROVE  \/ Unmet' # Unmet \/ Unended' # Unended \/ Unexited' # Unexited
         \/ Untaken' # Untaken \/ Unperformed' # Unperformed
<1>0. /\ TypeOK /\ log \in Logs /\ thread \in [Workers -> ThreadStates]
      /\ query \in [Workers -> Entries] /\ performed \in [Positions -> Nat]
      /\ log' = log /\ Positions' = Positions
  BY LogFixed DEF PlaceInv, TypeOK, WorkerTypeOK, RunThread
<1>1. CASE Pop(w)
  <2>1. /\ thread[w] = "pop" /\ thread'[w] = "perform"
        /\ query'[w] = Head(queries[w]) /\ Held(w) = queries[w]
        /\ queries[w] \in Seq(Entries) /\ queries[w] # << >>
        /\ performed' = performed
    BY <1>0, <1>1 DEF Pop, Held, TypeOK, WorkerTypeOK
  <2>2. 1 \in 1 .. Len(Held(w)) /\ Held(w)[1] = query'[w]
    BY <2>1
  <2>3. query'[w].shutdown \/ Given(w, query'[w])
    BY <2>2 DEF PlaceInv, HeldInv, HeldInvOf
  <2>4. CASE query'[w].shutdown
    <3>1. w \in Unmet /\ w \notin Unmet'
      BY <2>1, <2>4 DEF Unmet, Ended
    <3> QED
      BY <3>1
  <2>5. CASE Given(w, query'[w])
    <3>p. PICK e : e = query'[w].pos
      OBVIOUS
    <3>1. e \in Positions /\ WorkerFor(e) = w /\ performed[e] = 0
      <4>1. e \in Positions /\ WorkerFor(e) = w
        BY <2>5, <3>p DEF Given
      <4>2. e >= e
        BY <1>0, <4>1, LogFacts
      <4> QED
        BY <2>5, <3>p, <4>1, <4>2 DEF Given
    <3>2. e \in Untaken
      BY <2>1, <3>1 DEF Untaken, InHands
    <3>3. InHands(e)'
      BY <1>0, <2>1, <3>p, <3>1 DEF InHands, WorkerFor, getThreadId
    <3>4. e \notin Untaken'
      BY <3>3 DEF Untaken
    <3> QED
      BY <3>2, <3>4
  <2> QED
    BY <2>3, <2>4, <2>5
<1>2. CASE Quit(w) \/ Execute(w)
  <2> DEFINE e == query[w].pos
  <2>1. thread[w] = "perform" /\ e # 0
    BY <1>2 DEF Quit, Execute, is_quit
  <2>2. e \in Positions /\ performed[e] = 0
    <3>1. Given(w, query[w])
      BY <2>1, InHand
    <3>2. e \in Positions /\ WorkerFor(e) = w
      BY <3>1 DEF Given
    <3>3. e >= e
      BY <1>0, <3>2, LogFacts
    <3> QED
      BY <3>1, <3>2, <3>3 DEF Given
  <2>3. performed'[e] = 1
    BY <1>0, <1>2, <2>2 DEF Quit, Execute
  <2>4. e \in Unperformed /\ e \notin Unperformed'
    BY <2>2, <2>3 DEF Unperformed
  <2> QED
    BY <2>4
<1>3. CASE ExecuteFinish(w)
  <2>1. query[w].shutdown /\ thread[w] = "perform"
    BY <1>3, InHand DEF ExecuteFinish
  <2>2. w \in Unended /\ w \notin Unended'
    BY <1>0, <1>3, <2>1 DEF ExecuteFinish, LoopOrLeave, Unended, Ended
  <2> QED
    BY <2>2
<1>4. CASE Leave(w)
  <2>1. w \in Unexited /\ w \notin Unexited'
    BY <1>0, <1>4 DEF Leave, Unexited
  <2> QED
    BY <2>1
<1> QED
  BY <1>1, <1>2, <1>3, <1>4 DEF RunThread, Run

(* There is only so much to do.                                            *)
LEMMA TodoFinite ==
  ASSUME TypeOK
  PROVE  IsFiniteSet(Todo)
<1> DEFINE Some(kind, S) == {kind} \X S
<1>1. IsFiniteSet(Positions) /\ IsFiniteSet(Workers)
  <2>1. Len(log) \in Nat /\ Positions = 1 .. Len(log)
    BY LogFacts DEF TypeOK
  <2>2. IsFiniteSet(1 .. Len(log)) /\ IsFiniteSet(0 .. threads_count - 1)
    BY <2>1, ThreadsCountAssumption, FS_Interval
  <2> QED
    BY <2>1, <2>2, PoolWorkersAssumption
<1>2. IsFiniteSet({"run", "dispatch", "finish", "join"})
  <2>1. {"run", "dispatch", "finish", "join"}
          = {"run"} \cup ({"dispatch"} \cup ({"finish"} \cup {"join"}))
    OBVIOUS
  <2>2. \A x : IsFiniteSet({x})
    BY FS_Singleton
  <2>3. IsFiniteSet({"finish"} \cup {"join"})
    BY <2>2, FS_Union
  <2>4. IsFiniteSet({"dispatch"} \cup ({"finish"} \cup {"join"}))
    BY <2>2, <2>3, FS_Union
  <2>5. IsFiniteSet({"run"} \cup ({"dispatch"} \cup ({"finish"} \cup {"join"})))
    BY <2>2, <2>4, FS_Union
  <2> QED
    BY <2>1, <2>5
<1>3. /\ IsFiniteSet(Uncreated) /\ IsFiniteSet(Untold) /\ IsFiniteSet(Unmet)
      /\ IsFiniteSet(Unended) /\ IsFiniteSet(Unexited) /\ IsFiniteSet(Unjoined)
  BY <1>1, FS_Subset DEF Uncreated, Untold, Unmet, Unended, Unexited, Unjoined
<1>4. /\ IsFiniteSet(Unread) /\ IsFiniteSet(Unpushed) /\ IsFiniteSet(Untaken)
      /\ IsFiniteSet(Unperformed)
  BY <1>1, FS_Subset DEF Unread, Unpushed, Untaken, Unperformed
<1>5. IsFiniteSet(Unfinished)
  BY <1>2, FS_Subset DEF Unfinished
<1>6. ASSUME NEW kind, NEW S, IsFiniteSet(S) PROVE IsFiniteSet(Some(kind, S))
  <2>1. IsFiniteSet({kind})
    BY FS_Singleton
  <2> QED
    BY <1>6, <2>1, FS_Product
<1>7. /\ IsFiniteSet(Some("create", Uncreated)) /\ IsFiniteSet(Some("tell", Untold))
      /\ IsFiniteSet(Some("meet", Unmet)) /\ IsFiniteSet(Some("end", Unended))
      /\ IsFiniteSet(Some("exit", Unexited)) /\ IsFiniteSet(Some("join", Unjoined))
      /\ IsFiniteSet(Some("read", Unread)) /\ IsFiniteSet(Some("push", Unpushed))
      /\ IsFiniteSet(Some("take", Untaken)) /\ IsFiniteSet(Some("perform", Unperformed))
      /\ IsFiniteSet(Some("loop", Unfinished))
  <2> HIDE DEF Some
  <2> QED
    BY <1>3, <1>4, <1>5, <1>6
<1>8. Todo = Some("create", Uncreated) \cup Some("tell", Untold) \cup Some("meet", Unmet)
               \cup Some("end", Unended) \cup Some("exit", Unexited)
               \cup Some("join", Unjoined) \cup Some("read", Unread)
               \cup Some("push", Unpushed) \cup Some("take", Untaken)
               \cup Some("perform", Unperformed) \cup Some("loop", Unfinished)
  BY DEF Todo
<1> HIDE DEF Some
<1> QED
  BY <1>7, <1>8, FS_Union

(* Replaying a log takes a bounded number of steps, however the threads    *)
(* are scheduled: each step leaves less to do.  With NoDeadlock, this is   *)
(* why finish_all_and_wait returns.                                        *)
THEOREM Progress == SafeSpec => [][LessToDo]_vars
<1>1. ASSUME IInv, [Next]_vars
      PROVE  [LessToDo]_vars
  <2> SUFFICES ASSUME vars' # vars PROVE LessToDo
    OBVIOUS
  <2>1. Todo' \subseteq Todo
    BY <1>1, WorkersShrink, EntriesShrink DEF Todo, IInv
  <2>2. Todo' # Todo
    <3>1. \/ Uncreated' # Uncreated \/ Untold' # Untold \/ Unmet' # Unmet
          \/ Unended' # Unended \/ Unexited' # Unexited \/ Unjoined' # Unjoined
          \/ Unread' # Unread \/ Unpushed' # Unpushed \/ Untaken' # Untaken
          \/ Unperformed' # Unperformed \/ Unfinished' # Unfinished
      BY <1>1, DispatcherShrinks, RunShrinks DEF Next, Terminated, IInv
    <3>2. /\ \A x : <<"create", x>> \in Todo <=> x \in Uncreated
          /\ \A x : <<"tell", x>> \in Todo <=> x \in Untold
          /\ \A x : <<"meet", x>> \in Todo <=> x \in Unmet
          /\ \A x : <<"end", x>> \in Todo <=> x \in Unended
          /\ \A x : <<"exit", x>> \in Todo <=> x \in Unexited
          /\ \A x : <<"join", x>> \in Todo <=> x \in Unjoined
          /\ \A x : <<"read", x>> \in Todo <=> x \in Unread
          /\ \A x : <<"push", x>> \in Todo <=> x \in Unpushed
          /\ \A x : <<"take", x>> \in Todo <=> x \in Untaken
          /\ \A x : <<"perform", x>> \in Todo <=> x \in Unperformed
          /\ \A x : <<"loop", x>> \in Todo <=> x \in Unfinished
      BY DEF Todo
    <3>3. /\ \A x : <<"create", x>> \in Todo' <=> x \in Uncreated'
          /\ \A x : <<"tell", x>> \in Todo' <=> x \in Untold'
          /\ \A x : <<"meet", x>> \in Todo' <=> x \in Unmet'
          /\ \A x : <<"end", x>> \in Todo' <=> x \in Unended'
          /\ \A x : <<"exit", x>> \in Todo' <=> x \in Unexited'
          /\ \A x : <<"join", x>> \in Todo' <=> x \in Unjoined'
          /\ \A x : <<"read", x>> \in Todo' <=> x \in Unread'
          /\ \A x : <<"push", x>> \in Todo' <=> x \in Unpushed'
          /\ \A x : <<"take", x>> \in Todo' <=> x \in Untaken'
          /\ \A x : <<"perform", x>> \in Todo' <=> x \in Unperformed'
          /\ \A x : <<"loop", x>> \in Todo' <=> x \in Unfinished'
      BY DEF Todo
    <3> QED
      BY <3>1, <3>2, <3>3
  <2>3. IsFiniteSet(Todo) /\ IsFiniteSet(Todo')
    <3>1. IsFiniteSet(Todo)
      BY <1>1, TodoFinite DEF IInv, PlaceInv
    <3> QED
      BY <2>1, <3>1, FS_Subset
  <2>4. /\ Cardinality(Todo) \in Nat /\ Cardinality(Todo') \in Nat
        /\ Cardinality(Todo') <= Cardinality(Todo)
        /\ Cardinality(Todo') # Cardinality(Todo)
    BY <2>1, <2>2, <2>3, FS_CardinalityType, FS_Subset
  <2> QED
    BY <2>4 DEF StepsLeft, LessToDo
<1> QED
  BY <1>1, Invariance, PTL DEF SafeSpec

-----------------------------------------------------------------------------
(* Refinement.                                                             *)

(* Each step performs the next entry of a connection, or returns when all  *)
(* have been performed, or is a stuttering step of Replay.                 *)
LEMMA StepImplements ==
  PlaceInv /\ [Next]_vars => [R!Next]_(R!replayVars)
<1> SUFFICES ASSUME PlaceInv, [Next]_vars PROVE [R!Next]_(R!replayVars)
  OBVIOUS
<1>0. log \in Logs /\ Len(log) \in Nat /\ Positions = 1 .. Len(log)
  BY LogFacts DEF PlaceInv, TypeOK
<1>1. ASSUME NEW w \in Workers, RunThread(w), Quit(w) \/ Execute(w)
      PROVE  R!Next
  <2> DEFINE e == query[w].pos
  <2>1. thread[w] = "perform" /\ e # 0
    BY <1>1 DEF Quit, Execute, is_quit
  <2>2. /\ e \in Positions /\ WorkerFor(e) = w /\ performed[e] = 0
        /\ \A d \in Positions : d < e /\ WorkerFor(d) = w => performed[d] = 1
    BY <1>0, <2>1, InHand DEF Given
  <2>3. \A d \in R!Earlier(e) : performed[d] = 1
    BY <1>0, <2>2 DEF R!Earlier, R!getThreadId, WorkerFor, getThreadId
  <2>4. dpc # "returned"
    BY <2>1 DEF PlaceInv, ThreadInv, ThreadInvOf
  <2>5. performed' = [performed EXCEPT ![e] = 1]
    BY <1>1, <2>2 DEF Quit, Execute
  <2>6. UNCHANGED <<log, dpc>>
    BY <1>1 DEF RunThread, dispatchVars
  <2>7. R!Perform(e)
    BY <2>2, <2>3, <2>4, <2>5, <2>6 DEF R!Perform
  <2> QED
    BY <2>2, <2>7 DEF R!Next, R!Positions, Positions
<1>2. CASE Clear
  <2>1. \A e \in Positions : performed[e] = 1
    <3> SUFFICES ASSUME NEW e \in Positions PROVE performed[e] = 1
      OBVIOUS
    <3>1. WorkerFor(e) \in Workers
      BY <1>0, LogFacts
    <3>2. thread[WorkerFor(e)] = "joined"
      BY <1>2, <3>1, PoolWorkersAssumption, ThreadsCountAssumption
         DEF Clear, PlaceInv, DispatchInv, ThreadInv, ThreadInvOf
    <3> QED
      BY <3>1, <3>2 DEF PlaceInv, ThreadInv, ThreadInvOf, Ended
  <2>2. dpc' = "returned" /\ UNCHANGED <<log, performed>>
    BY <1>2 DEF Clear
  <2> QED
    BY <2>1, <2>2 DEF R!Next, R!Return, R!Positions, Positions
<1>3. ASSUME UNCHANGED <<log, performed>>, (dpc' = "returned") = (dpc = "returned")
      PROVE  UNCHANGED R!replayVars
  BY <1>3 DEF R!replayVars
<1>4. CASE UNCHANGED vars
  BY <1>3, <1>4 DEF vars, workerVars, dispatchVars
<1>5. CASE Dispatcher /\ ~Clear
  BY <1>3, <1>5
     DEF Dispatcher, StartWorker, StartThread, EndRun, PopEntry, Push, PushQuery,
         EndDispatch, PushFinish, EndPushFinish, Join, JoinThread, workerVars
<1>6. ASSUME NEW w \in Workers, RunThread(w), ~(Quit(w) \/ Execute(w))
      PROVE  UNCHANGED R!replayVars
  BY <1>3, <1>6 DEF RunThread, Run, Pop, ExecuteFinish, Leave, dispatchVars
<1> QED
  BY <1>1, <1>2, <1>4, <1>5, <1>6 DEF Next, Terminated

(* The thread pool keeps the promise of Replay: every entry exactly once,  *)
(* in the order of its connection, all before it returns.                  *)
THEOREM Refinement == SafeSpec => ImplementsReplay
<1>1. Init => R!Init
  BY DEF Init, WorkerInit, R!Init, R!Positions, Positions
<1> QED
  BY <1>1, StepImplements, Placement, PTL
     DEF SafeSpec, ImplementsReplay, R!SafeSpec
=============================================================================
