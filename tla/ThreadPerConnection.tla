------------------------- MODULE ThreadPerConnection -------------------------
(***************************************************************************)
(* The thread-per-connection dispatcher, the default one                   *)
(* (percona_playback/thread_per_connection/thread_per_connection.cc), over *)
(* the database threads it starts.  The dispatcher runs in the thread of   *)
(* the input plugin: dispatch pops the entries of the log and pushes each  *)
(* to the queue of its connection's thread, which it starts on the         *)
(* connection's first entry; finish_all_and_wait joins the threads.        *)
(*                                                                         *)
(* With too many threads running, dispatch sleeps and sweeps the table of  *)
(* threads for ones it can join, until it may start another.               *)
(***************************************************************************)
EXTENDS DBThread

CONSTANT MaxRunning  \* the 10000 of dispatch

ASSUME MaxRunningAssumption == MaxRunning \in Nat

(* create(thread_id): the thread of a connection is named by its id.       *)
ASSUME WorkersAssumption == Workers = ThreadIds

VARIABLES
  executors,           (* the table: no key, a null pointer, or a thread   *)
  num_running,
  last_query_of_conn,  (* the entries marked as shutdown                   *)
  next,                (* the position of the first entry not yet popped   *)
  entry,               (* query_entry                                      *)
  unvisited,           (* keys the iterator of a loop over the table has   *)
                       (* not passed                                       *)
  dpc                  (* where the dispatcher is                          *)

dispatchVars ==
  <<executors, num_running, last_query_of_conn, next, entry, unvisited, dpc>>
vars == <<log, workerVars, dispatchVars>>

TypeOK ==
  /\ log \in Logs
  /\ WorkerTypeOK
  /\ executors \in [ThreadIds -> {"absent", "null", "thread"}]
  /\ num_running \in Int
  /\ last_query_of_conn \in SUBSET Positions
  /\ next \in 1 .. Len(log) + 1
  /\ entry \in Entries
  /\ unvisited \in SUBSET ThreadIds
  /\ dpc \in {"start", "pop", "admit", "sweep", "push", "finish", "returned"}

Init ==
  /\ log \in Logs
  /\ WorkerInit
  /\ executors = [c \in ThreadIds |-> "absent"]
  /\ num_running = 0
  /\ last_query_of_conn = {}
  /\ next = 1
  /\ entry = NoEntry
  /\ unvisited = {}
  /\ dpc = "start"

Keys == {c \in ThreadIds : executors[c] # "absent"}

(* The connection of the entry that dispatch holds.                        *)
conn == getThreadId(entry.pos)

-----------------------------------------------------------------------------
(* dispatch                                                                *)

Dispatch ==
  /\ dpc = "start"
  /\ num_running' = 0
  /\ last_query_of_conn' = LastQueries
  /\ dpc' = "pop"
  /\ UNCHANGED <<log, workerVars, executors, next, entry, unvisited>>

(* popEntry, and the look-up of its thread: operator[] of the table adds a *)
(* null pointer for a connection it has no key of.                         *)
PopEntry ==
  /\ dpc = "pop"
  /\ next \in Positions
  /\ entry' = [pos |-> next, shutdown |-> next \in last_query_of_conn]
  /\ next' = next + 1
  /\ LET c == getThreadId(next)
     IN  IF executors[c] = "absent"
         THEN executors' = [executors EXCEPT ![c] = "null"] /\ dpc' = "admit"
         ELSE UNCHANGED executors /\ dpc' = "push"
  /\ UNCHANGED <<log, workerVars, num_running, last_query_of_conn, unvisited>>

(* Too many threads: sleep, then enter finish_some_and_go.                 *)
Sleep ==
  /\ dpc = "admit"
  /\ num_running > MaxRunning
  /\ unvisited' = Keys
  /\ dpc' = "sweep"
  /\ UNCHANGED <<log, workerVars, executors, num_running, last_query_of_conn,
                 next, entry>>

(* A mutant: the limit is not looked at.                                   *)
CreateUnlimited ==
  /\ dpc = "admit"
  /\ executors' = [executors EXCEPT ![conn] = "thread"]
  /\ num_running' = num_running + 1
  /\ StartThread(conn)
  /\ dpc' = "push"
  /\ UNCHANGED <<log, last_query_of_conn, next, entry, unvisited>>

Create ==
  /\ dpc = "admit"
  /\ num_running <= MaxRunning
  /\ executors' = [executors EXCEPT ![conn] = "thread"]
  /\ num_running' = num_running + 1
  /\ StartThread(conn)
  /\ dpc' = "push"
  /\ UNCHANGED <<log, last_query_of_conn, next, entry, unvisited>>

Push ==
  /\ dpc = "push"
  /\ PushQuery(conn, entry)
  /\ entry' = NoEntry
  /\ dpc' = "pop"
  /\ UNCHANGED <<log, executors, num_running, last_query_of_conn, next,
                 unvisited>>

(* popEntry returns null: dispatch returns, and its caller calls           *)
(* finish_all_and_wait.                                                    *)
EndDispatch ==
  /\ dpc = "pop"
  /\ next \notin Positions
  /\ unvisited' = Keys
  /\ dpc' = "finish"
  /\ UNCHANGED <<log, workerVars, executors, num_running, last_query_of_conn,
                 next, entry>>

-----------------------------------------------------------------------------
(* finish_some_and_go, one step for each key the iterator visits.          *)

(* A mutant: num_running is not decremented.                               *)
TryJoinUncounted(c) ==
  /\ dpc = "sweep"
  /\ c \in unvisited
  /\ executors[c] = "thread"
  /\ JoinThread(c, "joined")
  /\ executors' = [executors EXCEPT ![c] = "absent"]
  /\ unvisited' = unvisited \ {c}
  /\ UNCHANGED <<log, num_running, last_query_of_conn, next, entry, dpc>>

(* nonblocking_join succeeds: the key is erased, the object not deleted.   *)
TryJoin(c) ==
  /\ dpc = "sweep"
  /\ c \in unvisited
  /\ executors[c] = "thread"
  /\ JoinThread(c, "joined")
  /\ executors' = [executors EXCEPT ![c] = "absent"]
  /\ num_running' = num_running - 1
  /\ unvisited' = unvisited \ {c}
  /\ UNCHANGED <<log, last_query_of_conn, next, entry, dpc>>

(* A mutant: the null pointer is erased too.                               *)
EraseNull(c) ==
  /\ dpc = "sweep"
  /\ c \in unvisited
  /\ executors[c] = "thread" => Running(c)
  /\ executors' = IF executors[c] = "null" THEN [executors EXCEPT ![c] = "absent"]
                                           ELSE executors
  /\ unvisited' = unvisited \ {c}
  /\ UNCHANGED <<log, workerVars, num_running, last_query_of_conn, next, entry, dpc>>

(* The null pointer, or a thread that is still running after 1ms.          *)
SkipJoin(c) ==
  /\ dpc = "sweep"
  /\ c \in unvisited
  /\ executors[c] = "thread" => Running(c)
  /\ unvisited' = unvisited \ {c}
  /\ UNCHANGED <<log, workerVars, executors, num_running, last_query_of_conn,
                 next, entry, dpc>>

EndSweep ==
  /\ dpc = "sweep"
  /\ unvisited = {}
  /\ dpc' = "admit"
  /\ UNCHANGED <<log, workerVars, executors, num_running, last_query_of_conn,
                 next, entry, unvisited>>

-----------------------------------------------------------------------------
(* finish_all_and_wait                                                     *)

(* A mutant: finish_all_and_wait waits 1ms for a thread, as the sweep does *)
JoinNonblocking(c) ==
  /\ dpc = "finish"
  /\ c \in unvisited
  /\ executors[c] = "thread"
  /\ \/ JoinThread(c, "deleted")
     \/ Running(c) /\ UNCHANGED workerVars
  /\ unvisited' = unvisited \ {c}
  /\ UNCHANGED <<log, executors, num_running, last_query_of_conn, next, entry,
                 dpc>>

(* join and delete; the key stays in the table with a dangling pointer.    *)
Join(c) ==
  /\ dpc = "finish"
  /\ c \in unvisited
  /\ executors[c] = "thread"
  /\ JoinThread(c, "deleted")
  /\ unvisited' = unvisited \ {c}
  /\ UNCHANGED <<log, executors, num_running, last_query_of_conn, next, entry,
                 dpc>>

Return ==
  /\ dpc = "finish"
  /\ unvisited = {}
  /\ dpc' = "returned"
  /\ UNCHANGED <<log, workerVars, executors, num_running, last_query_of_conn,
                 next, entry, unvisited>>

-----------------------------------------------------------------------------
Dispatcher ==
  \/ Dispatch \/ PopEntry \/ Sleep \/ Create \/ Push \/ EndDispatch
  \/ EndSweep \/ Return
  \/ \E c \in ThreadIds : TryJoin(c) \/ SkipJoin(c) \/ Join(c)

RunThread(w) == Run(w) /\ UNCHANGED <<log, dispatchVars>>

(* The playback is over; nothing is left to do.                            *)
Terminated == dpc = "returned" /\ UNCHANGED vars

Next == Dispatcher \/ (\E w \in Workers : RunThread(w)) \/ Terminated

(* Every thread is scheduled, and every query is eventually answered.      *)
Fairness == WF_vars(Dispatcher) /\ \A w \in Workers : WF_vars(RunThread(w))

SafeSpec == Init /\ [][Next]_vars
Spec     == SafeSpec /\ Fairness

-----------------------------------------------------------------------------
(* What the dispatcher promises.                                           *)

R == INSTANCE Replay WITH returned <- (dpc = "returned")

(* Every entry is performed once, in the order of its connection, and      *)
(* finish_all_and_wait returns only when there is none left: dispatch,     *)
(* DBThread::run and the shutdown marks together implement Replay.         *)
ImplementsReplay == R!SafeSpec

(* num_running counts the threads that the table has, through dispatch's   *)
(* increments and finish_some_and_go's decrements, and never exceeds the   *)
(* limit by more than the one of the test's ">".                           *)
NumRunningExact ==
  /\ num_running = Cardinality({c \in ThreadIds : executors[c] = "thread"})
  /\ num_running <= MaxRunning + 1

(* dispatch pushes only to a thread that will pop what it is given: the    *)
(* thread it holds a pointer to runs, and has no shutdown entry in its     *)
(* queue or in its hands (it would end its loop before the pushed entry).  *)
PushReachesThread ==
  dpc = "push" =>
    /\ executors[conn] = "thread"
    /\ thread[conn] \in {"pop", "perform"}
    /\ ~query[conn].shutdown
    /\ \A i \in DOMAIN queries[conn] : ~queries[conn][i].shutdown

(* The reference db_thread = executors[thread_id] that dispatch takes      *)
(* before the sweep still refers to a null element of the table after it:  *)
(* finish_some_and_go erases other elements only.                          *)
ReferenceValid ==
  dpc \in {"admit", "sweep"} => executors[conn] = "null"

(* When finish_all_and_wait has returned every thread ever started has     *)
(* ended with its queue drained and its connection closed, whether it was  *)
(* joined by a sweep or at the end.                                        *)
NothingLeftRunning ==
  dpc = "returned" =>
    \A w \in Workers : /\ thread[w] \in {"none", "joined", "deleted"}
                       /\ queries[w] = << >>
                       /\ ~connected[w]

(* A thread that a sweep joined is never started again, nor a deleted one  *)
(* used: an id that leaves the table does not come back to it.             *)
JoinedForGood ==
  [][\A w \in Workers :
       thread[w] \in {"joined", "deleted"} => thread'[w] = thread[w]]_vars

(* The connections whose entries surround position e.                      *)
OpenAt(e) ==
  {c \in ThreadIds : /\ \E d \in Positions : d < e /\ getThreadId(d) = c
                     /\ \E d \in Positions : d > e /\ getThreadId(d) = c}

(* Never more connections open at once than dispatch lets run when it      *)
(* starts the thread of a new one.                                         *)
EnoughThreads ==
  \A e \in Positions :
    (\A d \in R!Earlier(e) : FALSE) => Cardinality(OpenAt(e)) <= MaxRunning

(* The playback terminates, whatever the depth of the queues, when the log *)
(* never has more than MaxRunning connections open at the first query of   *)
(* another.                                                                *)
Termination == EnoughThreads => <>(dpc = "returned")

(* And only then: the comment in dispatch says it is "possible to get      *)
(* stuck here forever" with that many open connections, and it always is.  *)
StuckOtherwise == ~EnoughThreads => [](dpc # "returned")

(* known_issues.rst: on a quit percona-playback "closes the MySQL          *)
(* connection and terminates the thread".                                  *)
QuitClosesConnection ==
  [][\A w \in Workers : Quit(w) => ~connected'[w]]_vars
=============================================================================
