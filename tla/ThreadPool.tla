----------------------------- MODULE ThreadPool -----------------------------
(***************************************************************************)
(* The thread-pool dispatcher                                              *)
(* (percona_playback/thread_pool/thread_pool.cc), over the database        *)
(* threads.  run starts the workers before the input plugin reads the log; *)
(* dispatch pushes each entry to the worker that a hash of its thread id   *)
(* selects; finish_all_and_wait pushes one FinishEntry to each worker,     *)
(* then joins them.                                                        *)
(*                                                                         *)
(* Unlike thread-per-connection, dispatch marks no entry as the last of    *)
(* its connection: the FinishEntry alone ends a worker.                    *)
(***************************************************************************)
EXTENDS DBThread

CONSTANTS
  threads_count,  (* --thread-pool-threads-count                           *)
  WorkerOf        (* the crc32 of a thread id, modulo workers.size()       *)

(* With no worker, dispatch would divide by zero.                          *)
ASSUME ThreadsCountAssumption == threads_count \in Nat \ {0}

(* The workers are named by their index.                                   *)
ASSUME PoolWorkersAssumption == Workers = 0 .. threads_count - 1

ASSUME WorkerOfAssumption == WorkerOf \in [ThreadIds -> Workers]

VARIABLES
  workers,  (* how many of the threads are in the vector: 0 .. workers - 1 *)
  next,     (* the position of the first entry not yet popped              *)
  entry,    (* the entry dispatch holds                                    *)
  i,        (* the iterator of the loops over the workers                  *)
  dpc       (* where the dispatcher is                                     *)

dispatchVars == <<workers, next, entry, i, dpc>>
vars == <<log, workerVars, dispatchVars>>

TypeOK ==
  /\ log \in Logs
  /\ WorkerTypeOK
  /\ workers \in 0 .. threads_count
  /\ next \in 1 .. Len(log) + 1
  /\ entry \in Entries
  /\ i \in 0 .. threads_count
  /\ dpc \in {"run", "pop", "push", "finish", "join", "returned"}

Init ==
  /\ log \in Logs
  /\ WorkerInit
  /\ workers = 0
  /\ next = 1
  /\ entry = NoEntry
  /\ i = 0
  /\ dpc = "run"

-----------------------------------------------------------------------------
(* A mutant: one thread more than asked for is started.                    *)
StartOneMore ==
  /\ dpc = "run"
  /\ i <= threads_count
  /\ StartThread(i)
  /\ workers' = workers + 1
  /\ i' = i + 1
  /\ UNCHANGED <<log, next, entry, dpc>>

(* run: the loop's body, then its end.                                     *)
StartWorker ==
  /\ dpc = "run"
  /\ i < threads_count
  /\ StartThread(i)
  /\ workers' = workers + 1
  /\ i' = i + 1
  /\ UNCHANGED <<log, next, entry, dpc>>

EndRun ==
  /\ dpc = "run"
  /\ i = threads_count
  /\ dpc' = "pop"
  /\ UNCHANGED <<log, workerVars, workers, next, entry, i>>

-----------------------------------------------------------------------------
(* dispatch                                                                *)

(* A mutant: the pool marks the last query of each connection too.         *)
PopMarkedEntry ==
  /\ dpc = "pop"
  /\ next \in Positions
  /\ entry' = [pos |-> next, shutdown |-> next \in LastQueries]
  /\ next' = next + 1
  /\ dpc' = "push"
  /\ UNCHANGED <<log, workerVars, workers, i>>

PopEntry ==
  /\ dpc = "pop"
  /\ next \in Positions
  /\ entry' = [pos |-> next, shutdown |-> FALSE]
  /\ next' = next + 1
  /\ dpc' = "push"
  /\ UNCHANGED <<log, workerVars, workers, i>>

(* A mutant: the workers take turns.                                       *)
PushRoundRobin ==
  /\ dpc = "push"
  /\ PushQuery(entry.pos % workers, entry)
  /\ entry' = NoEntry
  /\ dpc' = "pop"
  /\ UNCHANGED <<log, workers, next, i>>

Push ==
  /\ dpc = "push"
  /\ PushQuery(WorkerOf[getThreadId(entry.pos)], entry)
  /\ entry' = NoEntry
  /\ dpc' = "pop"
  /\ UNCHANGED <<log, workers, next, i>>

(* A mutant: the workers are joined without being told to finish.          *)
EndDispatchJoin ==
  /\ dpc = "pop"
  /\ next \notin Positions
  /\ i' = 0
  /\ dpc' = "join"
  /\ UNCHANGED <<log, workerVars, workers, next, entry>>

EndDispatch ==
  /\ dpc = "pop"
  /\ next \notin Positions
  /\ i' = 0
  /\ dpc' = "finish"
  /\ UNCHANGED <<log, workerVars, workers, next, entry>>

-----------------------------------------------------------------------------
(* finish_all_and_wait                                                     *)

PushFinish ==
  /\ dpc = "finish"
  /\ i < workers
  /\ PushQuery(i, FinishEntry)
  /\ i' = i + 1
  /\ UNCHANGED <<log, workers, next, entry, dpc>>

(* A mutant: the iterator is not reset, so that nothing is joined.         *)
EndPushFinishNoReset ==
  /\ dpc = "finish"
  /\ i = workers
  /\ dpc' = "join"
  /\ UNCHANGED <<log, workerVars, workers, next, entry, i>>

EndPushFinish ==
  /\ dpc = "finish"
  /\ i = workers
  /\ i' = 0
  /\ dpc' = "join"
  /\ UNCHANGED <<log, workerVars, workers, next, entry>>

Join ==
  /\ dpc = "join"
  /\ i < workers
  /\ JoinThread(i, "joined")
  /\ i' = i + 1
  /\ UNCHANGED <<log, workers, next, entry, dpc>>

(* workers.clear() drops the last reference to each thread, and deletes it *)
Clear ==
  /\ dpc = "join"
  /\ i = workers
  /\ thread' = [w \in Workers |-> IF w < workers THEN "deleted" ELSE thread[w]]
  /\ workers' = 0
  /\ dpc' = "returned"
  /\ UNCHANGED <<log, queries, query, connected, performed, next, entry, i>>

-----------------------------------------------------------------------------
Dispatcher ==
  \/ StartWorker \/ EndRun
  \/ PopEntry \/ Push \/ EndDispatch
  \/ PushFinish \/ EndPushFinish \/ Join \/ Clear

RunThread(w) == Run(w) /\ UNCHANGED <<log, dispatchVars>>

(* The playback is over; nothing is left to do.                            *)
Terminated == dpc = "returned" /\ UNCHANGED vars

Next == Dispatcher \/ (\E w \in Workers : RunThread(w)) \/ Terminated

(* Every thread is scheduled, and every query is eventually answered.      *)
Fairness == WF_vars(Dispatcher) /\ \A w \in Workers : WF_vars(RunThread(w))

SafeSpec == Init /\ [][Next]_vars
Spec     == SafeSpec /\ Fairness

-----------------------------------------------------------------------------
R == INSTANCE Replay WITH returned <- (dpc = "returned")

(* The hash, the FIFO queues and the FinishEntry pushed behind everything  *)
(* else keep the same promise as thread-per-connection: every entry is     *)
(* performed once, in the order of its connection, before                  *)
(* finish_all_and_wait returns.                                            *)
ImplementsReplay == R!SafeSpec

(* finish_all_and_wait does return, however long the log and shallow the   *)
(* queues: a push that blocks waits for a worker that is never waiting.    *)
Termination == <>(dpc = "returned")

(* A pushed entry is never lost behind the FinishEntry: what a worker has  *)
(* in hand and in its queue has its shutdown entry at the very end, and    *)
(* once it has left its loop, nothing comes after.                         *)
NothingBehindFinish ==
  \A w \in Workers :
    /\ query[w].shutdown => queries[w] = << >>
    /\ \A k \in DOMAIN queries[w] :
         queries[w][k].shutdown => k = Len(queries[w])
    /\ thread[w] \in {"leave", "exited", "joined", "deleted"} => queries[w] = << >>

(* "query entries with the same thread id by the same worker", and in the  *)
(* order of the log over all the connections that share the worker: the    *)
(* entries a worker has in hand or queued are in that order, after every   *)
(* entry of its connections that was performed.                            *)
WorkerInLogOrder ==
  \A w \in Workers :
    LET held == (IF query[w].pos = 0 THEN << >> ELSE <<query[w]>>) \o queries[w]
        its  == {e \in Positions : WorkerOf[getThreadId(e)] = w}
    IN  \A k \in DOMAIN held : held[k].pos # 0 =>
          /\ held[k].pos \in its
          /\ \A m \in 1 .. k - 1 : held[m].pos < held[k].pos
          /\ \A e \in its : e >= held[k].pos => performed[e] = 0

(* When finish_all_and_wait has returned, every worker has ended with its  *)
(* queue drained and its connection closed, before it is deleted.          *)
NothingLeftRunning ==
  dpc = "returned" =>
    \A w \in Workers : /\ thread[w] = "deleted"
                       /\ queries[w] = << >>
                       /\ ~connected[w]
=============================================================================
