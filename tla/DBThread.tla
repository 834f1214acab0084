------------------------------ MODULE DBThread ------------------------------
(***************************************************************************)
(* The database threads (percona_playback/db_thread.h, db_thread.cc): each *)
(* owns a bounded queue of entries that a dispatcher fills, and runs a     *)
(* loop that pops an entry, performs it and stops after an entry marked as *)
(* shutdown.                                                               *)
(*                                                                         *)
(* The database client is the virtual interface of DBThread.  All that     *)
(* matters of it here is whether the thread holds a connection to the      *)
(* server: execute_query connects on demand and reconnects after an error, *)
(* so that it may leave the thread connected or not (MySQLClient has the   *)
(* details).                                                               *)
(***************************************************************************)
EXTENDS QueryEntry

CONSTANTS
  Workers,    (* the DBThread objects, named by the argument of create()   *)
  QueueDepth  (* --queue-depth, the capacity of each queue                 *)

ASSUME QueueDepthAssumption == QueueDepth \in Nat \ {0}

VARIABLES
  queries,    (* the queue of each thread                                  *)
  thread,     (* where each thread is: see ThreadStates                    *)
  query,      (* the entry each thread has popped and not finished with    *)
  connected,  (* does the thread hold a connection to the server?          *)
  performed   (* how many times each entry of the log has been performed   *)

workerVars == <<queries, thread, query, connected, performed>>

(***************************************************************************)
(* "none": not created; "pop": blocked in, or about to call, queries->pop; *)
(* "perform": holds an entry; "leave": its loop has ended; "exited": run   *)
(* has returned; "joined": a join has seen that; "deleted": joined and     *)
(* deleted.                                                                *)
(***************************************************************************)
ThreadStates ==
  {"none", "pop", "perform", "leave", "exited", "joined", "deleted"}

WorkerTypeOK ==
  /\ queries \in [Workers -> Seq(Entries)]
  /\ thread \in [Workers -> ThreadStates]
  /\ query \in [Workers -> Entries]
  /\ connected \in [Workers -> BOOLEAN]
  /\ performed \in [Positions -> Nat]

WorkerInit ==
  /\ queries = [w \in Workers |-> << >>]
  /\ thread = [w \in Workers |-> "none"]
  /\ query = [w \in Workers |-> NoEntry]
  /\ connected = [w \in Workers |-> FALSE]
  /\ performed = [e \in Positions |-> 0]

-----------------------------------------------------------------------------
(* Operations of a dispatcher on a thread.                                 *)

(* DBClientPlugin::create followed by start_thread.                        *)
StartThread(w) ==
  /\ queries' = [queries EXCEPT ![w] = << >>]
  /\ thread' = [thread EXCEPT ![w] = "pop"]
  /\ query' = [query EXCEPT ![w] = NoEntry]
  /\ connected' = [connected EXCEPT ![w] = FALSE]
  /\ UNCHANGED performed

(* queries->push, which blocks while the queue is at its capacity.  A      *)
(* mutant: the entry goes before those that wait.                          *)
PushQueryFirst(w, entry) ==
  /\ Len(queries[w]) < QueueDepth
  /\ queries' = [queries EXCEPT ![w] = <<entry>> \o @]
  /\ UNCHANGED <<thread, query, connected, performed>>

PushQuery(w, entry) ==
  /\ Len(queries[w]) < QueueDepth
  /\ queries' = [queries EXCEPT ![w] = Append(@, entry)]
  /\ UNCHANGED <<thread, query, connected, performed>>

(* join, when it returns: the thread has finished.                         *)
JoinThread(w, state) ==
  /\ thread[w] = "exited"
  /\ thread' = [thread EXCEPT ![w] = state]
  /\ UNCHANGED <<queries, query, connected, performed>>

-----------------------------------------------------------------------------
(* DBThread::run.                                                          *)

Pop(w) ==
  /\ thread[w] = "pop"
  /\ queries[w] # << >>
  /\ query' = [query EXCEPT ![w] = Head(queries[w])]
  /\ queries' = [queries EXCEPT ![w] = Tail(@)]
  /\ thread' = [thread EXCEPT ![w] = "perform"]
  /\ UNCHANGED <<connected, performed>>

(* Mutants: a thread also ends after a quit, or when its queue is empty.   *)
LeaveOnQuit(w) ==
  /\ thread' = [thread EXCEPT ![w] =
       IF query[w].shutdown \/ is_quit(query[w]) THEN "leave" ELSE "pop"]
  /\ query' = [query EXCEPT ![w] = NoEntry]

LeaveOnEmpty(w) ==
  /\ thread' = [thread EXCEPT ![w] =
       IF query[w].shutdown \/ queries[w] = << >> THEN "leave" ELSE "pop"]
  /\ query' = [query EXCEPT ![w] = NoEntry]

(* The loop's condition, which the continue of the quit branch meets too.  *)
LoopOrLeave(w) ==
  /\ thread' = [thread EXCEPT ![w] = IF query[w].shutdown THEN "leave" ELSE "pop"]
  /\ query' = [query EXCEPT ![w] = NoEntry]

(* A quit: disconnect and at once connect_and_init_session, which may fail.*)
Quit(w) ==
  /\ thread[w] = "perform"
  /\ is_quit(query[w])
  /\ \E ok \in BOOLEAN : connected' = [connected EXCEPT ![w] = ok]
  /\ performed' = [performed EXCEPT ![query[w].pos] = @ + 1]
  /\ LoopOrLeave(w)
  /\ UNCHANGED queries

(* query->execute: runs the query and reports it.                          *)
Execute(w) ==
  /\ thread[w] = "perform"
  /\ ~is_quit(query[w])
  /\ query[w].pos # 0
  /\ \E ok \in BOOLEAN : connected' = [connected EXCEPT ![w] = ok]
  /\ performed' = [performed EXCEPT ![query[w].pos] = @ + 1]
  /\ LoopOrLeave(w)
  /\ UNCHANGED queries

(* FinishEntry::execute does nothing.                                      *)
ExecuteFinish(w) ==
  /\ thread[w] = "perform"
  /\ query[w].pos = 0
  /\ LoopOrLeave(w)
  /\ UNCHANGED <<queries, connected, performed>>

(* The disconnect after the loop, and the end of the thread.               *)
Leave(w) ==
  /\ thread[w] = "leave"
  /\ connected' = [connected EXCEPT ![w] = FALSE]
  /\ thread' = [thread EXCEPT ![w] = "exited"]
  /\ UNCHANGED <<queries, query, performed>>

Run(w) == Pop(w) \/ Quit(w) \/ Execute(w) \/ ExecuteFinish(w) \/ Leave(w)

-----------------------------------------------------------------------------
Running(w) == thread[w] \in {"pop", "perform", "leave"}
=============================================================================
