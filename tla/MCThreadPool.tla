---------------------------- MODULE MCThreadPool ----------------------------
(***************************************************************************)
(* ThreadPool on every log of at most MaxLog entries; the first two of     *)
(* three connections share a worker, as hashes collide.  The inductive      *)
(* invariant of the proofs is one of the invariants to check.              *)
(***************************************************************************)
EXTENDS ThreadPoolProofs

CONSTANTS c1, c2, c3, MaxLog, QuitIds

MCWorkers == 0 .. threads_count - 1

MCWorkerOf ==
  [c \in ThreadIds |-> IF c = c3 THEN threads_count - 1 ELSE 0]

MCEntries == [thread_id : ThreadIds, quit : {FALSE}]
               \cup [thread_id : QuitIds, quit : {TRUE}]

MCLogs == UNION {[1 .. n -> MCEntries] : n \in 0 .. MaxLog}
=============================================================================
