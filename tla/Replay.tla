------------------------------- MODULE Replay -------------------------------
(***************************************************************************)
(* What a dispatcher promises, whatever threads and queues it uses: every  *)
(* entry of the log is performed exactly once, the entries of one          *)
(* connection in the order of the log, and the dispatcher returns to the   *)
(* input plugin (which then unmaps the log, and the reports are printed)   *)
(* only when there is nothing left to perform.  Entries of different       *)
(* connections are performed in any order: "this order will not be         *)
(* guaranteed" (docs/source/known_issues.rst).                             *)
(***************************************************************************)
EXTENDS QueryEntry

VARIABLES
  performed,  (* how many times each entry of the log has been performed   *)
  returned    (* has finish_all_and_wait returned?                         *)

replayVars == <<log, performed, returned>>

Earlier(e) == {d \in 1 .. e - 1 : getThreadId(d) = getThreadId(e)}

Init ==
  /\ log \in Logs
  /\ performed = [e \in Positions |-> 0]
  /\ returned = FALSE

Perform(e) ==
  /\ ~returned
  /\ performed[e] = 0
  /\ \A d \in Earlier(e) : performed[d] = 1
  /\ performed' = [performed EXCEPT ![e] = 1]
  /\ UNCHANGED <<log, returned>>

Return ==
  /\ \A e \in Positions : performed[e] = 1
  /\ returned' = TRUE
  /\ UNCHANGED <<log, performed>>

Next == (\E e \in Positions : Perform(e)) \/ Return

SafeSpec == Init /\ [][Next]_replayVars
Spec     == SafeSpec /\ WF_replayVars(Next)
=============================================================================
