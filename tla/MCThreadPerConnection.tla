------------------------ MODULE MCThreadPerConnection ------------------------
(***************************************************************************)
(* ThreadPerConnection on every log of at most MaxLog entries, and on some *)
(* of one entry more, in which the third connection starts while the other *)
(* two are or are not open.  The inductive invariant of its proofs is one  *)
(* of the invariants to check.                                             *)
(***************************************************************************)
EXTENDS ThreadPerConnectionProofs

CONSTANTS c1, c2, c3, MaxLog, QuitIds

Queries == [thread_id : ThreadIds, quit : {FALSE}]
Quits   == [thread_id : QuitIds, quit : {TRUE}]

Q(c) == [thread_id |-> c, quit |-> FALSE]

MCLogs ==
  UNION {[1 .. n -> Queries \cup Quits] : n \in 0 .. MaxLog}
    \cup {<<Q(c1), Q(c2), Q(c3), d, e>> : d, e \in Queries}
=============================================================================
