---------------------------- MODULE MCGeneralLog ----------------------------
(***************************************************************************)
(* GeneralLog on every log of at most MaxLines of the lines below, in any  *)
(* order, with or without a newline at its end.                            *)
(***************************************************************************)
EXTENDS GeneralLogProofs

CONSTANT MaxLines

L(ignored, query, id) == [ignored |-> ignored, query |-> query, id |-> id, newline |-> TRUE]

(* Queries of two connections, another line, a banner, and a comment in a  *)
(* query that looks like the line of one.                                  *)
Kinds ==
  {L(FALSE, TRUE, 1), L(FALSE, TRUE, 2), L(FALSE, FALSE, 0), L(TRUE, FALSE, 0), L(TRUE, TRUE, 3)}

MCTexts ==
  UNION {LET texts == [1 .. n -> Kinds]
         IN  texts \cup {[t EXCEPT ![n].newline = FALSE] : t \in IF n = 0 THEN {} ELSE texts} :
         n \in 0 .. MaxLines}
=============================================================================
