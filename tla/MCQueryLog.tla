----------------------------- MODULE MCQueryLog -----------------------------
(***************************************************************************)
(* QueryLog on every log made of at most MaxParts of the parts below, in   *)
(* any order.                                                              *)
(***************************************************************************)
EXTENDS QueryLogProofs, SequencesExt

CONSTANT MaxParts

L(kind, id, val) == [kind |-> kind, id |-> id, val |-> val]

Plain(kind) == L(kind, Absent, Absent)

Query(id, time) == <<Plain("user"), L("meta", id, time), Plain("sql")>>
NewQuery(id) ==
  <<L("user", id, Absent), L("meta", Absent, 1), Plain("set"), Plain("sql")>>
Time(t) == <<L("time", Absent, t)>>

Parts ==
  {Query(1, 0), Query(0, 2), NewQuery(1), Time(Absent), Time(1), Time(2),
   (* commands, with and without the SET timestamp that the server writes  *)
   <<L("user", 2, Absent), Plain("set"), Plain("quit")>>,
   <<L("user", 1, Absent), Plain("quit")>>,
   <<L("user", 1, Absent), Plain("set"), Plain("admin")>>,
   (* a log that starts in the middle of an entry; in a block, a query     *)
   (* that has such lines as well                                          *)
   <<L("meta", 1, 1), Plain("sql")>>,
   <<Plain("sql")>>,
   (* the server is restarted                                              *)
   <<Plain("banner")>>}

MCTexts ==
  {FlattenSeq(parts) : parts \in UNION {[1 .. n -> Parts] : n \in 0 .. MaxParts}}
=============================================================================
