--------------------------- MODULE DBThreadProofs ---------------------------
(***************************************************************************)
(* Lemmas on the database threads, for the proofs about the dispatchers    *)
(* that use them.                                                          *)
(***************************************************************************)
EXTENDS DBThread, WellFoundedInduction, TLAPS

(* The two entries without a position are entries.                         *)
LEMMA EntriesType ==
  NoEntry \in Entries /\ FinishEntry \in Entries
BY DEF NoEntry, FinishEntry, Entries

(* Updating a function with a value of its range keeps its type.           *)
LEMMA ExceptType ==
  ASSUME NEW S, NEW T, NEW f \in [S -> T], NEW x, NEW y, x \in S => y \in T
  PROVE  [f EXCEPT ![x] = y] \in [S -> T]
OBVIOUS

(* The elements of a sequence over S are in S.                             *)
LEMMA SeqElement ==
  ASSUME NEW S, NEW s \in Seq(S), NEW k \in 1 .. Len(s)
  PROVE  s[k] \in S
OBVIOUS

(* An element put in front of a sequence.                                  *)
LEMMA Cons ==
  ASSUME NEW S, NEW x \in S, NEW s \in Seq(S)
  PROVE  /\ <<x>> \o s \in Seq(S)
         /\ Len(<<x>> \o s) = Len(s) + 1
         /\ (<<x>> \o s)[1] = x
         /\ \A k \in 1 .. Len(s) : (<<x>> \o s)[k + 1] = s[k]
OBVIOUS

(* A sequence that is not empty is its head in front of its tail.          *)
LEMMA HeadTail ==
  ASSUME NEW S, NEW s \in Seq(S), s # << >>
  PROVE  /\ Head(s) \in S /\ Tail(s) \in Seq(S)
         /\ s = <<Head(s)>> \o Tail(s)
<1>1. Head(s) \in S /\ Tail(s) \in Seq(S)
  OBVIOUS
<1>2. <<Head(s)>> \o Tail(s) = s
  OBVIOUS
<1> QED
  BY <1>1, <1>2

(* The log never changes, nor what is computed from it.                    *)
LEMMA LogFixed ==
  ASSUME log' = log
  PROVE  /\ Positions' = Positions
         /\ LastQueries' = LastQueries
BY DEF Positions, LastQueries, getThreadId

(* Positions are the integers from 1 to the length of the log, and each is *)
(* one of some connection.                                                 *)
LEMMA LogPositions ==
  ASSUME log \in Logs
  PROVE  /\ Len(log) \in Nat
         /\ Positions = 1 .. Len(log)
         /\ \A e \in Positions : getThreadId(e) \in ThreadIds
<1>1. log \in Seq([thread_id : ThreadIds, quit : BOOLEAN])
  BY LogsAssumption
<1>2. Len(log) \in Nat /\ Positions = 1 .. Len(log)
  BY <1>1 DEF Positions
<1>3. ASSUME NEW e \in Positions PROVE getThreadId(e) \in ThreadIds
  <2>1. log[e] \in [thread_id : ThreadIds, quit : BOOLEAN]
    BY <1>1, <1>2, SeqElement
  <2> QED
    BY <2>1 DEF getThreadId
<1> QED
  BY <1>2, <1>3

-----------------------------------------------------------------------------
(* Type correctness.                                                       *)

(* Threads that do not exist yet are well-typed.                           *)
LEMMA WorkerInitType ==
  ASSUME WorkerInit
  PROVE  WorkerTypeOK
BY EntriesType DEF WorkerInit, WorkerTypeOK, ThreadStates

(* So is a thread that a dispatcher starts,                                *)
LEMMA StartThreadType ==
  ASSUME WorkerTypeOK, log' = log, NEW w, StartThread(w)
  PROVE  WorkerTypeOK'
<1> USE DEF WorkerTypeOK, StartThread
<1>1. queries' \in [Workers -> Seq(Entries)]
  <2>1. << >> \in Seq(Entries)
    OBVIOUS
  <2> QED
    BY <2>1, ExceptType
<1>2. thread' \in [Workers -> ThreadStates]
  BY DEF ThreadStates
<1>3. query' \in [Workers -> Entries]
  BY EntriesType, ExceptType
<1>4. connected' \in [Workers -> BOOLEAN]
  OBVIOUS
<1> QED
  BY <1>1, <1>2, <1>3, <1>4, LogFixed

(* pushes an entry to,                                                     *)
LEMMA PushQueryType ==
  ASSUME WorkerTypeOK, log' = log, NEW w, NEW e \in Entries, PushQuery(w, e)
  PROVE  WorkerTypeOK'
<1> USE DEF WorkerTypeOK, PushQuery
<1>1. w \in Workers => Append(queries[w], e) \in Seq(Entries)
  OBVIOUS
<1>2. queries' \in [Workers -> Seq(Entries)]
  BY <1>1, ExceptType
<1> QED
  BY <1>2, LogFixed

(* or joins.                                                               *)
LEMMA JoinThreadType ==
  ASSUME WorkerTypeOK, log' = log, NEW w, NEW s \in ThreadStates, JoinThread(w, s)
  PROVE  WorkerTypeOK'
BY LogFixed DEF WorkerTypeOK, JoinThread

(* A step that performs an entry keeps the types.                          *)
LEMMA PerformType ==
  ASSUME WorkerTypeOK, NEW w \in Workers, Quit(w) \/ Execute(w)
  PROVE  /\ connected' \in [Workers -> BOOLEAN]
         /\ performed' \in [Positions -> Nat]
         /\ thread' \in [Workers -> ThreadStates]
         /\ query' \in [Workers -> Entries]
         /\ queries' = queries
<1> USE DEF WorkerTypeOK, Quit, Execute, LoopOrLeave
<1>1. PICK ok \in BOOLEAN : connected' = [connected EXCEPT ![w] = ok]
  OBVIOUS
<1>2. performed' = [performed EXCEPT ![query[w].pos] = performed[query[w].pos] + 1]
  OBVIOUS
<1>3. query[w].pos \in Positions => performed[query[w].pos] + 1 \in Nat
  OBVIOUS
<1>4. performed' \in [Positions -> Nat]
  <2>1. performed \in [Positions -> Nat]
    OBVIOUS
  <2> HIDE DEF WorkerTypeOK, Quit, Execute
  <2> QED
    BY <1>2, <1>3, <2>1, ExceptType
<1>5. connected' \in [Workers -> BOOLEAN]
  BY <1>1
<1>6. thread' \in [Workers -> ThreadStates]
  BY DEF ThreadStates
<1>7. query' \in [Workers -> Entries]
  BY EntriesType
<1> QED
  BY <1>4, <1>5, <1>6, <1>7

(* A step of a database thread keeps the types of its state.               *)
LEMMA RunType ==
  ASSUME WorkerTypeOK, log' = log, NEW w \in Workers, Run(w)
  PROVE  WorkerTypeOK'
<1> USE LogFixed DEF WorkerTypeOK
<1>1. CASE Pop(w)
  <2>1. Head(queries[w]) \in Entries /\ Tail(queries[w]) \in Seq(Entries)
    BY <1>1, HeadTail DEF Pop
  <2> QED
    BY <1>1, <2>1 DEF Pop, ThreadStates
<1>2. CASE Quit(w)
  BY <1>2, PerformType
<1>3. CASE Execute(w)
  BY <1>3, PerformType
<1>4. CASE ExecuteFinish(w)
  BY <1>4, EntriesType DEF ExecuteFinish, LoopOrLeave, ThreadStates
<1>5. CASE Leave(w)
  BY <1>5 DEF Leave, ThreadStates
<1> QED
  BY <1>1, <1>2, <1>3, <1>4, <1>5 DEF Run

-----------------------------------------------------------------------------
(* A set of natural numbers has a least one, if it has any.                *)
LEMMA LeastNumber ==
  ASSUME NEW N, N \subseteq Nat, N # {}
  PROVE  \E n \in N : \A m \in N : n <= m
<1>1. PICK n \in N : \A m \in N : <<m, n>> \notin OpToRel(<, Nat)
  BY NatLessThanWellFounded, WFMin
<1>2. \A m \in N : ~ m < n
  BY <1>1 DEF OpToRel
<1> QED
  BY <1>2

(* A connection that has a query has a last one.                           *)
LEMMA LastQuery ==
  ASSUME log \in Logs, NEW d \in Positions
  PROVE  \E e \in LastQueries : getThreadId(e) = getThreadId(d)
<1> DEFINE later == {e \in Positions : getThreadId(e) = getThreadId(d)}
           left  == {Len(log) - e : e \in later}
<1>1. Len(log) \in Nat /\ Positions = 1 .. Len(log)
  BY LogPositions
<1>2. left \subseteq Nat /\ left # {}
  BY <1>1
<1>3. PICK n \in left : \A m \in left : n <= m
  <2> HIDE DEF left
  <2> QED
    BY <1>2, LeastNumber
<1>4. PICK e \in later : n = Len(log) - e
  BY <1>3
<1>5. ASSUME NEW f \in later PROVE f <= e
  <2>1. n <= Len(log) - f
    BY <1>3, <1>5
  <2> QED
    BY <1>1, <1>4, <2>1
<1>6. \A f \in Positions : f > e => f \notin later
  BY <1>1, <1>4, <1>5
<1> QED
  BY <1>4, <1>6 DEF LastQueries

=============================================================================
