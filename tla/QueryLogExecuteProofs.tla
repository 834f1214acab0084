------------------------ MODULE QueryLogExecuteProofs ------------------------
(***************************************************************************)
(* Theorems about QueryLogExecute, for any threads, with any queries, and  *)
(* with any options.                                                       *)
(***************************************************************************)
EXTENDS QueryLogExecute, FiniteSetTheorems, WellFoundedInduction, TLAPS

-----------------------------------------------------------------------------
(* The inductive invariant: what the clock, the offset and the maximal     *)
(* delay are to the locals of a thread at each point of execute, and what  *)
(* the counters of the reports are to each other and to what has been      *)
(* reported.                                                               *)

(* The static variable has one value at most, and it is there from the     *)
(* moment that a thread measures its delay.                                *)
OffsetInv ==
  /\ \A m, n \in first_query_exec_offset : m = n
  /\ \A w \in Threads :
       \/ pc[w] \in {"measure", "cas", "sleep"}
       \/ pc[w] = "send" /\ g_accurate_mode
       => g_accurate_mode /\ first_query_exec_offset # {}

(* The delay in the atomic variable covers that of every thread which is   *)
(* not about to update it, and any value that a thread has read of it.     *)
DelayInvOf(w) ==
  /\ pc[w] \in {"pop", "measure"} => time_diff[w] = 0
  /\ pc[w] # "cas" => g_max_behind_ns >= -time_diff[w]
  /\ pc[w] = "cas" => current_val[w] <= g_max_behind_ns

(* A thread that has measured its delay, and one that sleeps, will not     *)
(* wake up before its query is due; nor has one been sent before.          *)
DueInvOf(w) ==
  /\ pc[w] = "cas" => now + time_diff[w] >= DueTime(w)
  /\ pc[w] = "sleep" => wake[w] >= DueTime(w)
  /\ pc[w] = "send" /\ g_accurate_mode => start[w] >= DueTime(w)

(* A thread with the answer sleeps until the query has taken its time, if  *)
(* usleep can count that far.                                              *)
SleepInvOf(w) ==
  /\ pc[w] # "pop" => ~Finished(w)
  /\ pc[w] \in {"send", "preserve"} => start[w] <= now
  /\ pc[w] = "preserve" => start[w] <= end[w] /\ end[w] <= now
  /\ pc[w] = "preserve" /\ g_preserve_query_time /\ Countable(w) =>
       wake[w] >= start[w] + query(w).query_time

ThreadInvOf(w) == DelayInvOf(w) /\ DueInvOf(w) /\ SleepInvOf(w)
ThreadInv      == \A w \in Threads : ThreadInvOf(w)

StateInv == TypeOK /\ OffsetInv /\ ThreadInv

(* What the reports show agrees at any time.  While all queries have been  *)
(* quicker, each has taken less time than in the log, be it one unit.      *)
QuickerInv ==
  LET r == simple_report
  IN  "simple_report" \in config.active =>
        /\ r.nr_quicker_queries <= r.nr_queries_executed
        /\ r.nr_quicker_queries = r.nr_queries_executed =>
             r.total_execution_time + r.nr_queries_executed <= r.expected_total_execution_time

ReportsInv == ReportsAgree /\ QuickerInv

IInv == StateInv /\ ReportsInv

-----------------------------------------------------------------------------
(* Sums *)

(* A set of subsets of a finite set has a minimal element, if it has any.  *)
LEMMA MinimalSubset ==
  ASSUME NEW S, IsFiniteSet(S), NEW F, F \subseteq SUBSET S, F # {}
  PROVE  \E s \in F : \A t \in F : t \subseteq s => t = s
<1>1. IsWellFoundedOn(StrictSubsetOrdering(S), SUBSET S)
  BY FS_StrictSubsetOrderingWellFounded, FS_FiniteSubsetsOfFinite
<1>2. PICK s \in F : \A t \in F : <<t, s>> \notin StrictSubsetOrdering(S)
  BY <1>1, WFMin
<1>3. \A t \in F : t \subseteq s => t = s
  BY <1>2 DEF StrictSubsetOrdering
<1> QED
  BY <1>3

(* So has a set of natural numbers.                                        *)
LEMMA LeastNumber ==
  ASSUME NEW N, N \subseteq Nat, N # {}
  PROVE  \E n \in N : \A m \in N : n <= m
<1>1. PICK n \in N : \A m \in N : <<m, n>> \notin OpToRel(<, Nat)
  BY NatLessThanWellFounded, WFMin
<1>2. \A m \in N : ~ m < n
  BY <1>1 DEF OpToRel
<1> QED
  BY <1>2

(* The function that MapThenFoldSet defines by recursion on the subsets of *)
(* S, for SumFunction: an element of the set is added to the sum of the    *)
(* rest.                                                                   *)
Element(s) == CHOOSE x \in s : TRUE

Summing(f, S, sums) ==
  sums = [s \in SUBSET S |->
            IF s = {} THEN 0 ELSE f[Element(s)] + sums[s \ {Element(s)}]]

Sums(f, S) == CHOOSE sums : Summing(f, S, sums)

LEMMA SumIs ==
  ASSUME NEW f
  PROVE  SumFunction(f) = Sums(f, DOMAIN f)[DOMAIN f]
BY DEF SumFunction, SumFunctionOnSet, FoldFunctionOnSet, MapThenFoldSet, Sums, Summing, Element

(* What the equation says of one set.                                      *)
LEMMA SummingOf ==
  ASSUME NEW f, NEW S, NEW sums, Summing(f, S, sums), NEW s \in SUBSET S
  PROVE  sums[s] = IF s = {} THEN 0 ELSE f[Element(s)] + sums[s \ {Element(s)}]
BY DEF Summing

LEMMA ElementOf ==
  ASSUME NEW s, s # {}
  PROVE  Element(s) \in s
BY DEF Element

(* There is such a function: with the right sums of the sets of n elements *)
(* there are those of the sets of n + 1; a least n without does not exist. *)
LEMMA SumsExist ==
  ASSUME NEW S, IsFiniteSet(S), NEW f \in [S -> Nat]
  PROVE  \E sums : Summing(f, S, sums)
<1> DEFINE Sum(sums, s) == IF s = {} THEN 0 ELSE f[Element(s)] + sums[s \ {Element(s)}]
           UpTo(n, sums) == \A s \in SUBSET S : Cardinality(s) <= n => sums[s] = Sum(sums, s)
           None == {n \in Nat : ~ \E sums \in [SUBSET S -> Nat] : UpTo(n, sums)}
<1>0. \A s \in SUBSET S : IsFiniteSet(s) /\ Cardinality(s) \in Nat
  BY FS_Subset, FS_CardinalityType
<1>1. 0 \notin None
  <2> DEFINE g == [s \in SUBSET S |-> 0]
  <2>1. \A s \in SUBSET S : Cardinality(s) <= 0 => s = {}
    BY <1>0, FS_EmptySet
  <2>2. UpTo(0, g)
    BY <2>1
  <2>3. g \in [SUBSET S -> Nat]
    OBVIOUS
  <2> QED
    BY <2>2, <2>3
<1>2. ASSUME NEW n \in Nat, NEW g \in [SUBSET S -> Nat], UpTo(n, g)
      PROVE  \E sums \in [SUBSET S -> Nat] : UpTo(n + 1, sums)
  <2> DEFINE h == [s \in SUBSET S |-> Sum(g, s)]
  <2>1. \A s \in SUBSET S : Sum(g, s) \in Nat
    BY ElementOf
  <2>2. h \in [SUBSET S -> Nat]
    BY <2>1
  <2>3. ASSUME NEW s \in SUBSET S, Cardinality(s) <= n + 1
        PROVE  h[s] = Sum(h, s)
    <3>1. CASE s = {}
      BY <3>1
    <3>2. CASE s # {}
      <4> DEFINE t == s \ {Element(s)}
      <4>1. t \in SUBSET S /\ Cardinality(t) <= n
        BY <1>0, <2>3, <3>2, ElementOf, FS_RemoveElement
      <4>2. h[t] = g[t]
        BY <1>2, <4>1
      <4> QED
        BY <3>2, <4>2
    <3> QED
      BY <3>1, <3>2
  <2>4. UpTo(n + 1, h)
    BY <2>3
  <2> QED
    BY <2>2, <2>4
<1>3. None = {}
  <2> SUFFICES ASSUME None # {} PROVE FALSE
    OBVIOUS
  <2> HIDE DEF UpTo
  <2>1. PICK n \in None : \A m \in None : n <= m
    <3>1. None \subseteq Nat
      OBVIOUS
    <3> HIDE DEF None
    <3> QED
      BY <3>1, LeastNumber
  <2>2. n # 0
    BY <1>1
  <2>3. n - 1 \in Nat /\ ~ n <= n - 1
    BY <2>2
  <2>4. n - 1 \notin None
    BY <2>1, <2>3
  <2>5. PICK g \in [SUBSET S -> Nat] : UpTo(n - 1, g)
    BY <2>3, <2>4
  <2>6. \E sums \in [SUBSET S -> Nat] : UpTo(n - 1 + 1, sums)
    BY <1>2, <2>3, <2>5
  <2>7. n - 1 + 1 = n
    OBVIOUS
  <2> QED
    BY <2>6, <2>7
<1>4. PICK g \in [SUBSET S -> Nat] : UpTo(Cardinality(S), g)
  BY <1>0, <1>3
<1>5. \A s \in SUBSET S : Cardinality(s) <= Cardinality(S)
  BY FS_Subset
<1>6. g = [s \in SUBSET S |-> Sum(g, s)]
  BY <1>4, <1>5
<1> QED
  BY <1>6 DEF Summing

(* So the sums of a function have the equation, and are natural numbers.   *)
LEMMA SumsOf ==
  ASSUME NEW S, IsFiniteSet(S), NEW f \in [S -> Nat]
  PROVE  \A s \in SUBSET S :
           /\ Sums(f, S)[s] \in Nat
           /\ Sums(f, S)[s] =
                IF s = {} THEN 0 ELSE f[Element(s)] + Sums(f, S)[s \ {Element(s)}]
<1> DEFINE g == Sums(f, S)
<1>1. Summing(f, S, g)
  BY SumsExist DEF Sums
<1> HIDE DEF g
<1> DEFINE F == {s \in SUBSET S : g[s] \notin Nat}
<1>2. F = {}
  <2> SUFFICES ASSUME F # {} PROVE FALSE
    OBVIOUS
  <2>1. PICK s \in F : \A t \in F : t \subseteq s => t = s
    <3>1. F \subseteq SUBSET S
      OBVIOUS
    <3> HIDE DEF F
    <3> QED
      BY <3>1, MinimalSubset
  <2>2. g[s] = IF s = {} THEN 0 ELSE f[Element(s)] + g[s \ {Element(s)}]
    BY <1>1, SummingOf
  <2>3. s # {}
    BY <2>2
  <2>4. Element(s) \in s /\ s \ {Element(s)} \notin F
    BY <2>1, <2>3, ElementOf
  <2> QED
    BY <2>2, <2>3, <2>4
<1>3. \A s \in SUBSET S : g[s] = IF s = {} THEN 0 ELSE f[Element(s)] + g[s \ {Element(s)}]
  <2> SUFFICES ASSUME NEW s \in SUBSET S
               PROVE  g[s] = IF s = {} THEN 0 ELSE f[Element(s)] + g[s \ {Element(s)}]
    OBVIOUS
  <2> QED
    BY <1>1, SummingOf
<1> QED
  BY <1>2, <1>3 DEF g

LEMMA SumType ==
  ASSUME NEW S, IsFiniteSet(S), NEW f \in [S -> Nat]
  PROVE  SumFunction(f) \in Nat
BY SumIs, SumsOf

(* Adding to one of the numbers adds as much to their sum.                 *)
LEMMA SumPlus ==
  ASSUME NEW S, IsFiniteSet(S), NEW f \in [S -> Nat], NEW k \in S, NEW n \in Nat,
         NEW g \in [S -> Nat]
  PROVE  (\A x \in S : g[x] = f[x] + (IF x = k THEN n ELSE 0)) =>
           SumFunction(g) = SumFunction(f) + n
<1> DEFINE a == Sums(f, S)
           b == Sums(g, S)
<1>1. /\ \A s \in SUBSET S : a[s] \in Nat
      /\ \A s \in SUBSET S :
           a[s] = IF s = {} THEN 0 ELSE f[Element(s)] + a[s \ {Element(s)}]
  BY SumsOf
<1>2. /\ \A s \in SUBSET S : b[s] \in Nat
      /\ \A s \in SUBSET S :
           b[s] = IF s = {} THEN 0 ELSE g[Element(s)] + b[s \ {Element(s)}]
  BY SumsOf
<1>3. SumFunction(f) = a[S] /\ SumFunction(g) = b[S]
  BY SumIs
<1> HIDE DEF a, b
<1> SUFFICES ASSUME \A x \in S : g[x] = f[x] + (IF x = k THEN n ELSE 0)
             PROVE  b[S] = a[S] + n
  BY <1>3
<1> DEFINE F == {s \in SUBSET S : b[s] # a[s] + (IF k \in s THEN n ELSE 0)}
<1>4. F = {}
  <2> SUFFICES ASSUME F # {} PROVE FALSE
    OBVIOUS
  <2>1. PICK s \in F : \A t \in F : t \subseteq s => t = s
    <3>1. F \subseteq SUBSET S
      OBVIOUS
    <3> HIDE DEF F
    <3> QED
      BY <3>1, MinimalSubset
  <2>a. a[s] = IF s = {} THEN 0 ELSE f[Element(s)] + a[s \ {Element(s)}]
    BY <1>1, <2>1
  <2>b. b[s] = IF s = {} THEN 0 ELSE g[Element(s)] + b[s \ {Element(s)}]
    BY <1>2, <2>1
  <2>2. s # {}
    BY <2>a, <2>b
  <2> DEFINE x == Element(s)
             t == s \ {x}
  <2>3. x \in s /\ x \in S /\ t \in SUBSET S /\ t \notin F
    BY <2>1, <2>2, ElementOf
  <2>4. b[t] = a[t] + (IF k \in t THEN n ELSE 0)
    BY <2>3
  <2>5. a[s] = f[x] + a[t] /\ b[s] = g[x] + b[t]
    BY <2>2, <2>a, <2>b
  <2>6. f[x] \in Nat /\ g[x] \in Nat /\ a[t] \in Nat /\ b[t] \in Nat
    BY <1>1, <1>2, <2>3
  <2>7. g[x] = f[x] + (IF x = k THEN n ELSE 0)
    BY <2>3
  <2> HIDE DEF x
  <2>8. b[s] = a[s] + (IF k \in s THEN n ELSE 0)
    BY <2>3, <2>4, <2>5, <2>6, <2>7
  <2> QED
    BY <2>1, <2>8
<1> QED
  BY <1>4

(* The sum of zeros is 0.                                                  *)
LEMMA SumZero ==
  ASSUME NEW S, IsFiniteSet(S)
  PROVE  SumFunction([x \in S |-> 0]) = 0
<1> DEFINE f == [x \in S |-> 0]
           a == Sums(f, S)
<1>0. f \in [S -> Nat] /\ DOMAIN f = S /\ \A x \in S : f[x] = 0
  OBVIOUS
<1> HIDE DEF f
<1>1. \A s \in SUBSET S :
        /\ a[s] \in Nat
        /\ a[s] = IF s = {} THEN 0 ELSE f[Element(s)] + a[s \ {Element(s)}]
  BY <1>0, SumsOf
<1>2. SumFunction(f) = a[S]
  BY <1>0, SumIs
<1> HIDE DEF a
<1> DEFINE F == {s \in SUBSET S : a[s] # 0}
<1>3. F = {}
  <2> SUFFICES ASSUME F # {} PROVE FALSE
    OBVIOUS
  <2>1. PICK s \in F : \A t \in F : t \subseteq s => t = s
    <3>1. F \subseteq SUBSET S
      OBVIOUS
    <3> HIDE DEF F
    <3> QED
      BY <3>1, MinimalSubset
  <2>2. a[s] = IF s = {} THEN 0 ELSE f[Element(s)] + a[s \ {Element(s)}]
    BY <1>1, <2>1
  <2>3. s # {}
    BY <2>2
  <2>4. Element(s) \in s /\ s \ {Element(s)} \notin F
    BY <2>1, <2>3, ElementOf
  <2> QED
    BY <1>0, <2>2, <2>3, <2>4
<1> QED
  BY <1>2, <1>3 DEF f

-----------------------------------------------------------------------------
(* A condition counts for 0 or 1.                                          *)
LEMMA OneType == \A c : One(c) \in Nat
BY DEF One

(* The types of the three reports, as in ReportsTypeOK.                    *)
SimpleReports ==
  [nr_queries_executed : Nat, nr_error_queries : Nat,
   nr_expected_rows_sent : Nat, nr_actual_rows_sent : Nat, nr_queries_rows_differ : Nat,
   total_execution_time : Nat, expected_total_execution_time : Nat,
   nr_quicker_queries : Nat, nr_slower_queries : Nat,
   connection_query_counts : [Threads -> Nat]]

FullReports ==
  [total_execution_time : Nat, expected_total_execution_time : Nat,
   nr : [Words -> Nat], nr_faster : [Words -> Nat], nr_slower : [Words -> Nat]]

ErrorReports ==
  [total_execution_time : Nat, expected_total_execution_time : Nat, printed : Nat]

LEMMA ReportsTypes ==
  ReportsTypeOK <=> /\ simple_report \in SimpleReports
                    /\ full_report \in FullReports
                    /\ error_report \in ErrorReports
BY DEF ReportsTypeOK, SimpleReports, FullReports, ErrorReports

(* Whatever is reported, error_report keeps its type,                      *)
LEMMA ErrorReportType ==
  ASSUME NEW e \in QueryResult, NEW a \in QueryResult, error_report \in ErrorReports
  PROVE  ErrorReport(e, a) \in ErrorReports
<1> DEFINE r == error_report
           t == r.total_execution_time + a.duration
           u == r.expected_total_execution_time + e.duration
           p == r.printed + One(Slower(e, a) /\ a.duration # e.duration)
<1>1. t \in Nat /\ u \in Nat /\ p \in Nat
  BY OneType DEF QueryResult, ErrorReports
<1>2. ErrorReport(e, a) = [r EXCEPT !.total_execution_time = t,
                                    !.expected_total_execution_time = u, !.printed = p]
  BY DEF ErrorReport, AddTimes, ErrorReports
<1> HIDE DEF t, u, p
<1> QED
  BY <1>1, <1>2 DEF ErrorReports

(* simple_report does,                                                     *)
LEMMA SimpleReportType ==
  ASSUME NEW e \in QueryResult, NEW a \in QueryResult, NEW w \in Threads,
         NEW ignore \in BOOLEAN, simple_report \in SimpleReports
  PROVE  SimpleReport(w, ignore, e, a) \in SimpleReports
<1> DEFINE r == simple_report
           t == r.total_execution_time + a.duration
           u == r.expected_total_execution_time + e.duration
           n == r.nr_queries_executed + 1
           c == [r.connection_query_counts EXCEPT ![w] = @ + 1]
           f == r.nr_error_queries + One(a.error)
           d == r.nr_queries_rows_differ + One(~ignore /\ a.rows_sent # e.rows_sent)
           x == r.nr_expected_rows_sent + e.rows_sent
           y == r.nr_actual_rows_sent + a.rows_sent
           k == r.nr_quicker_queries + One(Quicker(e, a))
           s == r.nr_slower_queries + One(Slower(e, a))
<1>1. /\ t \in Nat /\ u \in Nat /\ n \in Nat /\ f \in Nat /\ d \in Nat /\ x \in Nat
      /\ y \in Nat /\ k \in Nat /\ s \in Nat /\ c \in [Threads -> Nat]
  BY OneType DEF SimpleReports, QueryResult
<1> DEFINE r1 == [r EXCEPT !.total_execution_time = t, !.expected_total_execution_time = u,
                           !.nr_queries_executed = n, !.connection_query_counts = c]
           r2 == [r1 EXCEPT !.nr_error_queries = f, !.nr_queries_rows_differ = d,
                            !.nr_expected_rows_sent = x]
<1>2. SimpleReport(w, ignore, e, a) =
        [r2 EXCEPT !.nr_actual_rows_sent = y,
                   !.nr_quicker_queries = k, !.nr_slower_queries = s]
  BY DEF SimpleReports, SimpleReport, AddTimes
<1> HIDE DEF t, u, n, f, d, x, y, k, s, c
<1>3. r1 \in SimpleReports
  BY <1>1 DEF SimpleReports
<1> HIDE DEF r1
<1>4. r2 \in SimpleReports
  BY <1>1, <1>3 DEF SimpleReports
<1> HIDE DEF r2
<1> QED
  BY <1>1, <1>2, <1>4 DEF SimpleReports

(* and full_report does.                                                   *)
LEMMA FullReportType ==
  ASSUME NEW e \in QueryResult, NEW a \in QueryResult, NEW words, full_report \in FullReports
  PROVE  FullReport(words, e, a) \in FullReports
<1> DEFINE r == full_report
           t == r.total_execution_time + a.duration
           u == r.expected_total_execution_time + e.duration
           Add(counts, n) ==
             [w \in Words |-> counts[w] + (IF w \in CountedAs(words) THEN n ELSE 0)]
           n == Add(r.nr, 1)
           f == Add(r.nr_faster, One(Quicker(e, a)))
           s == Add(r.nr_slower, One(Slower(e, a)))
<1>1. t \in Nat /\ u \in Nat
  BY DEF FullReports, QueryResult
<1>2. ASSUME NEW counts \in [Words -> Nat], NEW m \in Nat
      PROVE  Add(counts, m) \in [Words -> Nat]
  BY <1>2
<1>3. n \in [Words -> Nat] /\ f \in [Words -> Nat] /\ s \in [Words -> Nat]
  BY <1>2, OneType DEF FullReports
<1>4. FullReport(words, e, a) =
        [r EXCEPT !.total_execution_time = t, !.expected_total_execution_time = u,
                  !.nr = n, !.nr_faster = f, !.nr_slower = s]
  BY DEF FullReports, FullReport, AddTimes
<1> HIDE DEF t, u, n, f, s
<1> QED
  BY <1>1, <1>3, <1>4 DEF FullReports

(* So query_execution keeps the types of the reports.                      *)
LEMMA query_executionType ==
  ASSUME ReportsTypeOK, NEW e \in QueryResult, NEW a \in QueryResult, NEW w \in Threads,
         NEW ignore \in BOOLEAN, NEW active, NEW words,
         query_execution(active, ignore, w, words, e, a)
  PROVE  ReportsTypeOK'
<1>1. /\ simple_report' \in SimpleReports
      /\ full_report' \in FullReports
      /\ error_report' \in ErrorReports
  BY ReportsTypes, SimpleReportType, FullReportType, ErrorReportType DEF query_execution
<1> QED
  BY <1>1 DEF ReportsTypeOK, SimpleReports, FullReports, ErrorReports

-----------------------------------------------------------------------------
(* The query that a thread is at is one of a log.                          *)
LEMMA QueryType ==
  ASSUME TypeOK, NEW w \in Threads, ~Finished(w)
  PROVE  /\ query(w) \in Query
         /\ query(w).start_time \in Int /\ query(w).query_time \in Nat
         /\ nth[w] + 1 \in 1 .. Len(work[w]) + 1
<1>1. work[w] \in Seq(Query)
  BY WorkAssumption DEF TypeOK
<1>2. Len(work[w]) \in Nat /\ nth[w] \in 1 .. Len(work[w])
  BY <1>1 DEF TypeOK, Finished
<1>3. query(w) \in Query
  BY <1>1, <1>2 DEF query
<1> QED
  BY <1>2, <1>3 DEF Query

(* The value of the static variable, once it has one.                      *)
LEMMA OffsetType ==
  ASSUME TypeOK, OffsetInv, first_query_exec_offset # {}
  PROVE  /\ \E n \in Int : first_query_exec_offset = {n}
         /\ (CHOOSE n \in first_query_exec_offset : TRUE) \in Int
<1>1. PICK n \in first_query_exec_offset : TRUE
  OBVIOUS
<1>2. n \in Int /\ first_query_exec_offset = {n}
  BY <1>1 DEF TypeOK, OffsetInv
<1>3. (CHOOSE m \in first_query_exec_offset : TRUE) \in first_query_exec_offset
  BY <1>1
<1> QED
  BY <1>2, <1>3

(* A thread that waits for the due time of its query has one.              *)
LEMMA DueTimeType ==
  ASSUME StateInv, NEW w \in Threads, ~Finished(w), first_query_exec_offset # {}
  PROVE  DueTime(w) \in Int
BY QueryType, OffsetType DEF StateInv, DueTime

(* The expected and the actual result of a query have their types.         *)
LEMMA ResultType ==
  ASSUME StateInv, NEW w \in Threads, ~Finished(w), pc[w] = "preserve"
  PROVE  /\ expected_result(query(w)) \in QueryResult
         /\ result(query(w), duration(w)) \in QueryResult
<1> USE DEF StateInv
<1>1. /\ query(w).rows_sent \in Nat /\ query(w).query_time \in Nat
      /\ query(w).answer \in [rows_sent : Nat, error : BOOLEAN]
  BY QueryType DEF Query
<1>2. duration(w) \in Nat
  BY DEF TypeOK, ThreadInv, ThreadInvOf, SleepInvOf, duration
<1>3. expected_result(query(w)) \in QueryResult
  BY <1>1 DEF expected_result, QueryResult
<1>4. /\ execute_query(query(w)).rows_sent \in Nat
      /\ execute_query(query(w)).error \in BOOLEAN
  BY <1>1, <1>3 DEF execute_query, QueryResult
<1>5. result(query(w), duration(w)) \in QueryResult
  BY <1>2, <1>4 DEF result, QueryResult
<1> QED
  BY <1>3, <1>5

(* The options, and the modes that follow from them, never change.         *)
LEMMA OptionsFixed ==
  ASSUME UNCHANGED options
  PROVE  /\ g_accurate_mode' = g_accurate_mode
         /\ g_preserve_query_time' = g_preserve_query_time
         /\ UNCHANGED <<config, work>>
BY DEF options, g_accurate_mode, g_preserve_query_time

(* Nor does anything in a thread that another one's step leaves alone.     *)
LEMMA OtherThread ==
  ASSUME StateInv, NEW v \in Threads, UNCHANGED options,
         \/ first_query_exec_offset' = first_query_exec_offset
         \/ first_query_exec_offset = {},
         nth'[v] = nth[v], pc'[v] = pc[v], time_diff'[v] = time_diff[v],
         current_val'[v] = current_val[v], wake'[v] = wake[v], start'[v] = start[v],
         end'[v] = end[v], now' >= now, now' \in Nat, g_max_behind_ns' >= g_max_behind_ns,
         g_max_behind_ns' \in Nat
  PROVE  ThreadInvOf(v)'
<1>1. /\ ThreadInvOf(v) /\ now \in Nat /\ g_max_behind_ns \in Nat
      /\ time_diff[v] \in Int /\ current_val[v] \in Int /\ wake[v] \in Int
      /\ start[v] \in Nat /\ end[v] \in Nat
  BY DEF StateInv, ThreadInv, TypeOK
<1>2. /\ Finished(v)' = Finished(v) /\ query(v)' = query(v) /\ Countable(v)' = Countable(v)
      /\ first_query_exec_offset # {} => DueTime(v)' = DueTime(v)
  BY OptionsFixed DEF Finished, query, DueTime, Countable, duration
<1>3. DelayInvOf(v)'
  BY <1>1 DEF ThreadInvOf, DelayInvOf
<1>4. DueInvOf(v)'
  <2>1. pc[v] = "cas" => DueTime(v) \in Int
    BY <1>1, DueTimeType DEF StateInv, OffsetInv, ThreadInvOf, SleepInvOf
  <2> QED
    BY <1>1, <1>2, <2>1, OptionsFixed DEF ThreadInvOf, DueInvOf, StateInv, OffsetInv
<1>5. SleepInvOf(v)'
  BY <1>1, <1>2, OptionsFixed DEF ThreadInvOf, SleepInvOf
<1> QED
  BY <1>3, <1>4, <1>5 DEF ThreadInvOf

(* So it is enough to look at the thread that took the step.               *)
LEMMA OneThread ==
  ASSUME StateInv, TypeOK', OffsetInv', NEW w \in Threads, ThreadInvOf(w)',
         UNCHANGED <<options, now>>,
         \/ first_query_exec_offset' = first_query_exec_offset
         \/ first_query_exec_offset = {},
         g_max_behind_ns' >= g_max_behind_ns,
         \A v \in Threads \ {w} :
           /\ nth'[v] = nth[v] /\ pc'[v] = pc[v] /\ time_diff'[v] = time_diff[v]
           /\ current_val'[v] = current_val[v] /\ wake'[v] = wake[v] /\ start'[v] = start[v]
           /\ end'[v] = end[v]
  PROVE  StateInv'
<1>1. now' >= now /\ now' \in Nat /\ g_max_behind_ns' \in Nat /\ UNCHANGED options
  BY DEF StateInv, TypeOK
<1>2. ASSUME NEW v \in Threads, v # w PROVE ThreadInvOf(v)'
  <2>1. /\ nth'[v] = nth[v] /\ pc'[v] = pc[v] /\ time_diff'[v] = time_diff[v]
        /\ current_val'[v] = current_val[v] /\ wake'[v] = wake[v] /\ start'[v] = start[v]
        /\ end'[v] = end[v]
    BY <1>2
  <2> QED
    BY <1>1, <2>1, OtherThread
<1> QED
  BY <1>2 DEF StateInv, ThreadInv

(* Initially no thread has a query.                                        *)
LEMMA InitStateInv == Init => StateInv
<1> SUFFICES ASSUME Init PROVE StateInv
  OBVIOUS
<1> USE DEF Init
<1>1. \A w \in Threads : nth[w] \in 1 .. Len(work[w]) + 1
  BY WorkAssumption
<1>2. Cardinality({}) = 0
  BY FS_EmptySet
<1>3. ReportsTypeOK
  BY DEF ReportsInit, ReportsTypeOK
<1>4. TypeOK
  BY <1>1, <1>2, <1>3 DEF TypeOK
<1>5. OffsetInv /\ ThreadInv
  BY DEF OffsetInv, ThreadInv, ThreadInvOf, DelayInvOf, DueInvOf, SleepInvOf
<1> QED
  BY <1>4, <1>5 DEF StateInv

(* Time passing makes no thread wake up early.                             *)
LEMMA TickStateInv ==
  ASSUME StateInv, Tick
  PROVE  StateInv'
<1>1. /\ UNCHANGED <<options, first_query_exec_offset, g_max_behind_ns, nth, pc, reports>>
      /\ UNCHANGED <<time_diff, current_val, wake, start, end>>
      /\ now' >= now /\ now' \in Nat /\ g_max_behind_ns \in Nat
      /\ g_max_behind_ns' >= g_max_behind_ns
  BY DEF Tick, locals, StateInv, TypeOK
<1>2. TypeOK'
  BY <1>1 DEF StateInv, TypeOK, options, reports, ReportsTypeOK
<1>3. OffsetInv'
  BY <1>1, OptionsFixed DEF StateInv, OffsetInv
<1>4. ASSUME NEW v \in Threads PROVE ThreadInvOf(v)'
  BY <1>1, OtherThread
<1> QED
  BY <1>2, <1>3, <1>4 DEF StateInv, ThreadInv

(* The first thread determines the offset, and no other changes it.        *)
LEMMA EnterStateInv ==
  ASSUME StateInv, NEW w \in Threads, Enter(w)
  PROVE  StateInv'
<1> USE DEF StateInv, locals
<1>0. /\ UNCHANGED <<options, now, g_max_behind_ns, nth, locals, reports>>
      /\ pc[w] = "pop" /\ ~Finished(w) /\ g_accurate_mode
      /\ pc' = [pc EXCEPT ![w] = "measure"]
  BY DEF Enter
<1>1. pc'[w] = "measure" /\ \A v \in Threads \ {w} : pc'[v] = pc[v]
  BY <1>0 DEF TypeOK
<1>2. /\ \E n \in Int : first_query_exec_offset' = {n}
      /\ first_query_exec_offset' = first_query_exec_offset \/ first_query_exec_offset = {}
  <2>1. now - query(w).start_time \in Int
    BY <1>0, QueryType DEF TypeOK
  <2> QED
    BY <2>1, OffsetType DEF Enter, Offset
<1>3. TypeOK'
  <2>1. Cardinality(first_query_exec_offset') <= 1 /\ first_query_exec_offset' \subseteq Int
    <3>1. PICK n \in Int : first_query_exec_offset' = {n}
      BY <1>2
    <3>2. Cardinality({n}) = 1
      BY FS_Singleton
    <3> QED
      BY <3>1, <3>2
  <2> QED
    BY <1>0, <2>1 DEF TypeOK, options, reports, ReportsTypeOK
<1>4. OffsetInv'
  BY <1>0, <1>1, <1>2, OptionsFixed DEF OffsetInv
<1>5. ThreadInvOf(w)'
  BY <1>0, <1>1, OptionsFixed
     DEF ThreadInv, ThreadInvOf, DelayInvOf, DueInvOf, SleepInvOf, Finished
<1> QED
  BY <1>0, <1>1, <1>2, <1>3, <1>4, <1>5, OneThread, SMTT(30) DEF TypeOK

(* A thread measures its delay.                                            *)
LEMMA MeasureStateInv ==
  ASSUME StateInv, NEW w \in Threads, Measure(w)
  PROVE  StateInv'
<1> USE DEF StateInv
<1>0. /\ UNCHANGED <<options, now, first_query_exec_offset, g_max_behind_ns, nth, wake,
                     start, end, reports>>
      /\ pc[w] = "measure" /\ pc' = [pc EXCEPT ![w] = "cas"]
      /\ ~Finished(w) /\ first_query_exec_offset # {} /\ g_accurate_mode
      /\ time_diff' = [time_diff EXCEPT ![w] = DueTime(w) - now]
      /\ current_val' = [current_val EXCEPT ![w] = g_max_behind_ns]
  BY DEF Measure, OffsetInv, ThreadInv, ThreadInvOf, SleepInvOf
<1>1. DueTime(w) \in Int /\ now \in Nat /\ g_max_behind_ns \in Nat
  BY <1>0, DueTimeType DEF TypeOK
<1>2. /\ pc'[w] = "cas" /\ time_diff'[w] = DueTime(w) - now
      /\ current_val'[w] = g_max_behind_ns
      /\ \A v \in Threads \ {w} : /\ pc'[v] = pc[v] /\ time_diff'[v] = time_diff[v]
                                  /\ current_val'[v] = current_val[v]
  BY <1>0 DEF TypeOK
<1>3. TypeOK'
  <2>1. time_diff' \in [Threads -> Int] /\ current_val' \in [Threads -> Int]
    BY <1>0, <1>1 DEF TypeOK
  <2> QED
    BY <1>0, <2>1 DEF TypeOK, options, reports, ReportsTypeOK
<1>4. OffsetInv'
  BY <1>0, <1>2, OptionsFixed DEF OffsetInv
<1>5. ThreadInvOf(w)'
  <2>1. DueTime(w)' = DueTime(w) /\ Finished(w)' = Finished(w)
    BY <1>0, OptionsFixed DEF DueTime, query, Finished
  <2>2. now + (DueTime(w) - now) >= DueTime(w)
    BY <1>1
  <2> QED
    BY <1>0, <1>1, <1>2, <2>1, <2>2 DEF ThreadInvOf, DelayInvOf, DueInvOf, SleepInvOf
<1> QED
  BY <1>0, <1>1, <1>2, <1>3, <1>4, <1>5, OneThread

(* Out of the loop, the delay is covered, and the thread goes to sleep.    *)
LEMMA SleepStateInv ==
  ASSUME StateInv, NEW w \in Threads, CasOK(w) \/ NotBehind(w)
  PROVE  StateInv'
<1> USE DEF StateInv
<1>0. /\ UNCHANGED casOthers /\ pc[w] = "cas"
      /\ ~Finished(w) /\ first_query_exec_offset # {} /\ g_accurate_mode
      /\ SleepFor(w)
  BY DEF CasOK, NotBehind, OffsetInv, ThreadInv, ThreadInvOf, SleepInvOf
<1>1. /\ DueTime(w) \in Int /\ now \in Nat /\ g_max_behind_ns \in Nat
      /\ time_diff[w] \in Int /\ current_val[w] \in Int
      /\ current_val[w] <= g_max_behind_ns
      /\ now + time_diff[w] >= DueTime(w)
  BY <1>0, DueTimeType DEF TypeOK, ThreadInv, ThreadInvOf, DelayInvOf, DueInvOf
<1>2. /\ g_max_behind_ns' \in Nat /\ g_max_behind_ns' >= g_max_behind_ns
      /\ g_max_behind_ns' >= -time_diff[w]
  BY <1>1 DEF CasOK, NotBehind, Behind, Matches
<1>3. /\ pc'[w] = "sleep" /\ wake'[w] = now + time_diff[w] /\ current_val'[w] = 0
      /\ \A v \in Threads \ {w} : /\ pc'[v] = pc[v] /\ wake'[v] = wake[v]
                                  /\ current_val'[v] = current_val[v]
  BY <1>0 DEF SleepFor, TypeOK
<1>4. TypeOK'
  <2>1. wake' \in [Threads -> Int] /\ current_val' \in [Threads -> Int]
    BY <1>0, <1>1 DEF SleepFor, TypeOK
  <2> QED
    BY <1>0, <1>2, <2>1 DEF SleepFor, casOthers, TypeOK, options, reports, ReportsTypeOK
<1>5. OffsetInv'
  BY <1>0, <1>3, OptionsFixed DEF casOthers, OffsetInv
<1>6. ThreadInvOf(w)'
  <2>1. DueTime(w)' = DueTime(w) /\ Finished(w)' = Finished(w)
    BY <1>0, OptionsFixed DEF casOthers, DueTime, query, Finished
  <2> QED
    BY <1>0, <1>1, <1>2, <1>3, <2>1
       DEF casOthers, ThreadInvOf, DelayInvOf, DueInvOf, SleepInvOf
<1> QED
  BY <1>0, <1>2, <1>3, <1>4, <1>5, <1>6, OneThread DEF casOthers

(* Another thread was first: the new value is compared.                    *)
LEMMA CasFailStateInv ==
  ASSUME StateInv, NEW w \in Threads, CasFail(w)
  PROVE  StateInv'
<1> USE DEF StateInv
<1>0. /\ UNCHANGED <<g_max_behind_ns, casOthers, wake, pc>> /\ pc[w] = "cas"
      /\ current_val' = [current_val EXCEPT ![w] = g_max_behind_ns]
      /\ g_max_behind_ns \in Nat
  BY DEF CasFail, Reload, TypeOK
<1>1. /\ current_val'[w] = g_max_behind_ns
      /\ \A v \in Threads \ {w} : current_val'[v] = current_val[v]
  BY <1>0 DEF TypeOK
<1>2. TypeOK'
  <2>1. current_val' \in [Threads -> Int]
    BY <1>0 DEF TypeOK
  <2> QED
    BY <1>0, <2>1 DEF casOthers, TypeOK, options, reports, ReportsTypeOK
<1>3. OffsetInv'
  BY <1>0, OptionsFixed DEF casOthers, OffsetInv
<1>4. ThreadInvOf(w)'
  <2>1. DueTime(w)' = DueTime(w) /\ Finished(w)' = Finished(w)
    BY <1>0, OptionsFixed DEF casOthers, DueTime, query, Finished
  <2> QED
    BY <1>0, <1>1, <2>1
       DEF casOthers, ThreadInv, ThreadInvOf, DelayInvOf, DueInvOf, SleepInvOf
<1> QED
  BY <1>0, <1>1, <1>2, <1>3, <1>4, OneThread DEF casOthers

(* A query is sent, in accurate mode when it is due.                       *)
LEMMA SendStateInv ==
  ASSUME StateInv, NEW w \in Threads, Send(w)
  PROVE  StateInv'
<1> USE DEF StateInv
<1>0. /\ UNCHANGED <<end, sendOthers>>
      /\ ~Finished(w)
      /\ \/ pc[w] = "pop" /\ ~g_accurate_mode
         \/ pc[w] = "sleep" /\ now >= wake[w] /\ first_query_exec_offset # {}
      /\ start' = [start EXCEPT ![w] = now]
      /\ wake' = [wake EXCEPT ![w] = 0]
      /\ pc' = [pc EXCEPT ![w] = "send"]
  BY DEF Send, OffsetInv, ThreadInv, ThreadInvOf, SleepInvOf
<1>1. now \in Nat /\ g_max_behind_ns \in Nat /\ wake[w] \in Int
  BY DEF TypeOK
<1>2. /\ pc'[w] = "send" /\ start'[w] = now
      /\ \A v \in Threads \ {w} : pc'[v] = pc[v] /\ wake'[v] = wake[v] /\ start'[v] = start[v]
  BY <1>0 DEF TypeOK
<1>3. TypeOK'
  <2>1. wake' \in [Threads -> Int] /\ start' \in [Threads -> Nat]
    BY <1>0, <1>1 DEF TypeOK
  <2> QED
    BY <1>0, <2>1, ZenonT(60) DEF sendOthers, TypeOK, options, reports, ReportsTypeOK
<1>4. OffsetInv'
  BY <1>0, <1>2, OptionsFixed DEF sendOthers, OffsetInv
<1>5. ThreadInvOf(w)'
  <2>1. DueTime(w)' = DueTime(w) /\ Finished(w)' = Finished(w)
    BY <1>0, OptionsFixed DEF sendOthers, DueTime, query, Finished
  <2>2. pc[w] = "sleep" => now >= DueTime(w)
    <3> SUFFICES ASSUME pc[w] = "sleep" PROVE now >= DueTime(w)
      OBVIOUS
    <3>1. DueTime(w) \in Int
      BY <1>0, DueTimeType
    <3> QED
      BY <1>0, <1>1, <3>1 DEF ThreadInv, ThreadInvOf, DueInvOf
  <2>3. DelayInvOf(w)'
    BY <1>0, <1>2 DEF sendOthers, ThreadInv, ThreadInvOf, DelayInvOf
  <2>4. DueInvOf(w)' /\ SleepInvOf(w)'
    BY <1>0, <1>1, <1>2, <2>1, <2>2, OptionsFixed DEF sendOthers, DueInvOf, SleepInvOf
  <2> QED
    BY <2>3, <2>4 DEF ThreadInvOf
<1> QED
  BY <1>0, <1>1, <1>2, <1>3, <1>4, <1>5, OneThread DEF sendOthers

(* What the upper bits that usleep does not get leave of a number.         *)
LEMMA Remainder ==
  ASSUME NEW n \in Nat
  PROVE  /\ n % UsecondsRange \in Nat
         /\ n < UsecondsRange => n % UsecondsRange = n
BY UsecondsAssumption

(* The answer is there: the thread sleeps for what is left of the query's  *)
(* time.                                                                   *)
LEMMA AnswerStateInv ==
  ASSUME StateInv, NEW w \in Threads, Answer(w)
  PROVE  StateInv'
<1> USE DEF StateInv
<1> DEFINE length == now - start[w]
<1>0. /\ UNCHANGED <<start, sendOthers>> /\ pc[w] = "send" /\ ~Finished(w)
      /\ end' = [end EXCEPT ![w] = now]
      /\ wake' = [wake EXCEPT ![w] = now + us_sleep_time(w, length)]
      /\ pc' = [pc EXCEPT ![w] = "preserve"]
  BY DEF Answer, ThreadInv, ThreadInvOf, SleepInvOf
<1>1. /\ now \in Nat /\ g_max_behind_ns \in Nat /\ start[w] \in Nat /\ start[w] <= now
      /\ query(w).query_time \in Nat
  BY <1>0, QueryType DEF TypeOK, ThreadInv, ThreadInvOf, SleepInvOf
<1>2. /\ length \in Nat /\ us_sleep_time(w, length) \in Nat
      /\ g_preserve_query_time /\ query(w).query_time - length < UsecondsRange =>
           now + us_sleep_time(w, length) >= start[w] + query(w).query_time
  <2> DEFINE left == query(w).query_time - length
  <2>1. length \in Nat /\ left \in Int /\ start[w] + query(w).query_time = now + left
    BY <1>1
  <2>2. left > 0 => /\ left % UsecondsRange \in Nat
                    /\ left < UsecondsRange => left % UsecondsRange = left
    BY <2>1, Remainder
  <2>3. g_preserve_query_time /\ left > 0 => us_sleep_time(w, length) = left % UsecondsRange
    BY <1>1 DEF us_sleep_time
  <2>4. ~(g_preserve_query_time /\ left > 0) => us_sleep_time(w, length) = 0
    BY <1>1 DEF us_sleep_time
  <2> HIDE DEF length, left
  <2>5. now + us_sleep_time(w, length) >= now + left
        \/ ~g_preserve_query_time \/ ~(left < UsecondsRange)
    BY <1>1, <2>1, <2>2, <2>3, <2>4
  <2> QED
    BY <2>1, <2>2, <2>3, <2>4, <2>5 DEF left
<1>3. /\ pc'[w] = "preserve" /\ wake'[w] = now + us_sleep_time(w, length) /\ end'[w] = now
      /\ \A v \in Threads \ {w} : pc'[v] = pc[v] /\ wake'[v] = wake[v] /\ end'[v] = end[v]
  BY <1>0 DEF TypeOK
<1>4. TypeOK'
  <2>1. wake' \in [Threads -> Int] /\ end' \in [Threads -> Nat]
    <3> HIDE DEF length
    <3> QED
      BY <1>0, <1>1, <1>2 DEF TypeOK
  <2> QED
    BY <1>0, <2>1, ZenonT(60) DEF sendOthers, TypeOK, options, reports, ReportsTypeOK
<1>5. OffsetInv'
  BY <1>0, <1>3, OptionsFixed DEF sendOthers, OffsetInv
<1>6. ThreadInvOf(w)'
  <2>1. query(w)' = query(w) /\ Finished(w)' = Finished(w)
    BY <1>0, OptionsFixed DEF sendOthers, query, Finished
  <2>2. DelayInvOf(w)' /\ DueInvOf(w)'
    BY <1>0, <1>3 DEF sendOthers, ThreadInv, ThreadInvOf, DelayInvOf, DueInvOf
  <2>3. SleepInvOf(w)'
    <3>1. Countable(w)' => query(w).query_time - length < UsecondsRange
      BY <1>0, <1>3, <2>1 DEF Countable, duration
    <3> HIDE DEF length
    <3> QED
      BY <1>0, <1>1, <1>2, <1>3, <2>1, <3>1, OptionsFixed DEF sendOthers, SleepInvOf
  <2> QED
    BY <2>2, <2>3 DEF ThreadInvOf
<1> QED
  BY <1>0, <1>1, <1>3, <1>4, <1>5, <1>6, OneThread DEF sendOthers

(* The query is reported, and the thread goes on to the next.              *)
LEMMA ReportStateInv ==
  ASSUME StateInv, NEW w \in Threads, Report(w)
  PROVE  StateInv'
<1> USE DEF StateInv
<1>0. /\ UNCHANGED <<options, now, first_query_exec_offset, g_max_behind_ns, current_val>>
      /\ pc[w] = "preserve" /\ ~Finished(w)
      /\ nth' = [nth EXCEPT ![w] = @ + 1]
      /\ time_diff' = [time_diff EXCEPT ![w] = 0]
      /\ wake' = [wake EXCEPT ![w] = 0]
      /\ start' = [start EXCEPT ![w] = 0]
      /\ end' = [end EXCEPT ![w] = 0]
      /\ pc' = [pc EXCEPT ![w] = "pop"]
  BY DEF Report, ThreadInv, ThreadInvOf, SleepInvOf
<1>1. /\ pc'[w] = "pop" /\ time_diff'[w] = 0 /\ nth'[w] = nth[w] + 1
      /\ \A v \in Threads \ {w} :
           /\ nth'[v] = nth[v] /\ pc'[v] = pc[v] /\ time_diff'[v] = time_diff[v]
           /\ wake'[v] = wake[v] /\ start'[v] = start[v] /\ end'[v] = end[v]
  BY <1>0 DEF TypeOK
<1>2. ReportsTypeOK'
  <2>1. config.ignore_row_result_diffs \in BOOLEAN
    BY WorkAssumption DEF TypeOK, Config
  <2> QED
    BY <1>0, <2>1, ResultType, query_executionType DEF Report, TypeOK
<1>3. TypeOK'
  <2>1. /\ nth' \in [Threads -> Nat] /\ pc' \in [Threads -> {"pop", "measure", "cas", "sleep", "send", "preserve"}]
        /\ {time_diff', wake'} \subseteq [Threads -> Int]
        /\ {start', end'} \subseteq [Threads -> Nat]
    BY <1>0 DEF TypeOK
  <2>2. \A v \in Threads : nth'[v] \in 1 .. Len(work[v]) + 1
    BY <1>0, <1>1, QueryType DEF TypeOK
  <2> QED
    BY <1>0, <1>2, <2>1, <2>2 DEF TypeOK, options
<1>4. OffsetInv'
  BY <1>0, <1>1, OptionsFixed DEF OffsetInv
<1>5. ThreadInvOf(w)'
  BY <1>0, <1>1 DEF TypeOK, ThreadInv, ThreadInvOf, DelayInvOf, DueInvOf, SleepInvOf
<1>6. g_max_behind_ns' >= g_max_behind_ns
  BY <1>0 DEF TypeOK
<1> QED
  BY <1>0, <1>1, <1>3, <1>4, <1>5, <1>6, OneThread

(* So it holds after every step,                                           *)
LEMMA NextStateInv == StateInv /\ [Next]_vars => StateInv'
<1> SUFFICES ASSUME StateInv, [Next]_vars PROVE StateInv'
  OBVIOUS
<1>1. ASSUME NEW w \in Threads, execute(w) PROVE StateInv'
  BY <1>1, EnterStateInv, MeasureStateInv, SleepStateInv, CasFailStateInv, SendStateInv, AnswerStateInv, ReportStateInv
     DEF execute
<1>2. CASE Tick
  BY <1>2, TickStateInv
<1>3. CASE UNCHANGED vars
  BY <1>3, ZenonT(60) DEF vars, options, locals, reports, StateInv, TypeOK, ReportsTypeOK, OffsetInv,
     ThreadInv, ThreadInvOf, DelayInvOf, DueInvOf, SleepInvOf, DueTime, query, Finished,
     Countable, duration, g_accurate_mode, g_preserve_query_time
<1> QED
  BY <1>1, <1>2, <1>3 DEF Next, Done

-----------------------------------------------------------------------------
(* The reports *)

(* What has been reported is finite: so many queries of each thread.       *)
LEMMA ReportedFinite ==
  ASSUME TypeOK
  PROVE  IsFiniteSet(reported)
<1> DEFINE Of(w) == {<<w, n>> : n \in 1 .. nth[w] - 1}
<1>1. ASSUME NEW w \in Threads PROVE IsFiniteSet(Of(w))
  <2> DEFINE f == [n \in 1 .. nth[w] - 1 |-> <<w, n>>]
  <2>1. nth[w] - 1 \in Int
    BY DEF TypeOK
  <2>2. IsFiniteSet(1 .. nth[w] - 1)
    BY <2>1, FS_Interval
  <2>3. f \in Surjection(1 .. nth[w] - 1, Of(w))
    BY DEF Surjection
  <2> QED
    BY <2>2, <2>3, FS_Surjection
<1>2. IsFiniteSet({Of(w) : w \in Threads})
  <2> DEFINE f == [w \in Threads |-> Of(w)]
  <2>1. f \in Surjection(Threads, {Of(w) : w \in Threads})
    BY DEF Surjection
  <2> QED
    BY <2>1, FS_Surjection, WorkAssumption
<1> HIDE DEF Of
<1>3. IsFiniteSet(UNION {Of(w) : w \in Threads})
  BY <1>1, <1>2, FS_UNION
<1> QED
  BY <1>3 DEF reported, Of

(* A query that has been reported and one that is reported now are those   *)
(* that have been reported then.                                           *)
LEMMA ReportedThen ==
  ASSUME TypeOK, NEW w \in Threads, nth' = [nth EXCEPT ![w] = @ + 1]
  PROVE  /\ <<w, nth[w]>> \notin reported
         /\ reported' = reported \cup {<<w, nth[w]>>}
<1>1. \A v \in Threads : nth[v] \in Nat /\ nth[v] >= 1
  BY DEF TypeOK
<1>2. \A v \in Threads : nth'[v] = IF v = w THEN nth[v] + 1 ELSE nth[v]
  BY DEF TypeOK
<1>3. reported \subseteq reported' /\ <<w, nth[w]>> \in reported'
  BY <1>1, <1>2 DEF reported
<1>4. ASSUME NEW x \in reported' PROVE x \in reported \/ x = <<w, nth[w]>>
  <2>1. PICK v \in Threads, n \in Nat : n \in 1 .. nth'[v] - 1 /\ x = <<v, n>>
    BY DEF reported
  <2>2. n >= 1 /\ n <= nth'[v] - 1
    BY <1>1, <1>2, <2>1
  <2>3. n \in 1 .. nth[v] - 1 \/ (v = w /\ n = nth[w])
    <3>1. CASE v = w
      BY <1>1, <1>2, <2>1, <2>2, <3>1
    <3>2. CASE v # w
      BY <1>1, <1>2, <2>1, <2>2, <3>2
    <3> QED
      BY <3>1, <3>2
  <2> QED
    BY <2>1, <2>3 DEF reported
<1>5. <<w, nth[w]>> \notin reported
  BY <1>1 DEF reported
<1> QED
  BY <1>3, <1>4, <1>5

(* One more of a finite set.                                               *)
LEMMA CountOne ==
  ASSUME NEW A, IsFiniteSet(A), NEW x, x \notin A, NEW c \in BOOLEAN
  PROVE  Cardinality(A \cup (IF c THEN {x} ELSE {})) = Cardinality(A) + One(c)
<1>1. Cardinality(A) \in Nat
  BY FS_CardinalityType
<1>2. Cardinality(A \cup {x}) = Cardinality(A) + 1
  BY FS_AddElement
<1> QED
  BY <1>1, <1>2 DEF One

(* The words are finitely many, and a query is counted under one of those  *)
(* that it has, or it has none.                                            *)
LEMMA WordsFinite == IsFiniteSet(Words)
<1> DEFINE f == [k \in 1 .. 6 |-> Keywords[k]]
<1>1. DOMAIN Keywords = 1 .. 6
  BY DEF Keywords
<1>2. f \in Surjection(1 .. 6, Words)
  BY <1>1 DEF Surjection, Words
<1>3. 1 \in Int /\ 6 \in Int /\ \A a, b \in Int : IsFiniteSet(a .. b)
  BY FS_Interval
<1>4. IsFiniteSet(1 .. 6)
  BY <1>3
<1> QED
  BY <1>2, <1>4, FS_Surjection

LEMMA CountedOnce ==
  ASSUME NEW words
  PROVE  IF words \cap Words = {} THEN CountedAs(words) = {}
         ELSE \E k \in Words \cap words : CountedAs(words) = {k}
<1>1. DOMAIN Keywords = 1 .. 6
  BY DEF Keywords
<1> DEFINE N == {n \in 1 .. 6 : Keywords[n] \in words}
<1>2. CASE words \cap Words = {}
  BY <1>2 DEF CountedAs, Words
<1>3. CASE words \cap Words # {}
  <2>1. N # {} /\ N \subseteq Nat
    BY <1>1, <1>3 DEF Words
  <2>2. PICK n \in N : \A m \in N : n <= m
    <3> HIDE DEF N
    <3> QED
      BY <2>1, LeastNumber
  <2>3. \A j \in 1 .. n - 1 : Keywords[j] \notin words
    BY <2>2
  <2>4. {k \in DOMAIN Keywords :
           Keywords[k] \in words /\ \A j \in 1 .. k - 1 : Keywords[j] \notin words} = {n}
    BY <1>1, <2>2, <2>3
  <2>5. CountedAs(words) = {Keywords[n]}
    BY <2>4 DEF CountedAs
  <2> QED
    BY <1>1, <1>3, <2>2, <2>5 DEF Words
<1> QED
  BY <1>2, <1>3

(* So the counts of the words grow together by one query.                  *)
LEMMA SumAdd ==
  ASSUME NEW words, NEW counts \in [Words -> Nat], NEW n \in Nat
  PROVE  SumFunction([k \in Words |-> counts[k] + (IF k \in CountedAs(words) THEN n ELSE 0)])
           = SumFunction(counts) + (IF words \cap Words # {} THEN n ELSE 0)
<1> DEFINE added == [k \in Words |-> counts[k] + (IF k \in CountedAs(words) THEN n ELSE 0)]
<1>1. added \in [Words -> Nat]
  OBVIOUS
<1>2. SumFunction(counts) \in Nat
  BY SumType, WordsFinite
<1>3. CASE words \cap Words = {}
  <2>1. added = counts
    BY <1>3, CountedOnce
  <2> QED
    BY <1>2, <1>3, <2>1
<1>4. CASE words \cap Words # {}
  <2>1. PICK k \in Words : CountedAs(words) = {k}
    BY <1>4, CountedOnce
  <2>2. \A x \in Words : added[x] = counts[x] + (IF x = k THEN n ELSE 0)
    BY <2>1
  <2> HIDE DEF added
  <2>3. SumFunction(added) = SumFunction(counts) + n
    BY <1>1, <2>2, SumPlus, WordsFinite, SMTT(30)
  <2> QED
    BY <1>4, <2>3 DEF added
<1> QED
  BY <1>3, <1>4

(* What the reports count of a query, counter by counter.                  *)
LEMMA SimpleReportFields ==
  ASSUME NEW e \in QueryResult, NEW a \in QueryResult, NEW w \in Threads,
         NEW ignore \in BOOLEAN, simple_report \in SimpleReports
  PROVE  LET r == simple_report
             s == SimpleReport(w, ignore, e, a)
         IN  /\ s.total_execution_time = r.total_execution_time + a.duration
             /\ s.expected_total_execution_time = r.expected_total_execution_time + e.duration
             /\ s.nr_queries_executed = r.nr_queries_executed + 1
             /\ s.connection_query_counts = [r.connection_query_counts EXCEPT ![w] = @ + 1]
             /\ s.nr_error_queries = r.nr_error_queries + One(a.error)
             /\ s.nr_queries_rows_differ =
                  r.nr_queries_rows_differ + One(~ignore /\ a.rows_sent # e.rows_sent)
             /\ s.nr_expected_rows_sent = r.nr_expected_rows_sent + e.rows_sent
             /\ s.nr_actual_rows_sent = r.nr_actual_rows_sent + a.rows_sent
             /\ s.nr_quicker_queries = r.nr_quicker_queries + One(Quicker(e, a))
             /\ s.nr_slower_queries = r.nr_slower_queries + One(Slower(e, a))
BY DEF SimpleReports, SimpleReport, AddTimes

LEMMA FullReportFields ==
  ASSUME NEW e \in QueryResult, NEW a \in QueryResult, NEW words, full_report \in FullReports
  PROVE  LET r == full_report
             s == FullReport(words, e, a)
             Added(counts, n) ==
               [k \in Words |-> counts[k] + (IF k \in CountedAs(words) THEN n ELSE 0)]
         IN  /\ s.total_execution_time = r.total_execution_time + a.duration
             /\ s.expected_total_execution_time = r.expected_total_execution_time + e.duration
             /\ s.nr = Added(r.nr, 1)
             /\ s.nr_faster = Added(r.nr_faster, One(Quicker(e, a)))
             /\ s.nr_slower = Added(r.nr_slower, One(Slower(e, a)))
BY DEF FullReports, FullReport, AddTimes

LEMMA ErrorReportFields ==
  ASSUME NEW e \in QueryResult, NEW a \in QueryResult, error_report \in ErrorReports
  PROVE  LET r == error_report
             s == ErrorReport(e, a)
         IN  /\ s.total_execution_time = r.total_execution_time + a.duration
             /\ s.expected_total_execution_time = r.expected_total_execution_time + e.duration
             /\ s.printed = r.printed + One(Slower(e, a) /\ a.duration # e.duration)
BY DEF ErrorReports, ErrorReport, AddTimes

(* The parts of ReportsAgree.                                              *)
With(words) == {x \in reported : q(x).words \cap words # {}}

SameTimes(r, s) ==
  /\ r.total_execution_time = s.total_execution_time
  /\ r.expected_total_execution_time = s.expected_total_execution_time

FullReportAgrees ==
  LET f == full_report
  IN  /\ \A k \in Words : /\ f.nr[k] <= Cardinality(With({k}))
                          /\ f.nr_faster[k] + f.nr_slower[k] <= f.nr[k]
      /\ SumFunction(f.nr) = Cardinality(With(Words))
      /\ SumFunction(f.nr_faster) + SumFunction(f.nr_slower) = Cardinality(With(Words) \cap timed)

FullAgreesWithSimple ==
  /\ SameTimes(full_report, simple_report)
  /\ SumFunction(full_report.nr_faster) <= simple_report.nr_quicker_queries
  /\ SumFunction(full_report.nr_slower) <= simple_report.nr_slower_queries

ErrorAgreesWithSimple ==
  /\ SameTimes(error_report, simple_report)
  /\ error_report.printed <= simple_report.nr_slower_queries

LEMMA ReportsAgreeParts ==
  ReportsAgree <=>
    /\ "simple_report" \in config.active => SimpleReportAgrees
    /\ "full_report" \in config.active => FullReportAgrees
    /\ {"simple_report", "full_report"} \subseteq config.active => FullAgreesWithSimple
    /\ {"simple_report", "error_report"} \subseteq config.active => ErrorAgreesWithSimple
BY DEF ReportsAgree, FullReportAgrees, FullAgreesWithSimple, ErrorAgreesWithSimple, SameTimes,
   With

(* What a step that reports a query is to the reports.                     *)
LEMMA ReportStep ==
  ASSUME StateInv, NEW w \in Threads, Report(w)
  PROVE  LET x == <<w, nth[w]>>
             e == expected_result(query(w))
             a == result(query(w), duration(w))
         IN  /\ UNCHANGED <<config, work>>
             /\ e \in QueryResult /\ a \in QueryResult
             /\ config.ignore_row_result_diffs \in BOOLEAN
             /\ simple_report \in SimpleReports /\ full_report \in FullReports
             /\ error_report \in ErrorReports
             /\ query_execution(config.active, config.ignore_row_result_diffs, w,
                                query(w).words, e, a)
             /\ nth \in [Threads -> Nat] /\ nth' = [nth EXCEPT ![w] = @ + 1]
             /\ x \notin reported /\ reported' = reported \cup {x}
             /\ q(x) = query(w) /\ query(w) \in Query
             /\ \A y : q(y)' = q(y)
<1> DEFINE x == <<w, nth[w]>>
<1>1. /\ UNCHANGED <<config, work>> /\ ~Finished(w) /\ pc[w] = "preserve"
      /\ nth' = [nth EXCEPT ![w] = @ + 1]
  BY DEF Report, options, StateInv, ThreadInv, ThreadInvOf, SleepInvOf
<1>2. x \notin reported /\ reported' = reported \cup {x}
  BY <1>1, ReportedThen DEF StateInv
<1>3. q(x) = query(w) /\ \A y : q(y)' = q(y)
  BY <1>1 DEF q, query
<1>4. config.ignore_row_result_diffs \in BOOLEAN
  BY WorkAssumption DEF StateInv, TypeOK, Config
<1>5. /\ simple_report \in SimpleReports /\ full_report \in FullReports
      /\ error_report \in ErrorReports /\ nth \in [Threads -> Nat]
  BY ReportsTypes DEF StateInv, TypeOK
<1>6. query_execution(config.active, config.ignore_row_result_diffs, w, query(w).words,
                      expected_result(query(w)), result(query(w), duration(w)))
  BY DEF Report
<1> QED
  BY <1>1, <1>2, <1>3, <1>4, <1>5, <1>6, ResultType, QueryType DEF StateInv

(* It adds the query to those that it belongs to.                          *)
LEMMA ReportCounts ==
  ASSUME StateInv, NEW w \in Threads, Report(w)
  PROVE  LET e     == expected_result(query(w))
             words == query(w).words
         IN  /\ Cardinality(timed)' = Cardinality(timed) + One(e.duration # 0)
             /\ \A k : Cardinality(With(k))' = Cardinality(With(k)) + One(words \cap k # {})
             /\ Cardinality(With(Words) \cap timed)' =
                  Cardinality(With(Words) \cap timed)
                  + One(words \cap Words # {} /\ e.duration # 0)
<1> DEFINE x     == <<w, nth[w]>>
           e     == expected_result(query(w))
           words == query(w).words
<1>1. /\ config' = config /\ query(w) \in Query /\ q(x) = query(w) /\ \A y : q(y)' = q(y)
      /\ x \notin reported /\ reported' = reported \cup {x}
  BY ReportStep
<1>2. IsFiniteSet(reported)
  BY ReportedFinite DEF StateInv
<1>3. e.duration # 0 <=> config.input = "query-log" /\ q(x).query_time # 0
  BY <1>1 DEF expected_result
<1> HIDE DEF x, e
<1>4. timed' = timed \cup (IF e.duration # 0 THEN {x} ELSE {})
  BY <1>1, <1>3 DEF timed
<1>5. \A k : With(k)' = With(k) \cup (IF words \cap k # {} THEN {x} ELSE {})
  BY <1>1 DEF With
<1>6. (With(Words) \cap timed)' =
        (With(Words) \cap timed)
        \cup (IF words \cap Words # {} /\ e.duration # 0 THEN {x} ELSE {})
  <2>1. With(Words)' = With(Words) \cup (IF words \cap Words # {} THEN {x} ELSE {})
    BY <1>5 DEF With, Words
  <2>2. x \notin With(Words) /\ x \notin timed
    BY <1>1 DEF With, timed
  <2> QED
    BY <1>4, <2>1, <2>2
<1>7. \A s \in SUBSET reported : IsFiniteSet(s) /\ x \notin s
  BY <1>1, <1>2, FS_Subset
<1>8. timed \in SUBSET reported /\ \A k : With(k) \in SUBSET reported
  BY DEF timed, With
<1>9. Cardinality(timed)' = Cardinality(timed) + One(e.duration # 0)
  BY <1>4, <1>7, <1>8, CountOne
<1>10. ASSUME NEW k
       PROVE  Cardinality(With(k))' = Cardinality(With(k)) + One(words \cap k # {})
  BY <1>5, <1>7, <1>8, CountOne
<1>11. Cardinality(With(Words) \cap timed)' =
         Cardinality(With(Words) \cap timed) + One(words \cap Words # {} /\ e.duration # 0)
  BY <1>6, <1>7, <1>8, CountOne
<1> QED
  BY <1>9, <1>10, <1>11 DEF e

(* One of the conditions that the times are compared for holds, at most.   *)
LEMMA QuickerOrSlower ==
  ASSUME NEW e \in QueryResult, NEW a \in QueryResult
  PROVE  /\ One(Quicker(e, a)) + One(Slower(e, a)) = One(e.duration # 0)
         /\ One(Quicker(e, a)) \in Nat /\ One(Slower(e, a)) \in Nat
         /\ One(Quicker(e, a)) = 1 => a.duration + 1 <= e.duration
         /\ One(Quicker(e, a)) <= 1
BY DEF QueryResult, Quicker, Slower, One

(* What reporting a query adds to the simple report.                       *)
LEMMA SimpleReportAdds ==
  ASSUME StateInv, NEW w \in Threads, Report(w), "simple_report" \in config.active
  PROVE  LET e == expected_result(query(w))
             a == result(query(w), duration(w))
             r == simple_report
             s == simple_report'
             ignore == config.ignore_row_result_diffs
         IN  /\ s.total_execution_time = r.total_execution_time + a.duration
             /\ s.expected_total_execution_time = r.expected_total_execution_time + e.duration
             /\ s.nr_queries_executed = r.nr_queries_executed + 1
             /\ s.connection_query_counts = [r.connection_query_counts EXCEPT ![w] = @ + 1]
             /\ s.nr_error_queries = r.nr_error_queries + One(a.error)
             /\ s.nr_queries_rows_differ =
                  r.nr_queries_rows_differ + One(~ignore /\ a.rows_sent # e.rows_sent)
             /\ s.nr_expected_rows_sent = r.nr_expected_rows_sent + e.rows_sent
             /\ s.nr_actual_rows_sent = r.nr_actual_rows_sent + a.rows_sent
             /\ s.nr_quicker_queries = r.nr_quicker_queries + One(Quicker(e, a))
             /\ s.nr_slower_queries = r.nr_slower_queries + One(Slower(e, a))
<1> DEFINE e == expected_result(query(w))
           a == result(query(w), duration(w))
           r == simple_report
           s == simple_report'
           ignore == config.ignore_row_result_diffs
<1>1. /\ e \in QueryResult /\ a \in QueryResult /\ ignore \in BOOLEAN
      /\ r \in SimpleReports /\ s = SimpleReport(w, ignore, e, a)
  BY ReportStep DEF query_execution
<1> HIDE DEF e, a, ignore
<1>2. /\ s.total_execution_time = r.total_execution_time + a.duration
      /\ s.expected_total_execution_time = r.expected_total_execution_time + e.duration
      /\ s.nr_queries_executed = r.nr_queries_executed + 1
      /\ s.connection_query_counts = [r.connection_query_counts EXCEPT ![w] = @ + 1]
      /\ s.nr_error_queries = r.nr_error_queries + One(a.error)
      /\ s.nr_queries_rows_differ =
           r.nr_queries_rows_differ + One(~ignore /\ a.rows_sent # e.rows_sent)
      /\ s.nr_expected_rows_sent = r.nr_expected_rows_sent + e.rows_sent
      /\ s.nr_actual_rows_sent = r.nr_actual_rows_sent + a.rows_sent
      /\ s.nr_quicker_queries = r.nr_quicker_queries + One(Quicker(e, a))
      /\ s.nr_slower_queries = r.nr_slower_queries + One(Slower(e, a))
  BY <1>1, SimpleReportFields
<1> QED
  BY <1>2 DEF e, a, ignore

(* The simple report agrees with the log, and all quicker queries have     *)
(* taken less time, after the query has been added.                        *)
LEMMA SimpleReportStep ==
  ASSUME StateInv, SimpleReportAgrees, QuickerInv, NEW w \in Threads, Report(w),
         "simple_report" \in config.active
  PROVE  SimpleReportAgrees' /\ QuickerInv'
<1> DEFINE x == <<w, nth[w]>>
           e == expected_result(query(w))
           a == result(query(w), duration(w))
           r == simple_report
           s == simple_report'
           ignore == config.ignore_row_result_diffs
<1>1. /\ UNCHANGED config /\ e \in QueryResult /\ a \in QueryResult /\ ignore \in BOOLEAN
      /\ r \in SimpleReports /\ s = SimpleReport(w, ignore, e, a)
      /\ nth \in [Threads -> Nat] /\ nth' = [nth EXCEPT ![w] = @ + 1]
      /\ reported' = reported \cup {x} /\ q(x) = query(w) /\ \A y : q(y)' = q(y)
  BY ReportStep DEF query_execution
<1>2. Cardinality(timed)' = Cardinality(timed) + One(e.duration # 0)
  BY ReportCounts
<1>3. /\ a.rows_sent = execute_query(query(w)).rows_sent
      /\ a.error = execute_query(query(w)).error
      /\ config.dbclient = "null" => a.error = FALSE /\ a.rows_sent = e.rows_sent
      /\ config.dbclient # "null" => a.error = q(x).answer.error
  BY <1>1 DEF result, execute_query
<1>4. /\ s.total_execution_time = r.total_execution_time + a.duration
      /\ s.expected_total_execution_time = r.expected_total_execution_time + e.duration
      /\ s.nr_queries_executed = r.nr_queries_executed + 1
      /\ s.connection_query_counts = [r.connection_query_counts EXCEPT ![w] = @ + 1]
      /\ s.nr_error_queries = r.nr_error_queries + One(a.error)
      /\ s.nr_queries_rows_differ =
           r.nr_queries_rows_differ + One(~ignore /\ a.rows_sent # e.rows_sent)
      /\ s.nr_expected_rows_sent = r.nr_expected_rows_sent + e.rows_sent
      /\ s.nr_actual_rows_sent = r.nr_actual_rows_sent + a.rows_sent
      /\ s.nr_quicker_queries = r.nr_quicker_queries + One(Quicker(e, a))
      /\ s.nr_slower_queries = r.nr_slower_queries + One(Slower(e, a))
  BY SimpleReportAdds
<1> HIDE DEF x, e, a, ignore
<1>5. /\ r.total_execution_time \in Nat /\ r.expected_total_execution_time \in Nat
      /\ r.nr_queries_executed \in Nat /\ r.connection_query_counts \in [Threads -> Nat]
      /\ r.nr_error_queries \in Nat /\ r.nr_queries_rows_differ \in Nat
      /\ r.nr_expected_rows_sent \in Nat /\ r.nr_actual_rows_sent \in Nat
      /\ r.nr_quicker_queries \in Nat /\ r.nr_slower_queries \in Nat
      /\ e.duration \in Nat /\ a.duration \in Nat /\ e.rows_sent \in Nat /\ a.rows_sent \in Nat
      /\ a.error \in BOOLEAN
  BY <1>1 DEF SimpleReports, QueryResult
<1>6. \A v \in Threads : s.connection_query_counts[v] = nth'[v] - 1
  BY <1>1, <1>4, <1>5 DEF SimpleReportAgrees
<1>7. s.nr_queries_executed = SumFunction(s.connection_query_counts)
  <2> DEFINE f == r.connection_query_counts
             g == s.connection_query_counts
  <2>1. /\ f \in [Threads -> Nat] /\ g \in [Threads -> Nat]
        /\ \A v \in Threads : g[v] = f[v] + (IF v = w THEN 1 ELSE 0)
    BY <1>4, <1>5
  <2>2. SumFunction(g) = SumFunction(f) + 1
    <3> HIDE DEF f, g
    <3>1. IsFiniteSet(Threads) /\ 1 \in Nat
      BY WorkAssumption
    <3>2. f \in [Threads -> Nat] /\ g \in [Threads -> Nat]
      BY <2>1
    <3>3. (\A v \in Threads : g[v] = f[v] + (IF v = w THEN 1 ELSE 0)) =>
            SumFunction(g) = SumFunction(f) + 1
      BY <3>1, <3>2, SumPlus, SMTT(30)
    <3> QED
      BY <2>1, <3>3
  <2> QED
    BY <1>4, <2>2 DEF SimpleReportAgrees
<1>8. s.nr_quicker_queries + s.nr_slower_queries = Cardinality(timed)'
  <2>1. One(Quicker(e, a)) + One(Slower(e, a)) = One(e.duration # 0)
    BY <1>1, QuickerOrSlower
  <2>2. One(Quicker(e, a)) \in Nat /\ One(Slower(e, a)) \in Nat
    BY OneType
  <2> QED
    BY <1>2, <1>4, <1>5, <2>1, <2>2 DEF SimpleReportAgrees
<1>9. /\ s.nr_quicker_queries <= s.nr_queries_executed
      /\ s.nr_quicker_queries = s.nr_queries_executed =>
           s.total_execution_time + s.nr_queries_executed <= s.expected_total_execution_time
  <2>1. /\ r.nr_quicker_queries <= r.nr_queries_executed
        /\ r.nr_quicker_queries = r.nr_queries_executed =>
             r.total_execution_time + r.nr_queries_executed <= r.expected_total_execution_time
    BY DEF QuickerInv
  <2>2. /\ One(Quicker(e, a)) \in Nat /\ One(Quicker(e, a)) <= 1
        /\ One(Quicker(e, a)) = 1 => a.duration + 1 <= e.duration
    BY <1>1, QuickerOrSlower
  <2> QED
    BY <1>4, <1>5, <2>1, <2>2
<1>10. s.nr_queries_executed > 0 /\ s.nr_quicker_queries = s.nr_queries_executed =>
         s.total_execution_time < s.expected_total_execution_time
  BY <1>4, <1>5, <1>9
<1>11. s.nr_queries_rows_differ = 0 /\ ~ignore =>
         s.nr_expected_rows_sent = s.nr_actual_rows_sent
  BY <1>4, <1>5 DEF SimpleReportAgrees, One, ignore
<1>12. s.nr_error_queries > 0 => \E y \in reported' : q(y).answer.error
  <2>1. CASE a.error
    BY <1>1, <1>3, <2>1
  <2>2. CASE ~a.error
    BY <1>1, <1>4, <1>5, <2>2 DEF SimpleReportAgrees, One
  <2> QED
    BY <2>1, <2>2
<1>13. config.dbclient = "null" => s.nr_error_queries = 0 /\ s.nr_queries_rows_differ = 0
  BY <1>3, <1>4, <1>5 DEF SimpleReportAgrees, One
<1> QED
  BY <1>1, <1>6, <1>7, <1>8, <1>9, <1>10, <1>11, <1>12, <1>13
     DEF SimpleReportAgrees, QuickerInv, ignore

(* The sums over the words, after the query has been added.                *)
LEMMA FullReportSums ==
  ASSUME StateInv, NEW w \in Threads, Report(w), "full_report" \in config.active
  PROVE  LET e == expected_result(query(w))
             a == result(query(w), duration(w))
             f == full_report
             g == full_report'
             n(c) == IF query(w).words \cap Words # {} THEN c ELSE 0
         IN  /\ SumFunction(g.nr) = SumFunction(f.nr) + n(1)
             /\ SumFunction(g.nr_faster) = SumFunction(f.nr_faster) + n(One(Quicker(e, a)))
             /\ SumFunction(g.nr_slower) = SumFunction(f.nr_slower) + n(One(Slower(e, a)))
             /\ SumFunction(f.nr) \in Nat /\ SumFunction(f.nr_faster) \in Nat
             /\ SumFunction(f.nr_slower) \in Nat
             /\ \A k \in Words :
                  LET m(c) == IF k \in CountedAs(query(w).words) THEN c ELSE 0
                  IN  /\ g.nr[k] = f.nr[k] + m(1)
                      /\ g.nr_faster[k] = f.nr_faster[k] + m(One(Quicker(e, a)))
                      /\ g.nr_slower[k] = f.nr_slower[k] + m(One(Slower(e, a)))
             /\ g.total_execution_time = f.total_execution_time + a.duration
             /\ g.expected_total_execution_time = f.expected_total_execution_time + e.duration
<1> DEFINE e == expected_result(query(w))
           a == result(query(w), duration(w))
           f == full_report
           g == full_report'
           words == query(w).words
<1>1. /\ e \in QueryResult /\ a \in QueryResult /\ f \in FullReports
      /\ g = FullReport(words, e, a)
  BY ReportStep DEF query_execution
<1>2. /\ One(Quicker(e, a)) \in Nat /\ One(Slower(e, a)) \in Nat
      /\ f.nr \in [Words -> Nat] /\ f.nr_faster \in [Words -> Nat]
      /\ f.nr_slower \in [Words -> Nat]
  BY <1>1, OneType DEF FullReports
<1> HIDE DEF e, a, f, g, words
<1> DEFINE Added(counts, n) ==
             [k \in Words |-> counts[k] + (IF k \in CountedAs(words) THEN n ELSE 0)]
<1>3. /\ g.nr = Added(f.nr, 1)
      /\ g.nr_faster = Added(f.nr_faster, One(Quicker(e, a)))
      /\ g.nr_slower = Added(f.nr_slower, One(Slower(e, a)))
      /\ g.total_execution_time = f.total_execution_time + a.duration
      /\ g.expected_total_execution_time = f.expected_total_execution_time + e.duration
  BY <1>1, FullReportFields DEF f
<1>4. ASSUME NEW counts \in [Words -> Nat], NEW n \in Nat
      PROVE  SumFunction(Added(counts, n)) =
               SumFunction(counts) + (IF words \cap Words # {} THEN n ELSE 0)
  BY SumAdd
<1>5. /\ SumFunction(f.nr) \in Nat /\ SumFunction(f.nr_faster) \in Nat
      /\ SumFunction(f.nr_slower) \in Nat
  BY <1>2, SumType, WordsFinite
<1>6. \A k \in Words :
        LET m(c) == IF k \in CountedAs(words) THEN c ELSE 0
        IN  /\ g.nr[k] = f.nr[k] + m(1)
            /\ g.nr_faster[k] = f.nr_faster[k] + m(One(Quicker(e, a)))
            /\ g.nr_slower[k] = f.nr_slower[k] + m(One(Slower(e, a)))
  BY <1>3
<1> HIDE DEF Added
<1>7. SumFunction(g.nr) = SumFunction(f.nr) + (IF words \cap Words # {} THEN 1 ELSE 0)
  BY <1>2, <1>3, <1>4
<1>8. SumFunction(g.nr_faster) =
        SumFunction(f.nr_faster) + (IF words \cap Words # {} THEN One(Quicker(e, a)) ELSE 0)
  BY <1>2, <1>3, <1>4
<1>9. SumFunction(g.nr_slower) =
        SumFunction(f.nr_slower) + (IF words \cap Words # {} THEN One(Slower(e, a)) ELSE 0)
  BY <1>2, <1>3, <1>4
<1> QED
  BY <1>3, <1>5, <1>6, <1>7, <1>8, <1>9 DEF e, a, f, g, words

(* The full report agrees with the log then,                               *)
LEMMA FullReportStep ==
  ASSUME StateInv, FullReportAgrees, NEW w \in Threads, Report(w),
         "full_report" \in config.active
  PROVE  FullReportAgrees'
<1> DEFINE e == expected_result(query(w))
           a == result(query(w), duration(w))
           f == full_report
           g == full_report'
           words == query(w).words
           faster == One(Quicker(e, a))
           slower == One(Slower(e, a))
           n(c) == IF words \cap Words # {} THEN c ELSE 0
           m(k, c) == IF k \in CountedAs(words) THEN c ELSE 0
<1>1. e \in QueryResult /\ a \in QueryResult /\ f \in FullReports
  BY ReportStep
<1>2. /\ faster + slower = One(e.duration # 0)
      /\ faster \in Nat /\ slower \in Nat
  BY <1>1, QuickerOrSlower
<1>3. /\ SumFunction(g.nr) = SumFunction(f.nr) + n(1)
      /\ SumFunction(g.nr_faster) = SumFunction(f.nr_faster) + n(faster)
      /\ SumFunction(g.nr_slower) = SumFunction(f.nr_slower) + n(slower)
      /\ SumFunction(f.nr) \in Nat /\ SumFunction(f.nr_faster) \in Nat
      /\ SumFunction(f.nr_slower) \in Nat
      /\ \A k \in Words : /\ g.nr[k] = f.nr[k] + m(k, 1)
                          /\ g.nr_faster[k] = f.nr_faster[k] + m(k, faster)
                          /\ g.nr_slower[k] = f.nr_slower[k] + m(k, slower)
  BY FullReportSums
<1>4. /\ \A k : Cardinality(With(k))' = Cardinality(With(k)) + One(words \cap k # {})
      /\ Cardinality(With(Words) \cap timed)' =
           Cardinality(With(Words) \cap timed) + One(words \cap Words # {} /\ e.duration # 0)
  BY ReportCounts
<1>5. /\ \A k \in Words : f.nr[k] \in Nat /\ f.nr_faster[k] \in Nat /\ f.nr_slower[k] \in Nat
      /\ \A k : Cardinality(With(k)) \in Nat
  <2>1. \A k : IsFiniteSet(With(k))
    BY ReportedFinite, FS_Subset DEF With, StateInv
  <2> QED
    BY <1>1, <2>1, FS_CardinalityType DEF FullReports
<1> HIDE DEF e, a, f, g, words, faster, slower, n, m
<1>6. ASSUME NEW k \in Words
      PROVE  /\ g.nr[k] <= Cardinality(With({k}))'
             /\ g.nr_faster[k] + g.nr_slower[k] <= g.nr[k]
  <2>1. /\ f.nr[k] <= Cardinality(With({k}))
        /\ f.nr_faster[k] + f.nr_slower[k] <= f.nr[k]
    BY DEF FullReportAgrees, f
  <2>2. k \in CountedAs(words) => words \cap {k} # {}
    BY CountedOnce
  <2>3. Cardinality(With({k}))' = Cardinality(With({k})) + One(words \cap {k} # {})
    BY <1>4
  <2>4. Cardinality(With({k})) \in Nat
    BY <1>5
  <2>5. faster + slower <= 1
    BY <1>2 DEF One
  <2> QED
    BY <1>2, <1>3, <1>5, <2>1, <2>2, <2>3, <2>4, <2>5 DEF One, m
<1>7. SumFunction(g.nr) = Cardinality(With(Words))'
  BY <1>3, <1>4 DEF FullReportAgrees, One, n, f
<1>8. SumFunction(g.nr_faster) + SumFunction(g.nr_slower) = Cardinality(With(Words) \cap timed)'
  BY <1>2, <1>3, <1>4 DEF FullReportAgrees, One, n, f
<1> QED
  BY <1>6, <1>7, <1>8 DEF FullReportAgrees, g

(* and with the simple report,                                             *)
LEMMA FullWithSimpleStep ==
  ASSUME StateInv, FullAgreesWithSimple, NEW w \in Threads, Report(w),
         "simple_report" \in config.active, "full_report" \in config.active
  PROVE  FullAgreesWithSimple'
<1> DEFINE e == expected_result(query(w))
           a == result(query(w), duration(w))
           f == full_report
           g == full_report'
           r == simple_report
           s == simple_report'
<1>1. r \in SimpleReports
  BY ReportStep
<1>2. \E m, n \in {0, 1} :
        /\ SumFunction(g.nr_faster) = SumFunction(f.nr_faster) + m * One(Quicker(e, a))
        /\ SumFunction(g.nr_slower) = SumFunction(f.nr_slower) + n * One(Slower(e, a))
  BY FullReportSums, OneType
<1>3. /\ SumFunction(f.nr_faster) \in Nat /\ SumFunction(f.nr_slower) \in Nat
      /\ g.total_execution_time = f.total_execution_time + a.duration
      /\ g.expected_total_execution_time = f.expected_total_execution_time + e.duration
  BY FullReportSums
<1>4. /\ s.total_execution_time = r.total_execution_time + a.duration
      /\ s.expected_total_execution_time = r.expected_total_execution_time + e.duration
      /\ s.nr_quicker_queries = r.nr_quicker_queries + One(Quicker(e, a))
      /\ s.nr_slower_queries = r.nr_slower_queries + One(Slower(e, a))
  BY SimpleReportAdds
<1> HIDE DEF e, a
<1>5. r.nr_quicker_queries \in Nat /\ r.nr_slower_queries \in Nat
  BY <1>1 DEF SimpleReports
<1>6. /\ SameTimes(f, r)
      /\ SumFunction(f.nr_faster) <= r.nr_quicker_queries
      /\ SumFunction(f.nr_slower) <= r.nr_slower_queries
  BY DEF FullAgreesWithSimple
<1>7. SameTimes(g, s)
  BY <1>3, <1>4, <1>6 DEF SameTimes
<1>8. /\ SumFunction(g.nr_faster) <= s.nr_quicker_queries
      /\ SumFunction(g.nr_slower) <= s.nr_slower_queries
  BY <1>2, <1>3, <1>4, <1>5, <1>6 DEF One
<1> QED
  BY <1>7, <1>8 DEF FullAgreesWithSimple, SameTimes

(* and so does the error report.                                           *)
LEMMA ErrorWithSimpleStep ==
  ASSUME StateInv, ErrorAgreesWithSimple, NEW w \in Threads, Report(w),
         "simple_report" \in config.active, "error_report" \in config.active
  PROVE  ErrorAgreesWithSimple'
<1> DEFINE e == expected_result(query(w))
           a == result(query(w), duration(w))
           r == simple_report
           s == simple_report'
<1>1. /\ e \in QueryResult /\ a \in QueryResult /\ r \in SimpleReports
      /\ error_report \in ErrorReports /\ error_report' = ErrorReport(e, a)
  BY ReportStep DEF query_execution
<1>2. /\ s.total_execution_time = r.total_execution_time + a.duration
      /\ s.expected_total_execution_time = r.expected_total_execution_time + e.duration
      /\ s.nr_slower_queries = r.nr_slower_queries + One(Slower(e, a))
  BY SimpleReportAdds
<1> HIDE DEF e, a
<1>3. /\ error_report'.total_execution_time = error_report.total_execution_time + a.duration
      /\ error_report'.expected_total_execution_time =
           error_report.expected_total_execution_time + e.duration
      /\ error_report'.printed =
           error_report.printed + One(Slower(e, a) /\ a.duration # e.duration)
  BY <1>1, ErrorReportFields
<1>4. r.nr_slower_queries \in Nat /\ error_report.printed \in Nat
  BY <1>1 DEF SimpleReports, ErrorReports
<1> QED
  BY <1>2, <1>3, <1>4 DEF ErrorAgreesWithSimple, SameTimes, One

(* Together: after a query has been reported the reports agree,            *)
LEMMA ReportReportsInv ==
  ASSUME IInv, NEW w \in Threads, Report(w)
  PROVE  ReportsInv'
<1>1. StateInv /\ ReportsAgree /\ QuickerInv
  BY DEF IInv, ReportsInv
<1>2. /\ UNCHANGED config
      /\ "simple_report" \notin config.active => simple_report' = simple_report
  BY <1>1, ReportStep DEF query_execution
<1>3. "simple_report" \in config.active => SimpleReportAgrees' /\ QuickerInv'
  BY <1>1, ReportsAgreeParts, SimpleReportStep
<1>4. QuickerInv'
  BY <1>2, <1>3 DEF QuickerInv
<1>5. "full_report" \in config.active => FullReportAgrees'
  BY <1>1, ReportsAgreeParts, FullReportStep
<1>6. {"simple_report", "full_report"} \subseteq config.active => FullAgreesWithSimple'
  BY <1>1, ReportsAgreeParts, FullWithSimpleStep
<1>7. {"simple_report", "error_report"} \subseteq config.active => ErrorAgreesWithSimple'
  BY <1>1, ReportsAgreeParts, ErrorWithSimpleStep
<1>8. ReportsAgree'
  BY <1>2, <1>3, <1>5, <1>6, <1>7 DEF ReportsAgree, FullReportAgrees, FullAgreesWithSimple,
     ErrorAgreesWithSimple, SameTimes, With
<1> QED
  BY <1>4, <1>8 DEF ReportsInv

(* as they do after any other step,                                        *)
LEMMA OtherReportsInv ==
  ASSUME ReportsInv, UNCHANGED <<options, nth, reports>>
  PROVE  ReportsInv'
<1>1. /\ UNCHANGED <<config, work, nth, simple_report, full_report, error_report>>
      /\ reported' = reported /\ timed' = timed
  BY DEF options, reports, reported, timed, q
<1>2. ReportsAgree'
  BY <1>1 DEF ReportsInv, ReportsAgree, SimpleReportAgrees, q
<1>3. QuickerInv'
  BY <1>1 DEF ReportsInv, QuickerInv
<1> QED
  BY <1>2, <1>3 DEF ReportsInv

(* and when nothing has been counted.                                      *)
LEMMA InitReportsInv == Init => ReportsInv
<1> SUFFICES ASSUME Init PROVE ReportsInv
  OBVIOUS
<1> DEFINE zeros == [k \in Words |-> 0]
<1>1. reported = {} /\ timed = {} /\ \A k : With(k) = {}
  BY DEF Init, reported, timed, With
<1>2. Cardinality({}) = 0
  BY FS_EmptySet
<1>3. /\ SumFunction(zeros) = 0
      /\ SumFunction([t \in Threads |-> 0]) = 0
  BY SumZero, WordsFinite, WorkAssumption
<1>4. SimpleReportAgrees
  BY <1>1, <1>2, <1>3 DEF Init, ReportsInit, SimpleReportAgrees
<1>5. FullReportAgrees
  BY <1>1, <1>2, <1>3, SMTT(30) DEF Init, ReportsInit, FullReportAgrees
<1>6. FullAgreesWithSimple /\ ErrorAgreesWithSimple
  BY <1>3 DEF Init, ReportsInit, FullAgreesWithSimple, ErrorAgreesWithSimple, SameTimes
<1>7. QuickerInv
  BY DEF Init, ReportsInit, QuickerInv
<1> QED
  BY <1>4, <1>5, <1>6, <1>7, ReportsAgreeParts DEF ReportsInv

LEMMA NextIInv == IInv /\ [Next]_vars => IInv'
<1> SUFFICES ASSUME IInv, [Next]_vars PROVE IInv'
  OBVIOUS
<1>1. StateInv'
  BY NextStateInv DEF IInv
<1>2. ReportsInv'
  <2>1. CASE \E w \in Threads : Report(w)
    BY <2>1, ReportReportsInv
  <2>2. CASE ~ \E w \in Threads : Report(w)
    <3>1. UNCHANGED <<options, nth, reports>>
      BY <2>2 DEF Next, execute, Tick, Done, vars, Enter, Measure, CasOK, CasFail, NotBehind,
         Send, Answer, casOthers, sendOthers
    <3> QED
      BY <3>1, OtherReportsInv DEF IInv
  <2> QED
    BY <2>1, <2>2
<1> QED
  BY <1>1, <1>2 DEF IInv

-----------------------------------------------------------------------------
(* and in every state: the offset has one value at most, the atomic        *)
(* maximum covers every thread that is not about to update it, no sleep    *)
(* ends too early, and the counters of the reports fit what was reported.  *)
THEOREM Invariance == Spec => []IInv
<1>1. Init => IInv
  BY InitStateInv, InitReportsInv DEF IInv, StateInv
<1> QED
  BY <1>1, NextIInv, PTL DEF Spec

(* Every variable has its type, the reports included.                      *)
THEOREM TypeCorrect == Spec => []TypeOK
<1>1. IInv => TypeOK
  BY DEF IInv, StateInv
<1> QED
  BY <1>1, Invariance, PTL

(* What the reports show agrees with the log, and what one shows with what *)
(* the others do, however the threads that report to them interleave.      *)
THEOREM ReportsRight == Spec => []ReportsAgree
<1>1. IInv => ReportsAgree
  BY DEF IInv, ReportsInv
<1> QED
  BY <1>1, Invariance, PTL

(* In accurate mode no query is sent before its start time in the log,     *)
(* moved by the offset that the first thread determined.                   *)
THEOREM NeverTooEarly == Spec => []NeverEarly
<1>1. IInv => NeverEarly
  BY DEF IInv, StateInv, ThreadInv, ThreadInvOf, DueInvOf, NeverEarly
<1> QED
  BY <1>1, Invariance, PTL

(* The compare-exchange loop loses no delay: a thread that has left it     *)
(* leaves a maximum that is at least what the thread has measured.         *)
THEOREM NoDelayLost == Spec => []DelayCovered
<1>1. IInv => DelayCovered
  BY DEF IInv, StateInv, ThreadInv, ThreadInvOf, DelayInvOf, DelayCovered
<1> QED
  BY <1>1, Invariance, PTL

(* Nor does it ever write a smaller delay over a larger one: the loop, of  *)
(* several reads and exchanges which other threads may come between, does  *)
(* what one atomic step would that takes the maximum.                      *)
THEOREM AtomicMaximum == Spec => DelayIsMaximum
<1> DEFINE Maximum ==
      /\ \A w \in Threads : Leaves(w) => g_max_behind_ns' = LargerDelay(w)
      /\ g_max_behind_ns' # g_max_behind_ns => \E w \in Threads : Leaves(w)
<1>1. IInv /\ [Next]_vars => [Maximum]_vars
  <2> SUFFICES ASSUME IInv, Next PROVE Maximum
    OBVIOUS
  <2>0. /\ g_max_behind_ns \in Nat
        /\ \A w \in Threads : /\ time_diff[w] \in Int /\ current_val[w] \in Int
                              /\ pc[w] = "cas" => current_val[w] <= g_max_behind_ns
        /\ pc \in [Threads -> {"pop", "measure", "cas", "sleep", "send", "preserve"}]
    BY DEF IInv, StateInv, TypeOK, ThreadInv, ThreadInvOf, DelayInvOf
  <2>1. CASE \E v \in Threads : CasOK(v)
    <3>1. PICK v \in Threads : CasOK(v)
      BY <2>1
    <3>2. /\ pc[v] = "cas" /\ g_max_behind_ns < -time_diff[v]
          /\ g_max_behind_ns' = -time_diff[v]
          /\ pc' = [pc EXCEPT ![v] = "sleep"]
      BY <3>1 DEF CasOK, SleepFor, Behind, Matches
    <3>3. Leaves(v) /\ \A w \in Threads : Leaves(w) => w = v
      BY <2>0, <3>2 DEF Leaves
    <3> QED
      BY <2>0, <3>2, <3>3 DEF LargerDelay
  <2>2. CASE \E v \in Threads : NotBehind(v)
    <3>1. PICK v \in Threads : NotBehind(v)
      BY <2>2
    <3>2. /\ pc[v] = "cas" /\ ~(current_val[v] < -time_diff[v])
          /\ g_max_behind_ns' = g_max_behind_ns
          /\ pc' = [pc EXCEPT ![v] = "sleep"]
      BY <3>1 DEF NotBehind, SleepFor, Behind
    <3>3. \A w \in Threads : Leaves(w) => w = v
      BY <2>0, <3>2 DEF Leaves
    <3>4. LargerDelay(v) = g_max_behind_ns
      BY <2>0, <3>2 DEF LargerDelay
    <3> QED
      BY <3>2, <3>3, <3>4
  <2>3. CASE ~\E v \in Threads : CasOK(v) \/ NotBehind(v)
    <3>1. g_max_behind_ns' = g_max_behind_ns
      BY <2>3 DEF Next, execute, Tick, Done, vars, Enter, Measure, CasFail, Send, Answer,
         Report, sendOthers
    <3>2. \A w \in Threads : ~Leaves(w)
      BY <2>0, <2>3 DEF Leaves, Next, execute, Tick, Done, vars, Enter, Measure, CasFail,
         Reload, Send, Answer, Report, sendOthers
    <3> QED
      BY <3>1, <3>2
  <2> QED
    BY <2>1, <2>2, <2>3
<1> QED
  BY <1>1, Invariance, PTL DEF Spec, DelayIsMaximum

(* A thread that preserves the time of its queries goes on to the next one *)
(* no sooner than the log did, if usleep can count what was left of the    *)
(* time; and the report has been told of the answer's time only.           *)
THEOREM TimePreserved == Spec => QueryTimePreserved
<1> DEFINE Preserved ==
      \A w \in Threads : nth'[w] # nth[w] =>
        /\ g_preserve_query_time /\ Countable(w) => now - start[w] >= query(w).query_time
        /\ "simple_report" \in config.active => TimeAdded = duration(w)
<1>1. IInv /\ [Next]_vars => [Preserved]_vars
  <2> SUFFICES ASSUME IInv, Next, NEW w \in Threads, nth'[w] # nth[w]
               PROVE  /\ g_preserve_query_time /\ Countable(w) =>
                           now - start[w] >= query(w).query_time
                      /\ "simple_report" \in config.active => TimeAdded = duration(w)
    BY DEF vars
  <2>1. PICK v \in Threads : Report(v)
    BY DEF Next, execute, Tick, Done, vars, Enter, Measure, CasFail, CasOK, NotBehind, Send,
       Answer, casOthers, sendOthers
  <2>2. v = w
    BY <2>1 DEF Report, IInv, TypeOK
  <2>3. /\ pc[w] = "preserve" /\ now >= wake[w] /\ ~Finished(w)
        /\ g_preserve_query_time /\ Countable(w) => wake[w] >= start[w] + query(w).query_time
    BY <2>1, <2>2 DEF Report, IInv, StateInv, ThreadInv, ThreadInvOf, SleepInvOf
  <2>4. /\ now \in Nat /\ wake[w] \in Int /\ start[w] \in Nat
        /\ query(w).query_time \in Nat
    BY <2>3, QueryType DEF IInv, StateInv, TypeOK
  <2>5. g_preserve_query_time /\ Countable(w) => now - start[w] >= query(w).query_time
    BY <2>3, <2>4
  <2>6. ASSUME "simple_report" \in config.active PROVE TimeAdded = duration(w)
    <3> DEFINE a == result(query(w), duration(w))
    <3>1. simple_report'.total_execution_time = simple_report.total_execution_time + a.duration
      BY <2>1, <2>2, <2>6 DEF Report, query_execution, SimpleReport, AddTimes, IInv, StateInv,
         TypeOK, ReportsTypeOK
    <3>2. a.duration = duration(w) /\ duration(w) \in Int
      BY <2>3, ResultType DEF IInv, result, QueryResult
    <3>3. simple_report.total_execution_time \in Nat
      BY DEF IInv, StateInv, TypeOK, ReportsTypeOK
    <3> HIDE DEF a
    <3> QED
      BY <3>1, <3>2, <3>3 DEF TimeAdded
  <2> QED
    BY <2>5, <2>6
<1> QED
  BY <1>1, Invariance, PTL DEF Spec, QueryTimePreserved
=============================================================================
