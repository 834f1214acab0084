--------------------------- MODULE QueryLogProofs ---------------------------
(***************************************************************************)
(* Theorems about QueryLog, for every log of every length.                 *)
(***************************************************************************)
EXTENDS QueryLog, FiniteSetTheorems, TLAPS

-----------------------------------------------------------------------------
(* The inductive invariant: what has been read, which entries there are,   *)
(* what their start times are and how they are sorted.                     *)

(* The lines before this one have been read, but for those of the block    *)
(* that is being read.                                                     *)
here == IF lpc = "block" THEN first ELSE line

Reading == lpc \in {"line", "block"}

(* The lines before a line at which blocks start, and those of them whose  *)
(* blocks have a query.                                                    *)
StartsBefore(n)  == {k \in DOMAIN data : Starts(k) /\ k < n}
QueriesBefore(n) == {k \in Queries : k < n}

(* What is known of the block being read, and where a block may start.     *)
ReadInv ==
  /\ next_line # 0 => pos = next_line + 1
  /\ lpc = "block" =>
       /\ next_line = 0 /\ first \in 1 .. pos - 1
       /\ Starts(first) /\ IsComment(first)
       /\ \A j \in first + 1 .. pos - 1 : ~StopsBlock(j)
       /\ num_sql_lines > 0 <=> \E j \in first .. pos - 1 : ~IsComment(j)
  /\ lpc = "line" /\ line <= Len(data) => NoneOpen(line) \/ StopsBlock(line)
  /\ ~Reading => line > Len(data)
  /\ current_timestamp = TimeOf(here)

(* An entry for each block with a query.                                   *)
EntriesInv ==
  /\ {entries[i].first : i \in DOMAIN entries} = QueriesBefore(here)
  /\ \A i \in DOMAIN entries :
       entries[i].last = entries[i].first + Cardinality(BlockOf(entries[i].first)) - 1
  /\ \A i, j \in DOMAIN entries : i # j => entries[i].first # entries[j].first
  /\ num_queries = Len(entries)
  /\ num_queries = Cardinality(QueriesBefore(here))
  /\ num_entries = Cardinality(StartsBefore(here))
  /\ g_accurate_mode => \A i \in DOMAIN entries : TimeOf(entries[i].first) # 0

(* The start time that an entry is made with; those of the entries of its  *)
(* connection up to it, and those of the first entries of a connection.    *)
StartTime(e) == TimeOf(e.first) - parseQueryTime(e.first, e.last)

StartsUpTo(e) ==
  {StartTime(entries[d]) : d \in {d \in DOMAIN entries :
      /\ entries[d].first <= e.first
      /\ parseThreadId(entries[d]) = parseThreadId(e)}} \cup {0}

StartsOf(c, n) ==
  {StartTime(entries[d]) : d \in {d \in 1 .. n : parseThreadId(entries[d]) = c}} \cup {0}

IsLatest(t, times) == t \in times /\ \A u \in times : u <= t

(* The entries before the iterator have been adjusted, and the latest      *)
(* start of each of their connections is remembered.                       *)
AdjustedInv ==
  \A i \in DOMAIN entries :
    IF i < it THEN IsLatest(entries[i].start_time, StartsUpTo(entries[i]))
              ELSE entries[i].start_time = StartTime(entries[i])

RememberedInv ==
  /\ DOMAIN last_timestamp_of_conn = {parseThreadId(entries[i]) : i \in 1 .. it - 1}
  /\ \A c \in DOMAIN last_timestamp_of_conn :
       IsLatest(last_timestamp_of_conn[c], StartsOf(c, it - 1))

AdjustInv ==
  /\ Reading \/ (lpc = "done" /\ ~MustSort) => it = 1
  /\ lpc \in {"sort", "done"} /\ MustSort => it = Len(entries) + 1
  /\ AdjustedInv
  /\ lpc # "done" => RememberedInv

(* The entries have the order of the log until they are sorted.            *)
OrderInv ==
  /\ lpc \in {"adjust", "sort"} => MustSort
  /\ \A i, j \in DOMAIN entries : i < j =>
       IF lpc = "done" /\ MustSort
       THEN \/ entries[i].start_time < entries[j].start_time
            \/ /\ entries[i].start_time = entries[j].start_time
               /\ entries[i].first < entries[j].first
       ELSE entries[i].first < entries[j].first

IInv == TypeOK /\ ReadInv /\ EntriesInv /\ AdjustInv /\ OrderInv

-----------------------------------------------------------------------------
(* Ranks: what std::stable_sort does, whatever it is that it compares.     *)

Below(S, R, x) == {y \in S : <<y, x>> \in R}
Rank(S, R, x)  == Cardinality(Below(S, R, x))

(* The elements of a finite set that a strict total order precedes have    *)
(* ranks, one element for each.                                            *)
LEMMA Ranks ==
  ASSUME NEW S, IsFiniteSet(S), NEW R,
         \A x \in S : <<x, x>> \notin R,
         \A x, y \in S : x # y => <<x, y>> \in R \/ <<y, x>> \in R,
         \A x, y, z \in S : <<x, y>> \in R /\ <<y, z>> \in R => <<x, z>> \in R
  PROVE  /\ Cardinality(S) \in Nat
         /\ \A x \in S : Rank(S, R, x) \in 0 .. Cardinality(S) - 1
         /\ \A x, y \in S : Rank(S, R, x) < Rank(S, R, y) <=> <<x, y>> \in R
         /\ \A k \in 0 .. Cardinality(S) - 1 : \E x \in S : Rank(S, R, x) = k
<1> DEFINE n == Cardinality(S)
<1>1. /\ n \in Nat
      /\ \A x \in S : IsFiniteSet(Below(S, R, x)) /\ Rank(S, R, x) \in Nat
  <2>1. \A x \in S : Below(S, R, x) \in SUBSET S
    BY DEF Below
  <2> QED
    BY <2>1, FS_Subset, FS_CardinalityType DEF Rank
<1>2. ASSUME NEW x \in S
      PROVE  Rank(S, R, x) \in 0 .. n - 1
  <2>1. Below(S, R, x) \in SUBSET S /\ Below(S, R, x) # S
    BY DEF Below
  <2>2. Rank(S, R, x) <= n /\ Rank(S, R, x) # n
    BY <2>1, FS_Subset DEF Rank
  <2> QED
    BY <1>1, <2>2
<1>3. ASSUME NEW x \in S, NEW y \in S, <<x, y>> \in R
      PROVE  Rank(S, R, x) < Rank(S, R, y)
  <2>1. Below(S, R, x) \in SUBSET Below(S, R, y) /\ Below(S, R, x) # Below(S, R, y)
    <3>1. x \in Below(S, R, y) /\ x \notin Below(S, R, x)
      BY <1>3 DEF Below
    <3>2. \A z \in Below(S, R, x) : z \in Below(S, R, y)
      BY <1>3 DEF Below
    <3> QED
      BY <3>1, <3>2
  <2>2. Rank(S, R, x) <= Rank(S, R, y) /\ Rank(S, R, x) # Rank(S, R, y)
    BY <1>1, <2>1, FS_Subset DEF Rank
  <2> QED
    BY <1>1, <2>2
<1> HIDE DEF n
<1>4. ASSUME NEW x \in S, NEW y \in S, x # y
      PROVE  \/ <<x, y>> \in R /\ Rank(S, R, x) < Rank(S, R, y)
             \/ <<y, x>> \in R /\ Rank(S, R, y) < Rank(S, R, x)
  BY <1>3, <1>4
<1>5. ASSUME NEW x \in S, NEW y \in S, Rank(S, R, x) < Rank(S, R, y)
      PROVE  <<x, y>> \in R
  <2>1. Rank(S, R, x) \in Nat /\ Rank(S, R, y) \in Nat /\ x # y
    BY <1>1, <1>5
  <2>2. CASE <<y, x>> \in R
    <3>1. Rank(S, R, y) < Rank(S, R, x)
      BY <1>3, <2>2
    <3> QED
      BY <1>5, <2>1, <3>1
  <2> QED
    BY <2>1, <2>2
<1> DEFINE rank == [x \in S |-> Rank(S, R, x)]
<1>6. rank \in Injection(S, 0 .. n - 1)
  <2>1. rank \in [S -> 0 .. n - 1]
    BY <1>2
  <2>2. ASSUME NEW x \in S, NEW y \in S, x # y
        PROVE  Rank(S, R, x) # Rank(S, R, y)
    <3>1. Rank(S, R, x) \in Nat /\ Rank(S, R, y) \in Nat
      BY <1>1
    <3>2. Rank(S, R, x) < Rank(S, R, y) \/ Rank(S, R, y) < Rank(S, R, x)
      BY <1>4, <2>2
    <3> QED
      BY <3>1, <3>2
  <2>3. \A x, y \in S : rank[x] = rank[y] => x = y
    BY <2>2
  <2> HIDE DEF rank
  <2> QED
    BY <2>1, <2>3 DEF Injection, IsInjective
<1>7. rank \in Surjection(S, 0 .. n - 1)
  <2>1. IsFiniteSet(0 .. n - 1) /\ Cardinality(0 .. n - 1) = n
    BY <1>1, FS_Interval
  <2> HIDE DEF rank
  <2> QED
    BY <1>6, <2>1, FS_Injection DEF n
<1>8. \A k \in 0 .. n - 1 : \E x \in S : Rank(S, R, x) = k
  BY <1>7 DEF Surjection
<1> QED
  BY <1>1, <1>2, <1>3, <1>5, <1>8 DEF n

(* One of them, if there are any, is preceded by none.                     *)
LEMMA Minimum ==
  ASSUME NEW S, IsFiniteSet(S), S # {}, NEW R,
         \A x \in S : <<x, x>> \notin R,
         \A x, y \in S : x # y => <<x, y>> \in R \/ <<y, x>> \in R,
         \A x, y, z \in S : <<x, y>> \in R /\ <<y, z>> \in R => <<x, z>> \in R
  PROVE  \E x \in S : \A y \in S : <<y, x>> \notin R
<1>1. PICK x \in S : Rank(S, R, x) = 0
  <2>1. Cardinality(S) \in Nat /\ Cardinality(S) # 0
    BY FS_EmptySet, FS_CardinalityType
  <2>2. 0 \in 0 .. Cardinality(S) - 1
    BY <2>1
  <2> QED
    BY <2>2, Ranks
<1>2. Below(S, R, x) \in SUBSET S
  BY DEF Below
<1>3. Below(S, R, x) = {}
  BY <1>1, <1>2, FS_EmptySet, FS_Subset DEF Rank
<1> QED
  BY <1>3 DEF Below

(* Some numbers, finitely many but not none, have a least and a greatest.  *)
LEMMA Extremes ==
  ASSUME NEW S \in SUBSET Nat, IsFiniteSet(S), S # {}
  PROVE  /\ \E x \in S : \A y \in S : x <= y
         /\ \E x \in S : \A y \in S : y <= x
<1>1. \E x \in S : \A y \in S : x <= y
  <2> DEFINE R == {p \in S \X S : p[1] < p[2]}
  <2>1. \A x, y \in S : <<x, y>> \in R <=> x < y
    OBVIOUS
  <2> HIDE DEF R
  <2>2. /\ \A x \in S : <<x, x>> \notin R
        /\ \A x, y \in S : x # y => <<x, y>> \in R \/ <<y, x>> \in R
        /\ \A x, y, z \in S : <<x, y>> \in R /\ <<y, z>> \in R => <<x, z>> \in R
    BY <2>1
  <2>3. \E x \in S : \A y \in S : <<y, x>> \notin R
    BY <2>2, Minimum
  <2>4. \E x \in S : \A y \in S : ~(y < x)
    BY <2>1, <2>3
  <2> QED
    BY <2>4
<1>2. \E x \in S : \A y \in S : y <= x
  <2> DEFINE R == {p \in S \X S : p[2] < p[1]}
  <2>1. \A x, y \in S : <<x, y>> \in R <=> y < x
    OBVIOUS
  <2> HIDE DEF R
  <2>2. /\ \A x \in S : <<x, x>> \notin R
        /\ \A x, y \in S : x # y => <<x, y>> \in R \/ <<y, x>> \in R
        /\ \A x, y, z \in S : <<x, y>> \in R /\ <<y, z>> \in R => <<x, z>> \in R
    BY <2>1
  <2>3. \E x \in S : \A y \in S : <<y, x>> \notin R
    BY <2>2, Minimum
  <2>4. \E x \in S : \A y \in S : ~(x < y)
    BY <2>1, <2>3
  <2> QED
    BY <2>4
<1> QED
  BY <1>1, <1>2

-----------------------------------------------------------------------------
(* The lines of the log and what is parsed from them.                      *)

LEMMA DataIs ==
  ASSUME data \in Seq(Line)
  PROVE  /\ Len(data) \in Nat /\ DOMAIN data = 1 .. Len(data)
         /\ \A k \in 1 .. Len(data) :
              /\ data[k].kind \in Kinds
              /\ data[k].id # Absent => data[k].id \in Nat
              /\ data[k].val # Absent => data[k].val \in Nat
         /\ \A ks \in SUBSET (1 .. Len(data)) : IsFiniteSet(ks)
<1>1. Len(data) \in Nat /\ DOMAIN data = 1 .. Len(data)
  OBVIOUS
<1>2. \A k \in 1 .. Len(data) : data[k] \in Line
  OBVIOUS
<1>3. IsFiniteSet(1 .. Len(data))
  BY <1>1, FS_Interval
<1> QED
  BY <1>1, <1>2, <1>3, FS_Subset DEF Line, Number

(* FirstOf is one of the lines, if there are any.                          *)
LEMMA FirstOfIs ==
  ASSUME data \in Seq(Line), NEW ks \in SUBSET (1 .. Len(data))
  PROVE  \/ ks = {} /\ FirstOf(ks) = 0
         \/ FirstOf(ks) \in ks /\ FirstOf(ks) # 0
<1>1. CASE ks = {}
  BY <1>1 DEF FirstOf
<1>2. CASE ks # {}
  <2>1. ks \in SUBSET Nat /\ IsFiniteSet(ks)
    BY DataIs
  <2>2. \E k \in ks : \A j \in ks : k <= j
    BY <1>2, <2>1, Extremes
  <2>3. FirstOf(ks) \in ks
    BY <1>2, <2>2 DEF FirstOf
  <2> QED
    BY <2>3, DataIs
<1> QED
  BY <1>1, <1>2

LEMMA ParsedIs ==
  ASSUME data \in Seq(Line), NEW e, e.first \in Nat \ {0}, e.last \in Nat, e.last <= Len(data)
  PROVE  /\ parseThreadId(e) \in Nat
         /\ parseQueryTime(e.first, e.last) \in Nat
<1> DEFINE withId   == {k \in e.first .. e.last : data[k].id # Absent}
           meta     == {k \in withId : data[k].kind = "meta"}
           withTime == {k \in e.first .. e.last : data[k].kind = "meta" /\ data[k].val # Absent}
<1>1. e.first .. e.last \subseteq 1 .. Len(data)
  BY DataIs
<1>2. /\ withId \in SUBSET (1 .. Len(data)) /\ meta \in SUBSET (1 .. Len(data))
      /\ withTime \in SUBSET (1 .. Len(data))
  BY <1>1
<1>3. parseThreadId(e) = IF withId = {} THEN 0
                         ELSE IF FirstOf(meta) # 0 THEN data[FirstOf(meta)].id
                                                   ELSE data[FirstOf(withId)].id
  BY DEF parseThreadId
<1>4. parseQueryTime(e.first, e.last) = IF FirstOf(withTime) = 0 THEN 0
                                        ELSE data[FirstOf(withTime)].val
  BY DEF parseQueryTime
<1> HIDE DEF withId, meta, withTime
<1>5. parseThreadId(e) \in Nat
  <2>1. FirstOf(meta) # 0 => FirstOf(meta) \in meta /\ FirstOf(meta) \in withId
    BY <1>2, FirstOfIs DEF meta
  <2>2. withId # {} => FirstOf(withId) \in withId
    BY <1>2, FirstOfIs
  <2>3. \A k \in withId : k \in 1 .. Len(data) /\ data[k].id # Absent
    BY <1>2 DEF withId
  <2> QED
    BY <1>3, <2>1, <2>2, <2>3, DataIs
<1>6. parseQueryTime(e.first, e.last) \in Nat
  <2>1. FirstOf(withTime) # 0 => FirstOf(withTime) \in withTime
    BY <1>2, FirstOfIs
  <2>2. \A k \in withTime : k \in 1 .. Len(data) /\ data[k].val # Absent
    BY <1>2 DEF withTime
  <2> QED
    BY <1>4, <2>1, <2>2, DataIs
<1> QED
  BY <1>5, <1>6

(* The time of a line of the log: that of the last time line before it.    *)
LEMMA TimeOfIs ==
  ASSUME data \in Seq(Line)
  PROVE  /\ TimeOf(1) = 0
         /\ \A k \in 1 .. Len(data) :
              TimeOf(k + 1) = IF data[k].kind = "time" /\ data[k].val # Absent
                              THEN data[k].val ELSE TimeOf(k)
         /\ \A k \in 1 .. Len(data) + 1 : TimeOf(k) \in Nat
         /\ \A m, n \in 1 .. Len(data) + 1 :
              m <= n /\ (\A k \in m .. n - 1 : data[k].kind # "time") => TimeOf(n) = TimeOf(m)
<1> DEFINE Times(k) == {t \in 1 .. k - 1 : data[t].kind = "time" /\ data[t].val # Absent}
           LatestVal(ts) == IF ts = {} THEN 0
                            ELSE data[CHOOSE t \in ts : \A u \in ts : u <= t].val
<1>1. \A k : TimeOf(k) = LatestVal(Times(k))
  BY DEF TimeOf
<1>2. Len(data) \in Nat
  BY DataIs
<1>3. \A k \in 1 .. Len(data) : Times(k + 1) = IF data[k].kind = "time" /\ data[k].val # Absent
                                               THEN Times(k) \cup {k} ELSE Times(k)
  BY <1>2
<1>4. /\ \A k \in 1 .. Len(data) + 1 : Times(k) \subseteq 1 .. k - 1
      /\ Times(1) = {}
  BY <1>2
<1>5. ASSUME NEW m \in 1 .. Len(data) + 1, NEW n \in 1 .. Len(data) + 1, m <= n,
             \A k \in m .. n - 1 : data[k].kind # "time"
      PROVE  TimeOf(n) = TimeOf(m)
  <2>1. \A t : t \in 1 .. n - 1 /\ data[t].kind = "time" <=> t \in 1 .. m - 1 /\ data[t].kind = "time"
    BY <1>2, <1>5
  <2>2. Times(n) = Times(m)
    BY <2>1
  <2> HIDE DEF Times, LatestVal
  <2> QED
    BY <1>1, <2>2, Zenon
<1> HIDE DEF Times
<1>6. TimeOf(1) = 0
  BY <1>1, <1>4
<1>7. ASSUME NEW k \in 1 .. Len(data)
      PROVE  TimeOf(k + 1) = IF data[k].kind = "time" /\ data[k].val # Absent
                             THEN data[k].val ELSE TimeOf(k)
  <2>1. CASE data[k].kind = "time" /\ data[k].val # Absent
    <3>1. Times(k + 1) = Times(k) \cup {k}
      BY <1>3, <2>1
    <3>2. \A u \in Times(k) : u \in Nat /\ u < k
      BY <1>2, <1>4
    <3>3. k \in Times(k + 1) /\ \A t \in Times(k + 1) : (\A u \in Times(k + 1) : u <= t) <=> t = k
      BY <1>2, <3>1, <3>2
    <3>4. (CHOOSE t \in Times(k + 1) : \A u \in Times(k + 1) : u <= t) = k
      BY <3>3
    <3> QED
      BY <1>1, <2>1, <3>3, <3>4
  <2>2. CASE ~(data[k].kind = "time" /\ data[k].val # Absent)
    <3>1. Times(k + 1) = Times(k)
      BY <1>3, <2>2
    <3> HIDE DEF LatestVal
    <3>2. TimeOf(k + 1) = TimeOf(k)
      BY <1>1, <3>1, Zenon
    <3> QED
      BY <2>2, <3>2
  <2> QED
    BY <2>1, <2>2
<1>8. ASSUME NEW k \in 1 .. Len(data) + 1
      PROVE  TimeOf(k) \in Nat
  <2>1. Times(k) \in SUBSET (1 .. Len(data)) /\ Times(k) \in SUBSET Nat
    BY <1>2, <1>4
  <2>2. CASE Times(k) # {}
    <3>1. \E t \in Times(k) : \A u \in Times(k) : u <= t
      BY <2>1, <2>2, DataIs, Extremes
    <3>2. (CHOOSE t \in Times(k) : \A u \in Times(k) : u <= t) \in Times(k)
      BY <3>1
    <3>3. \A t \in Times(k) : t \in 1 .. Len(data) /\ data[t].val # Absent
      BY <2>1 DEF Times
    <3> QED
      BY <1>1, <2>2, <3>2, <3>3, DataIs
  <2> QED
    BY <1>1, <2>2
<1> QED
  BY <1>5, <1>6, <1>7, <1>8

-----------------------------------------------------------------------------
(* The blocks of the log.                                                  *)

LEMMA BlockIs ==
  ASSUME data \in Seq(Line), NEW k \in 1 .. Len(data)
  PROVE  /\ Cardinality(BlockOf(k)) \in 1 .. Len(data) - k + 1
         /\ BlockOf(k) \subseteq k .. Len(data)
<1>1. Len(data) \in Nat
  BY DataIs
<1>2. BlockOf(k) \subseteq k .. Len(data) /\ k \in BlockOf(k)
  BY <1>1 DEF BlockOf
<1>3. IsFiniteSet(k .. Len(data)) /\ Cardinality(k .. Len(data)) = Len(data) - k + 1
  BY <1>1, FS_Interval
<1>4. /\ Cardinality(BlockOf(k)) <= Len(data) - k + 1
      /\ Cardinality(BlockOf(k)) \in Nat /\ Cardinality(BlockOf(k)) # 0
  BY <1>2, <1>3, FS_Subset, FS_CardinalityType, FS_EmptySet
<1> QED
  BY <1>1, <1>2, <1>4

(* The lines from where a block starts to where it must end are its lines. *)
LEMMA BlockEnds ==
  ASSUME data \in Seq(Line), NEW k \in 1 .. Len(data), NEW m \in k .. Len(data),
         \A j \in k + 1 .. m : ~StopsBlock(j), m < Len(data) => StopsBlock(m + 1)
  PROVE  BlockOf(k) = k .. m /\ Cardinality(BlockOf(k)) = m - k + 1
<1>1. Len(data) \in Nat
  BY DataIs
<1>2. ASSUME NEW i \in k .. Len(data)
      PROVE  i \in BlockOf(k) <=> i <= m
  <2>1. CASE i <= m
    <3>1. \A j \in k + 1 .. i : ~StopsBlock(j)
      BY <1>1, <2>1
    <3> QED
      BY <2>1, <3>1 DEF BlockOf
  <2>2. CASE i > m
    <3>1. m + 1 \in k + 1 .. i /\ StopsBlock(m + 1)
      BY <1>1, <2>2
    <3> QED
      BY <1>1, <2>2, <3>1 DEF BlockOf
  <2> QED
    BY <1>1, <2>1, <2>2
<1>3. BlockOf(k) \subseteq k .. Len(data)
  BY DEF BlockOf
<1>4. BlockOf(k) = k .. m
  <2>1. k .. m = {i \in k .. Len(data) : i <= m}
    BY <1>1
  <2> QED
    BY <1>2, <1>3, <2>1
<1> QED
  BY <1>1, <1>4, FS_Interval

(* Where a block starts and where none does.                               *)
LEMMA StartsIs ==
  ASSUME data \in Seq(Line), NEW k \in 1 .. Len(data)
  PROVE  /\ Starts(k) => IsComment(k) /\ data[k].kind # "time"
         /\ IsComment(k) /\ data[k].kind # "time" /\ (NoneOpen(k) \/ StopsBlock(k)) => Starts(k)
         /\ NoneOpen(k) /\ ~IsComment(k) => NoneOpen(k + 1)
         /\ data[k].kind = "time" => NoneOpen(k + 1)
<1>1. Len(data) \in Nat /\ data[k].kind \in Kinds
  BY DataIs
<1>2. Starts(k) => IsComment(k) /\ data[k].kind # "time"
  BY DEF Starts, IsComment, Comments
<1>3. IsComment(k) /\ data[k].kind # "time" /\ (NoneOpen(k) \/ StopsBlock(k)) => Starts(k)
  BY DEF Starts, StopsBlock, IsComment, Comments
<1>4. ASSUME NoneOpen(k), ~IsComment(k)
      PROVE  NoneOpen(k + 1)
  <2> SUFFICES ASSUME NEW j \in 1 .. k, IsComment(j), data[j].kind # "time"
               PROVE  \E t \in j + 1 .. k : /\ data[t].kind = "time"
                                            /\ \A m \in t + 1 .. k : ~IsComment(m)
    BY <1>1 DEF NoneOpen
  <2>1. j \in 1 .. k - 1
    BY <1>4
  <2>2. PICK t \in j + 1 .. k - 1 : /\ data[t].kind = "time"
                                    /\ \A m \in t + 1 .. k - 1 : ~IsComment(m)
    BY <1>4, <2>1 DEF NoneOpen
  <2>3. t \in j + 1 .. k /\ \A m \in t + 1 .. k : ~IsComment(m)
    BY <1>4, <2>2
  <2> QED
    BY <2>2, <2>3
<1>5. ASSUME data[k].kind = "time"
      PROVE  NoneOpen(k + 1)
  <2> SUFFICES ASSUME NEW j \in 1 .. k, IsComment(j), data[j].kind # "time"
               PROVE  \E t \in j + 1 .. k : /\ data[t].kind = "time"
                                            /\ \A m \in t + 1 .. k : ~IsComment(m)
    BY <1>1 DEF NoneOpen
  <2>1. k \in j + 1 .. k /\ k + 1 .. k = {}
    BY <1>5
  <2> QED
    BY <1>5, <2>1
<1> QED
  BY <1>2, <1>3, <1>4, <1>5

(* None does inside a block.                                               *)
LEMMA NoStartInBlock ==
  ASSUME data \in Seq(Line), NEW k \in 1 .. Len(data), Starts(k), NEW i \in k + 1 .. Len(data),
         \A j \in k + 1 .. i : ~StopsBlock(j)
  PROVE  ~Starts(i)
<1>1. Len(data) \in Nat /\ IsComment(k) /\ data[k].kind # "time"
  BY DataIs, StartsIs
<1>2. data[i].kind # "user" /\ \A t \in k + 1 .. i - 1 : data[t].kind # "time"
  BY <1>1 DEF StopsBlock
<1>3. ~NoneOpen(i)
  BY <1>1, <1>2 DEF NoneOpen
<1> QED
  BY <1>2, <1>3 DEF Starts

(* Nothing of that depends on anything but the log.                        *)
LEMMA DataFixed ==
  ASSUME data' = data
  PROVE  /\ \A k : IsComment(k)' = IsComment(k)
         /\ \A k : StopsBlock(k)' = StopsBlock(k)
         /\ \A k : NoneOpen(k)' = NoneOpen(k)
         /\ \A k : Starts(k)' = Starts(k)
         /\ \A k : BlockOf(k)' = BlockOf(k)
         /\ \A k : TimeOf(k)' = TimeOf(k)
         /\ Queries' = Queries
         /\ \A e : parseThreadId(e)' = parseThreadId(e)
         /\ \A from, to : parseQueryTime(from, to)' = parseQueryTime(from, to)
         /\ \A e : StartTime(e)' = StartTime(e)
<1>1. \A k : IsComment(k)' = IsComment(k) /\ StopsBlock(k)' = StopsBlock(k)
  BY DEF IsComment, StopsBlock
<1>2. \A k : NoneOpen(k)' = NoneOpen(k)
  BY <1>1 DEF NoneOpen
<1>3. \A k : Starts(k)' = Starts(k)
  BY <1>2 DEF Starts
<1>4. \A k : BlockOf(k)' = BlockOf(k)
  BY <1>1 DEF BlockOf
<1>5. \A k : TimeOf(k)' = TimeOf(k)
  BY DEF TimeOf
<1>6. Queries' = Queries
  BY <1>1, <1>3, <1>4 DEF Queries
<1>7. \A e : parseThreadId(e)' = parseThreadId(e)
  BY DEF parseThreadId
<1>8. \A from, to : parseQueryTime(from, to)' = parseQueryTime(from, to)
  BY DEF parseQueryTime
<1>9. \A e : StartTime(e)' = StartTime(e)
  BY <1>5, <1>8 DEF StartTime
<1> QED
  BY <1>1, <1>2, <1>3, <1>4, <1>5, <1>6, <1>7, <1>8, <1>9

-----------------------------------------------------------------------------
(* Reading the lines keeps the invariant.                                  *)

(* What the lines from one to another, no block starting at them, add to   *)
(* these: nothing.  What a block adds: itself, and its query if it has one.*)
LEMMA CountBlocks ==
  ASSUME data \in Seq(Line), NEW m \in Nat \ {0}, NEW n \in m .. Len(data) + 1
  PROVE  /\ (\A k \in m .. n - 1 : ~Starts(k)) =>
              StartsBefore(n) = StartsBefore(m) /\ QueriesBefore(n) = QueriesBefore(m)
         /\ m < n /\ Starts(m) /\ (\A k \in m + 1 .. n - 1 : ~Starts(k)) =>
              /\ Cardinality(StartsBefore(n)) = Cardinality(StartsBefore(m)) + 1
              /\ m \in Queries => /\ QueriesBefore(n) = QueriesBefore(m) \cup {m}
                                  /\ Cardinality(QueriesBefore(n)) = Cardinality(QueriesBefore(m)) + 1
              /\ m \notin Queries => QueriesBefore(n) = QueriesBefore(m)
<1>1. Len(data) \in Nat /\ DOMAIN data = 1 .. Len(data)
  BY DataIs
<1>2. /\ \A k \in Queries : k \in 1 .. Len(data) /\ Starts(k)
      /\ IsFiniteSet(StartsBefore(m)) /\ IsFiniteSet(QueriesBefore(m))
      /\ m \notin StartsBefore(m) /\ m \notin QueriesBefore(m)
  <2>1. StartsBefore(m) \in SUBSET (1 .. Len(data)) /\ QueriesBefore(m) \in SUBSET (1 .. Len(data))
    BY <1>1 DEF StartsBefore, QueriesBefore, Queries
  <2>2. IsFiniteSet(StartsBefore(m)) /\ IsFiniteSet(QueriesBefore(m))
    BY <2>1, DataIs
  <2> QED
    BY <2>2 DEF StartsBefore, QueriesBefore, Queries
<1>3. ASSUME \A k \in m .. n - 1 : ~Starts(k)
      PROVE  StartsBefore(n) = StartsBefore(m) /\ QueriesBefore(n) = QueriesBefore(m)
  <2>1. \A k \in 1 .. Len(data) : Starts(k) => (k < n <=> k < m)
    BY <1>1, <1>3
  <2> QED
    BY <1>1, <1>2, <2>1 DEF StartsBefore, QueriesBefore
<1>4. ASSUME m < n, Starts(m), \A k \in m + 1 .. n - 1 : ~Starts(k)
      PROVE  /\ StartsBefore(n) = StartsBefore(m) \cup {m}
             /\ m \in Queries => QueriesBefore(n) = QueriesBefore(m) \cup {m}
             /\ m \notin Queries => QueriesBefore(n) = QueriesBefore(m)
  <2>1. \A k \in 1 .. Len(data) : Starts(k) => (k < n <=> k < m \/ k = m)
    BY <1>1, <1>4
  <2>2. m \in DOMAIN data
    BY <1>1, <1>4
  <2>3. StartsBefore(n) = StartsBefore(m) \cup {m}
    BY <1>1, <1>4, <2>1, <2>2 DEF StartsBefore
  <2>4. \A k \in Queries : k < n <=> k < m \/ k = m
    BY <1>2, <2>1
  <2> QED
    BY <2>3, <2>4 DEF QueriesBefore
<1> QED
  BY <1>2, <1>3, <1>4, FS_AddElement, SMTT(30)

(* The line that the next iteration is about, and the one after it.        *)
LEMMA LineIs ==
  ASSUME TypeOK, ReadInv
  PROVE  /\ data \in Seq(Line) /\ Len(data) \in Nat /\ DOMAIN data = 1 .. Len(data)
         /\ line \in 1 .. Len(data) + 1 /\ after = line + 1
<1>1. data \in Seq(Line) /\ Len(data) \in Nat /\ DOMAIN data = 1 .. Len(data)
  BY DataIs DEF TypeOK
<1>2. /\ next_line \in 0 .. Len(data) /\ pos \in 1 .. Len(data) + 1
      /\ next_line # 0 => pos = next_line + 1
  BY DEF TypeOK, ReadInv
<1>3. line \in 1 .. Len(data) + 1 /\ after = line + 1
  BY <1>1, <1>2 DEF line, after
<1> QED
  BY <1>1, <1>3

(* A step that changes neither the entries nor what is known of them.      *)
LEMMA SameEntries ==
  ASSUME UNCHANGED <<data, entries, sortVars>>
  PROVE  /\ AdjustedInv => AdjustedInv'
         /\ RememberedInv => RememberedInv'
<1> USE DEF sortVars
<1>1. /\ \A e : StartsUpTo(e)' = StartsUpTo(e)
      /\ \A c, n : StartsOf(c, n)' = StartsOf(c, n)
  BY DataFixed DEF StartsUpTo, StartsOf
<1>2. AdjustedInv => AdjustedInv'
  BY <1>1, DataFixed DEF AdjustedInv
<1>3. RememberedInv => RememberedInv'
  BY <1>1, DataFixed DEF RememberedInv
<1> QED
  BY <1>2, <1>3

(* Nothing has been read initially.                                        *)
LEMMA InitIInv == Init => IInv
<1> SUFFICES ASSUME Init PROVE IInv
  OBVIOUS
<1> USE DEF Init
<1>1. /\ data \in Seq(Line) /\ Len(data) \in Nat /\ DOMAIN data = 1 .. Len(data)
      /\ line = 1 /\ here = 1
  BY TextsAssumption, DataIs DEF here, line
<1>2. TypeOK
  BY <1>1 DEF TypeOK
<1>3. ReadInv
  <2>1. NoneOpen(1)
    BY DEF NoneOpen
  <2> QED
    BY <1>1, <2>1, TimeOfIs DEF ReadInv, Reading
<1>4. EntriesInv
  <2>1. QueriesBefore(1) = {} /\ StartsBefore(1) = {}
    BY <1>1 DEF QueriesBefore, StartsBefore, Queries
  <2>2. DOMAIN entries = {} /\ Len(entries) = 0
    OBVIOUS
  <2>3. {entries[i].first : i \in DOMAIN entries} = {}
    BY <2>2
  <2>4. num_queries = 0 /\ num_entries = 0
    OBVIOUS
  <2> HIDE DEF Init
  <2> QED
    BY <1>1, <2>1, <2>2, <2>3, <2>4, FS_EmptySet DEF EntriesInv
<1>5. AdjustInv
  BY DEF AdjustInv, AdjustedInv, RememberedInv, Reading
<1>6. OrderInv
  BY DEF OrderInv
<1> QED
  BY <1>2, <1>3, <1>4, <1>5, <1>6 DEF IInv

(* A line is passed at which no block starts.                              *)
LEMMA PassIInv ==
  ASSUME IInv, HasLine, Consume, ~Starts(line), NoneOpen(line + 1),
         current_timestamp' = TimeOf(line + 1),
         UNCHANGED <<options, first, num_sql_lines, entries, counts, sortVars, lpc>>
  PROVE  IInv'
<1> USE DEF IInv, options, counts
<1>1. /\ data \in Seq(Line) /\ Len(data) \in Nat /\ DOMAIN data = 1 .. Len(data)
      /\ line \in 1 .. Len(data) /\ pos' = line + 1 /\ next_line' = 0
      /\ lpc = "line" /\ line' = line + 1 /\ here = line /\ here' = line + 1
  BY LineIs DEF HasLine, Consume, here, line
<1>2. TypeOK'
  <2>1. current_timestamp' \in Nat /\ pos' \in 1 .. Len(data) + 1
    BY <1>1, TimeOfIs
  <2> QED
    BY <1>1, <2>1 DEF TypeOK, sortVars
<1>3. ReadInv'
  <2>1. NoneOpen(line)' /\ (current_timestamp = TimeOf(here))'
    BY <1>1, DataFixed
  <2> QED
    BY <1>1, <2>1 DEF ReadInv, Reading
<1>4. EntriesInv'
  <2>1. QueriesBefore(line + 1) = QueriesBefore(line) /\ StartsBefore(line + 1) = StartsBefore(line)
    BY <1>1, CountBlocks
  <2>2. QueriesBefore(here)' = QueriesBefore(line + 1) /\ StartsBefore(here)' = StartsBefore(line + 1)
    BY <1>1, DataFixed DEF QueriesBefore, StartsBefore
  <2> QED
    BY <1>1, <2>1, <2>2, DataFixed DEF EntriesInv
<1>5. AdjustInv'
  BY <1>1, SameEntries DEF AdjustInv, Reading, sortVars
<1>6. OrderInv'
  BY <1>1 DEF OrderInv, MustSort
<1> QED
  BY <1>2, <1>3, <1>4, <1>5, <1>6

LEMMA SkipLineIInv ==
  ASSUME IInv, SkipLine
  PROVE  IInv'
<1>1. /\ HasLine /\ Consume /\ ~IsComment(line)
      /\ data \in Seq(Line) /\ line \in 1 .. Len(data)
      /\ UNCHANGED <<options, first, num_sql_lines, current_timestamp, entries, counts,
                     sortVars, lpc>>
  BY LineIs DEF IInv, SkipLine, HasLine
<1>2. /\ here = line /\ current_timestamp = TimeOf(line)
      /\ NoneOpen(line) \/ StopsBlock(line)
  BY <1>1 DEF IInv, ReadInv, HasLine, here
<1>3. ~StopsBlock(line) /\ data[line].kind # "time"
  BY <1>1 DEF StopsBlock, IsComment, Comments
<1>4. ~Starts(line) /\ NoneOpen(line + 1)
  BY <1>1, <1>2, <1>3, StartsIs
<1>5. TimeOf(line + 1) = TimeOf(line)
  BY <1>1, <1>3, TimeOfIs
<1> QED
  BY <1>1, <1>2, <1>4, <1>5, PassIInv

LEMMA TimeLineIInv ==
  ASSUME IInv, TimeLine
  PROVE  IInv'
<1>1. /\ HasLine /\ Consume /\ data[line].kind = "time"
      /\ data \in Seq(Line) /\ line \in 1 .. Len(data)
      /\ current_timestamp' = IF data[line].val # Absent THEN data[line].val
                                                     ELSE current_timestamp
      /\ UNCHANGED <<options, first, num_sql_lines, entries, counts, sortVars, lpc>>
  BY LineIs DEF IInv, TimeLine, HasLine
<1>2. here = line /\ current_timestamp = TimeOf(line)
  BY <1>1 DEF IInv, ReadInv, HasLine, here
<1>3. ~Starts(line) /\ NoneOpen(line + 1)
  BY <1>1, StartsIs
<1>4. current_timestamp' = TimeOf(line + 1)
  BY <1>1, <1>2, TimeOfIs
<1> QED
  BY <1>1, <1>3, <1>4, PassIInv

(* A block is started at a line at which one starts.                       *)
LEMMA StartBlockIInv ==
  ASSUME IInv, StartBlock
  PROVE  IInv'
<1> USE DEF IInv
<1>1. /\ data \in Seq(Line) /\ Len(data) \in Nat /\ DOMAIN data = 1 .. Len(data)
      /\ line \in 1 .. Len(data) /\ IsComment(line) /\ data[line].kind # "time"
      /\ pos' = line + 1 /\ next_line' = 0 /\ first' = line /\ num_sql_lines' = 0
      /\ lpc = "line" /\ lpc' = "block" /\ here = line /\ here' = line
      /\ UNCHANGED <<data, g_accurate_mode, g_disable_sorting, current_timestamp, entries,
                     num_entries, num_queries, sortVars>>
  BY LineIs DEF StartBlock, HasLine, Consume, here, options, counts
<1>2. TypeOK'
  BY <1>1 DEF TypeOK, sortVars
<1>3. ReadInv'
  <2>1. Starts(line)
    BY <1>1, StartsIs DEF ReadInv
  <2>2. first' \in 1 .. pos' - 1 /\ first' + 1 .. pos' - 1 = {} /\ first' .. pos' - 1 = {line}
    BY <1>1
  <2>3. Starts(first)' /\ IsComment(first)' /\ (current_timestamp = TimeOf(here))'
    BY <1>1, <2>1, DataFixed DEF ReadInv
  <2>4. num_sql_lines' > 0 <=> \E j \in first' .. pos' - 1 : ~IsComment(j)'
    BY <1>1, <2>2, DataFixed
  <2> QED
    BY <1>1, <2>2, <2>3, <2>4 DEF ReadInv, Reading
<1>4. EntriesInv'
  <2>1. QueriesBefore(here)' = QueriesBefore(line) /\ StartsBefore(here)' = StartsBefore(line)
    BY <1>1, DataFixed DEF QueriesBefore, StartsBefore
  <2> QED
    BY <1>1, <2>1, DataFixed DEF EntriesInv
<1>5. AdjustInv'
  BY <1>1, SameEntries DEF AdjustInv, Reading, sortVars
<1>6. OrderInv'
  BY <1>1 DEF OrderInv, MustSort
<1> QED
  BY <1>2, <1>3, <1>4, <1>5, <1>6

(* The block goes on.                                                      *)
LEMMA BlockLineIInv ==
  ASSUME IInv, BlockLine
  PROVE  IInv'
<1> USE DEF IInv
<1>1. /\ data \in Seq(Line) /\ Len(data) \in Nat /\ DOMAIN data = 1 .. Len(data)
      /\ lpc = "block" /\ pos \in 1 .. Len(data) /\ ~StopsBlock(pos)
      /\ pos' = pos + 1 /\ here = first /\ here' = first
      /\ num_sql_lines' = IF IsComment(pos) THEN num_sql_lines ELSE num_sql_lines + 1
      /\ UNCHANGED <<data, g_accurate_mode, g_disable_sorting, next_line, first,
                     current_timestamp, entries, num_entries, num_queries, sortVars, lpc>>
  BY LineIs DEF BlockLine, here, options, counts, TypeOK
<1>2. TypeOK'
  BY <1>1 DEF TypeOK, sortVars
<1>3. ReadInv'
  <2>1. /\ next_line = 0 /\ first \in 1 .. pos - 1 /\ Starts(first) /\ IsComment(first)
        /\ \A j \in first + 1 .. pos - 1 : ~StopsBlock(j)
        /\ num_sql_lines > 0 <=> \E j \in first .. pos - 1 : ~IsComment(j)
        /\ num_sql_lines \in Nat
    BY <1>1 DEF ReadInv, TypeOK
  <2>2. \A j \in first + 1 .. pos : ~StopsBlock(j)'
    BY <1>1, <2>1, DataFixed
  <2>3. num_sql_lines' > 0 <=> \E j \in first .. pos : ~IsComment(j)'
    <3>1. \A j : j \in first .. pos <=> j \in first .. pos - 1 \/ j = pos
      BY <1>1, <2>1
    <3> QED
      BY <1>1, <2>1, <3>1, DataFixed
  <2>4. Starts(first)' /\ IsComment(first)' /\ (current_timestamp = TimeOf(here))'
    BY <1>1, <2>1, DataFixed DEF ReadInv
  <2> QED
    BY <1>1, <2>1, <2>2, <2>3, <2>4 DEF ReadInv, Reading
<1>4. EntriesInv'
  <2>1. QueriesBefore(here)' = QueriesBefore(here) /\ StartsBefore(here)' = StartsBefore(here)
    BY <1>1, DataFixed DEF QueriesBefore, StartsBefore
  <2> QED
    BY <1>1, <2>1, DataFixed DEF EntriesInv
<1>5. AdjustInv'
  BY <1>1, SameEntries DEF AdjustInv, Reading, sortVars
<1>6. OrderInv'
  BY <1>1 DEF OrderInv, MustSort
<1> QED
  BY <1>2, <1>3, <1>4, <1>5, <1>6

(* The block ends at a line that starts another one, or with the log.      *)
LEMMA EndBlockIs ==
  ASSUME IInv, EndBlock
  PROVE  /\ data \in Seq(Line) /\ Len(data) \in Nat /\ lpc = "block" /\ lpc' = "line"
         /\ pos \in 1 .. Len(data) + 1 /\ first \in 1 .. pos - 1 /\ here = first
         /\ (next_line' # 0 => pos' = next_line' + 1) /\ line' = pos /\ here' = pos
         /\ next_line' \in 0 .. Len(data) /\ pos' \in 1 .. Len(data) + 1
         /\ pos <= Len(data) => StopsBlock(pos)
         /\ Starts(first) /\ BlockOf(first) = first .. pos - 1
         /\ Cardinality(BlockOf(first)) = pos - first
         /\ first \in Queries <=> num_sql_lines > 0
         /\ current_timestamp = TimeOf(first) /\ TimeOf(pos) = TimeOf(first)
         /\ \A k \in first + 1 .. pos - 1 : ~Starts(k)
<1> USE DEF IInv
<1>1. /\ data \in Seq(Line) /\ Len(data) \in Nat /\ DOMAIN data = 1 .. Len(data)
      /\ lpc = "block" /\ lpc' = "line" /\ here = first
      /\ pos \in 1 .. Len(data) + 1 /\ first \in 1 .. pos - 1 /\ ReadAhead
      /\ pos <= Len(data) => StopsBlock(pos)
      /\ Starts(first) /\ IsComment(first) /\ \A j \in first + 1 .. pos - 1 : ~StopsBlock(j)
      /\ num_sql_lines > 0 <=> \E j \in first .. pos - 1 : ~IsComment(j)
      /\ current_timestamp = TimeOf(first)
  BY LineIs DEF EndBlock, here, TypeOK, ReadInv
<1>2. /\ (next_line' # 0 => pos' = next_line' + 1) /\ line' = pos /\ here' = pos
      /\ next_line' \in 0 .. Len(data) /\ pos' \in 1 .. Len(data) + 1
  BY <1>1 DEF ReadAhead, line, here
<1>3. BlockOf(first) = first .. pos - 1 /\ Cardinality(BlockOf(first)) = pos - first
  <2>1. /\ first \in 1 .. Len(data) /\ pos - 1 \in first .. Len(data)
        /\ pos - 1 < Len(data) => StopsBlock(pos - 1 + 1)
    BY <1>1
  <2>2. BlockOf(first) = first .. pos - 1 /\ Cardinality(BlockOf(first)) = pos - 1 - first + 1
    BY <1>1, <2>1, BlockEnds
  <2> QED
    BY <1>1, <2>2
<1>4. first \in Queries <=> num_sql_lines > 0
  BY <1>1, <1>3 DEF Queries
<1>5. \A k \in first + 1 .. pos - 1 : ~Starts(k)
  <2> SUFFICES ASSUME NEW k \in first + 1 .. pos - 1 PROVE ~Starts(k)
    OBVIOUS
  <2>1. /\ first \in 1 .. Len(data) /\ k \in first + 1 .. Len(data)
        /\ \A j \in first + 1 .. k : ~StopsBlock(j)
    BY <1>1
  <2> QED
    BY <1>1, <2>1, NoStartInBlock
<1>6. TimeOf(pos) = TimeOf(first)
  <2>1. first \in 1 .. Len(data) /\ data[first].kind # "time"
    BY <1>1, StartsIs
  <2>2. \A k \in first .. pos - 1 : data[k].kind # "time"
    BY <1>1, <2>1 DEF StopsBlock
  <2>3. \A m, n \in 1 .. Len(data) + 1 :
          m <= n /\ (\A k \in m .. n - 1 : data[k].kind # "time") => TimeOf(n) = TimeOf(m)
    BY <1>1, TimeOfIs
  <2>4. first \in 1 .. Len(data) + 1 /\ first <= pos
    BY <1>1
  <2> QED
    BY <1>1, <2>2, <2>3, <2>4
<1> QED
  BY <1>1, <1>2, <1>3, <1>4, <1>5, <1>6

(* A block without a query makes no entry.                                 *)
LEMMA NoQueryIInv ==
  ASSUME IInv, EndBlock, ~(num_sql_lines > 0)
  PROVE  IInv'
<1> USE DEF IInv
<1>1. /\ UNCHANGED <<data, g_accurate_mode, g_disable_sorting, first, num_sql_lines,
                     current_timestamp, entries, num_queries, sortVars>>
      /\ num_entries' = num_entries + 1
  BY DEF EndBlock
<1>2. TypeOK'
  BY <1>1, EndBlockIs DEF TypeOK, sortVars
<1>3. ReadInv'
  <2>1. (line <= Len(data) => StopsBlock(line))' /\ (current_timestamp = TimeOf(here))'
    BY <1>1, EndBlockIs, DataFixed
  <2> QED
    BY <2>1, EndBlockIs DEF ReadInv, Reading
<1>4. EntriesInv'
  <2>1. /\ QueriesBefore(pos) = QueriesBefore(first)
        /\ Cardinality(StartsBefore(pos)) = Cardinality(StartsBefore(first)) + 1
    <3>1. /\ data \in Seq(Line) /\ first \in Nat \ {0} /\ pos \in first .. Len(data) + 1
          /\ first < pos /\ Starts(first) /\ \A k \in first + 1 .. pos - 1 : ~Starts(k)
          /\ first \notin Queries
      BY EndBlockIs
    <3> QED
      BY <3>1, CountBlocks
  <2>2. QueriesBefore(here)' = QueriesBefore(pos) /\ StartsBefore(here)' = StartsBefore(pos)
    BY <1>1, EndBlockIs, DataFixed DEF QueriesBefore, StartsBefore
  <2>3. here = first
    BY EndBlockIs
  <2> QED
    BY <1>1, <2>1, <2>2, <2>3, DataFixed DEF EntriesInv
<1>5. AdjustInv'
  BY <1>1, EndBlockIs, SameEntries DEF AdjustInv, Reading, sortVars
<1>6. OrderInv'
  BY <1>1, EndBlockIs DEF OrderInv, MustSort
<1> QED
  BY <1>2, <1>3, <1>4, <1>5, <1>6

(* A block with one makes an entry of its own, behind the others.          *)
LEMMA QueryIInv ==
  ASSUME IInv, EndBlock, num_sql_lines > 0
  PROVE  IInv'
<1> USE DEF IInv
<1> DEFINE e == QueryLogData(first, pos - 1, current_timestamp)
<1>1. /\ UNCHANGED <<data, g_disable_sorting, first, num_sql_lines, current_timestamp, sortVars>>
      /\ num_entries' = num_entries + 1 /\ num_queries' = num_queries + 1
      /\ g_accurate_mode' = (g_accurate_mode /\ current_timestamp # 0)
      /\ entries' = Append(entries, e)
  BY DEF EndBlock, CheckTimestamp
<1>2. /\ e.first = first /\ e.last = pos - 1 /\ e.start_time = StartTime(e) /\ e \in Entry
  <2>1. e.first = first /\ e.last = pos - 1
    BY DEF QueryLogData
  <2>2. e.start_time = current_timestamp - parseQueryTime(first, pos - 1)
    BY DEF QueryLogData
  <2>3. e.start_time = StartTime(e)
    BY <2>1, <2>2, EndBlockIs DEF StartTime
  <2>4. parseQueryTime(first, pos - 1) \in Nat
    <3>1. first \in Nat \ {0} /\ pos - 1 \in Nat /\ pos - 1 <= Len(data) /\ data \in Seq(Line)
      BY EndBlockIs
    <3> QED
      BY <2>1, <3>1, ParsedIs
  <2>5. current_timestamp \in Nat /\ first \in Nat /\ pos - 1 \in Nat
    BY EndBlockIs DEF TypeOK
  <2>6. e \in Entry
    BY <2>4, <2>5 DEF QueryLogData, Entry
  <2> QED
    BY <2>1, <2>3, <2>6
<1> HIDE DEF e
<1>3. /\ entries \in Seq(Entry) /\ entries' \in Seq(Entry) /\ Len(entries) \in Nat
      /\ Len(entries') = Len(entries) + 1 /\ entries'[Len(entries) + 1] = e
      /\ DOMAIN entries = 1 .. Len(entries) /\ DOMAIN entries' = 1 .. Len(entries) + 1
      /\ \A i \in 1 .. Len(entries) : entries'[i] = entries[i]
  BY <1>1, <1>2 DEF TypeOK
<1>4. TypeOK'
  <2>1. it' \in 1 .. Len(entries') + 1 /\ (DOMAIN last_timestamp_of_conn \subseteq Nat)'
    BY <1>1, <1>3 DEF TypeOK, sortVars
  <2>2. /\ (data \in Seq(Line))' /\ pos' \in 1 .. Len(data') + 1
        /\ next_line' \in 0 .. Len(data') /\ lpc' = "line"
    BY <1>1, EndBlockIs
  <2>3. first' \in 0 .. Len(data') /\ num_sql_lines' \in Nat /\ current_timestamp' \in Nat
    BY <1>1 DEF TypeOK
  <2>4. /\ g_accurate_mode' \in BOOLEAN /\ g_disable_sorting' \in BOOLEAN
        /\ num_entries' \in Nat /\ num_queries' \in Nat
    BY <1>1 DEF TypeOK
  <2> QED
    BY <1>3, <2>1, <2>2, <2>3, <2>4 DEF TypeOK
<1>5. ReadInv'
  <2>1. (line <= Len(data) => StopsBlock(line))' /\ (current_timestamp = TimeOf(here))'
    BY <1>1, EndBlockIs, DataFixed
  <2> QED
    BY <2>1, EndBlockIs DEF ReadInv, Reading
<1>6. \A i \in DOMAIN entries : entries[i].first \in QueriesBefore(first) /\ entries[i].first < first
  <2>1. {entries[i].first : i \in DOMAIN entries} = QueriesBefore(first)
    BY EndBlockIs DEF EntriesInv
  <2> QED
    BY <2>1 DEF QueriesBefore
<1>7. EntriesInv'
  <2>1. /\ QueriesBefore(pos) = QueriesBefore(first) \cup {first}
        /\ Cardinality(QueriesBefore(pos)) = Cardinality(QueriesBefore(first)) + 1
        /\ Cardinality(StartsBefore(pos)) = Cardinality(StartsBefore(first)) + 1
    <3>1. /\ data \in Seq(Line) /\ first \in Nat \ {0} /\ pos \in first .. Len(data) + 1
          /\ first < pos /\ Starts(first) /\ \A k \in first + 1 .. pos - 1 : ~Starts(k)
          /\ first \in Queries
      BY EndBlockIs
    <3> QED
      BY <3>1, CountBlocks
  <2>2. QueriesBefore(here)' = QueriesBefore(pos) /\ StartsBefore(here)' = StartsBefore(pos)
    BY <1>1, EndBlockIs, DataFixed DEF QueriesBefore, StartsBefore
  <2>3. here = first
    BY EndBlockIs
  <2>4. {entries'[i].first : i \in DOMAIN entries'} = QueriesBefore(first) \cup {first}
    <3>1. {entries[i].first : i \in DOMAIN entries} = QueriesBefore(first)
      BY <2>3 DEF EntriesInv
    <3> QED
      BY <1>2, <1>3, <3>1
  <2>5. \A i \in DOMAIN entries' :
          entries'[i].last = entries'[i].first + Cardinality(BlockOf(entries'[i].first)) - 1
    <3>1. e.last = e.first + Cardinality(BlockOf(e.first)) - 1
      BY <1>2, EndBlockIs
    <3> QED
      BY <1>3, <3>1 DEF EntriesInv
  <2>6. \A i, j \in DOMAIN entries' : i # j => entries'[i].first # entries'[j].first
    <3>1. first \notin QueriesBefore(first)
      BY EndBlockIs DEF QueriesBefore
    <3> QED
      BY <1>2, <1>3, <1>6, <3>1 DEF EntriesInv
  <2>7. g_accurate_mode' => \A i \in DOMAIN entries' : TimeOf(entries'[i].first) # 0
    <3>1. g_accurate_mode' => TimeOf(first) # 0 /\ g_accurate_mode
      BY <1>1, EndBlockIs
    <3> QED
      BY <1>2, <1>3, <3>1 DEF EntriesInv
  <2>8. /\ num_queries' = Len(entries') /\ num_queries' = Cardinality(QueriesBefore(pos))
        /\ num_entries' = Cardinality(StartsBefore(pos))
    BY <1>1, <1>3, <2>1, <2>3 DEF EntriesInv
  <2>9. \A i \in DOMAIN entries' :
          /\ BlockOf(entries[i].first)' = BlockOf(entries'[i].first)
          /\ TimeOf(entries[i].first)' = TimeOf(entries'[i].first)
    BY <1>1, DataFixed
  <2> QED
    BY <2>1, <2>2, <2>4, <2>5, <2>6, <2>7, <2>8, <2>9 DEF EntriesInv
<1>8. AdjustInv'
  <2>1. it = 1 /\ DOMAIN last_timestamp_of_conn = {} /\ lpc' = "line"
    <3>1. it = 1 /\ RememberedInv
      BY EndBlockIs DEF AdjustInv, Reading
    <3> QED
      BY <3>1, EndBlockIs DEF RememberedInv
  <2>2. AdjustedInv'
    <3>1. \A i \in DOMAIN entries' : entries'[i].start_time = StartTime(entries'[i])
      <4>1. \A i \in DOMAIN entries : entries[i].start_time = StartTime(entries[i])
        BY <1>3, <2>1 DEF AdjustInv, AdjustedInv
      <4> QED
        BY <1>2, <1>3, <4>1
    <3>2. \A i \in DOMAIN entries' : StartTime(entries[i])' = StartTime(entries'[i])
      BY <1>1, DataFixed
    <3>3. it' = 1 /\ \A i \in DOMAIN entries' : ~(i < 1)
      BY <1>1, <1>3, <2>1 DEF sortVars
    <3> QED
      BY <3>1, <3>2, <3>3 DEF AdjustedInv
  <2>3. RememberedInv'
    <3>1. DOMAIN last_timestamp_of_conn' = {} /\ 1 .. it' - 1 = {}
      BY <1>1, <2>1 DEF sortVars
    <3> QED
      BY <3>1 DEF RememberedInv
  <2> QED
    BY <1>1, <2>1, <2>2, <2>3 DEF AdjustInv, Reading, sortVars
<1>9. OrderInv'
  <2>1. \A i, j \in DOMAIN entries : i < j => entries[i].first < entries[j].first
    BY EndBlockIs DEF OrderInv
  <2>2. \A i, j \in DOMAIN entries' : i < j => entries'[i].first < entries'[j].first
    BY <1>2, <1>3, <1>6, <2>1
  <2> QED
    BY <2>2, EndBlockIs DEF OrderInv
<1> QED
  BY <1>4, <1>5, <1>7, <1>8, <1>9

(* All lines have been read.                                               *)
LEMMA EndOfDataIInv ==
  ASSUME IInv, EndOfData
  PROVE  IInv'
<1> USE DEF IInv, options, readVars, counts
<1>1. /\ lpc = "line" /\ line > Len(data) /\ lpc' = (IF MustSort THEN "adjust" ELSE "done")
      /\ UNCHANGED <<options, readVars, entries, counts, sortVars>>
      /\ here' = here /\ line' = line /\ (MustSort' <=> MustSort)
  BY DEF EndOfData, here, line, MustSort
<1>2. TypeOK'
  BY <1>1 DEF TypeOK, sortVars
<1>3. ReadInv'
  BY <1>1, DataFixed DEF ReadInv, Reading
<1>4. EntriesInv'
  <2>1. QueriesBefore(here)' = QueriesBefore(here) /\ StartsBefore(here)' = StartsBefore(here)
    BY <1>1, DataFixed DEF QueriesBefore, StartsBefore
  <2> QED
    BY <1>1, <2>1, DataFixed DEF EntriesInv
<1>5. AdjustInv'
  BY <1>1, SameEntries DEF AdjustInv, Reading, sortVars
<1>6. OrderInv'
  BY <1>1 DEF OrderInv
<1> QED
  BY <1>2, <1>3, <1>4, <1>5, <1>6

-----------------------------------------------------------------------------
(* Adjusting and sorting keep it.                                          *)

(* The lines of an entry and what is parsed from them.                     *)
LEMMA EntryIs ==
  ASSUME IInv, NEW i \in DOMAIN entries
  PROVE  /\ entries[i] \in Entry /\ entries[i].first \in 1 .. Len(data) /\ i \in 1 .. Len(entries)
         /\ parseThreadId(entries[i]) \in Nat /\ StartTime(entries[i]) \in Int
<1> DEFINE e == entries[i]
<1>1. /\ data \in Seq(Line) /\ Len(data) \in Nat /\ DOMAIN data = 1 .. Len(data)
      /\ e \in Entry /\ i \in 1 .. Len(entries)
  BY LineIs DEF IInv, TypeOK
<1>2. e.first \in QueriesBefore(here) /\ e.last = e.first + Cardinality(BlockOf(e.first)) - 1
  BY DEF IInv, EntriesInv
<1>3. e.first \in 1 .. Len(data)
  BY <1>2 DEF QueriesBefore, Queries
<1> HIDE DEF e
<1>4. e.first \in Nat \ {0} /\ e.last \in Nat /\ e.last <= Len(data)
  BY <1>1, <1>2, <1>3, BlockIs
<1>5. TimeOf(e.first) \in Nat
  BY <1>1, <1>3, TimeOfIs
<1>6. parseThreadId(e) \in Nat /\ parseQueryTime(e.first, e.last) \in Nat
  BY <1>1, <1>4, ParsedIs
<1>7. StartTime(e) \in Int
  BY <1>5, <1>6 DEF StartTime
<1> QED
  BY <1>1, <1>3, <1>6, <1>7 DEF e

(* All that is parsed of an entry is parsed from its lines.                *)
LEMMA SameLines ==
  ASSUME NEW e, NEW f, e.first = f.first, e.last = f.last
  PROVE  /\ parseThreadId(e) = parseThreadId(f)
         /\ StartTime(e) = StartTime(f)
         /\ StartsUpTo(e) = StartsUpTo(f)
<1>1. parseThreadId(e) = parseThreadId(f)
  BY DEF parseThreadId
<1>2. StartTime(e) = StartTime(f)
  BY DEF StartTime
<1>3. StartsUpTo(e) = StartsUpTo(f)
  BY <1>1 DEF StartsUpTo
<1> QED
  BY <1>1, <1>2, <1>3

(* The start times are adjusted, or all have been.                         *)
LEMMA EndAdjustIInv ==
  ASSUME IInv, EndAdjust
  PROVE  IInv'
<1> USE DEF IInv, options, readVars, counts
<1>1. /\ lpc = "adjust" /\ it > Len(entries) /\ lpc' = "sort"
      /\ UNCHANGED <<options, readVars, entries, counts, sortVars>>
      /\ here' = here /\ line' = line /\ (MustSort' <=> MustSort)
  BY DEF EndAdjust, here, line, MustSort
<1>2. TypeOK'
  BY <1>1 DEF TypeOK, sortVars
<1>3. ReadInv'
  BY <1>1, DataFixed DEF ReadInv, Reading
<1>4. EntriesInv'
  <2>1. QueriesBefore(here)' = QueriesBefore(here) /\ StartsBefore(here)' = StartsBefore(here)
    BY <1>1, DataFixed DEF QueriesBefore, StartsBefore
  <2> QED
    BY <1>1, <2>1, DataFixed DEF EntriesInv
<1>5. AdjustInv'
  <2>1. it = Len(entries) + 1
    BY <1>1 DEF TypeOK
  <2> QED
    BY <1>1, <2>1, SameEntries DEF AdjustInv, Reading, sortVars
<1>6. OrderInv'
  BY <1>1 DEF OrderInv
<1> QED
  BY <1>2, <1>3, <1>4, <1>5, <1>6

(* What is known of the entries, but for their start times, still is.      *)
LEMMA EntriesKept ==
  ASSUME IInv, UNCHANGED <<options, readVars, counts>>, here' = here,
         Len(entries') = Len(entries), DOMAIN entries' = DOMAIN entries,
         \A i \in DOMAIN entries : /\ entries'[i].first = entries[i].first
                                   /\ entries'[i].last = entries[i].last
  PROVE  EntriesInv'
<1> USE DEF IInv, options, counts
<1>1. QueriesBefore(here)' = QueriesBefore(here) /\ StartsBefore(here)' = StartsBefore(here)
  BY DataFixed DEF QueriesBefore, StartsBefore
<1>2. {entries'[i].first : i \in DOMAIN entries'} = {entries[i].first : i \in DOMAIN entries}
  OBVIOUS
<1>3. \A i \in DOMAIN entries' : /\ BlockOf(entries[i].first)' = BlockOf(entries[i].first)
                                 /\ TimeOf(entries[i].first)' = TimeOf(entries[i].first)
  BY DataFixed
<1> QED
  BY <1>1, <1>2, <1>3 DEF EntriesInv

LEMMA AdjustIInv ==
  ASSUME IInv, Adjust
  PROVE  IInv'
<1> USE DEF IInv
<1> DEFINE e0 == entries[it]
           c0 == parseThreadId(e0)
           tp == IF c0 \in DOMAIN last_timestamp_of_conn THEN last_timestamp_of_conn[c0] ELSE 0
           t0 == IF e0.start_time < tp THEN tp ELSE e0.start_time
<1>1. /\ Len(entries) \in Nat /\ DOMAIN entries = 1 .. Len(entries) /\ it \in DOMAIN entries
      /\ entries \in Seq(Entry) /\ e0 \in Entry /\ c0 \in Nat /\ StartTime(e0) \in Int
      /\ it \in Nat \ {0} /\ it <= Len(entries)
  <2>1. /\ Len(entries) \in Nat /\ DOMAIN entries = 1 .. Len(entries) /\ it \in DOMAIN entries
        /\ entries \in Seq(Entry)
    BY DEF Adjust, TypeOK
  <2> QED
    BY <2>1, EntryIs
<1>2. /\ lpc = "adjust" /\ lpc' = "adjust" /\ it' = it + 1
      /\ entries' = [entries EXCEPT ![it].start_time = t0]
      /\ last_timestamp_of_conn' =
           [c \in DOMAIN last_timestamp_of_conn \cup {c0} |->
              IF c = c0 THEN t0 ELSE last_timestamp_of_conn[c]]
      /\ UNCHANGED <<options, readVars, counts>>
      /\ here' = here /\ line' = line /\ (MustSort' <=> MustSort)
  BY DEF Adjust, Remember, here, line, MustSort, options, readVars
<1>3. e0.start_time = StartTime(e0)
  BY <1>1 DEF AdjustInv, AdjustedInv
<1>4. /\ StartsOf(c0, it - 1) \subseteq Int
      /\ IsLatest(tp, StartsOf(c0, it - 1)) /\ tp \in Int /\ t0 \in Int
  <2>1. StartsOf(c0, it - 1) \subseteq Int
    <3>1. \A d \in 1 .. it - 1 : d \in DOMAIN entries
      BY <1>1
    <3> HIDE DEF c0
    <3> QED
      BY <3>1, EntryIs DEF StartsOf
  <2>2. RememberedInv
    BY <1>2 DEF AdjustInv
  <2>3. ASSUME c0 \in DOMAIN last_timestamp_of_conn
        PROVE  IsLatest(tp, StartsOf(c0, it - 1))
    <3>1. tp = last_timestamp_of_conn[c0]
      BY <2>3
    <3> HIDE DEF tp, c0
    <3> QED
      BY <2>2, <2>3, <3>1 DEF RememberedInv
  <2>4. ASSUME c0 \notin DOMAIN last_timestamp_of_conn
        PROVE  IsLatest(tp, StartsOf(c0, it - 1))
    <3>1. tp = 0
      BY <2>4
    <3> HIDE DEF tp, c0
    <3>2. \A d \in 1 .. it - 1 : parseThreadId(entries[d]) # c0
      BY <2>2, <2>4 DEF RememberedInv
    <3>3. StartsOf(c0, it - 1) = {0}
      BY <3>2 DEF StartsOf
    <3> QED
      BY <3>1, <3>3 DEF IsLatest
  <2>5. IsLatest(tp, StartsOf(c0, it - 1))
    BY <2>3, <2>4
  <2>6. tp \in Int
    BY <2>1, <2>5 DEF IsLatest
  <2>7. e0.start_time \in Int
    BY <1>1, <1>3
  <2>8. t0 \in Int
    BY <2>6, <2>7
  <2> HIDE DEF tp, t0, c0
  <2> QED
    BY <2>1, <2>5, <2>6, <2>8
<1>5. /\ entries' \in Seq(Entry) /\ Len(entries') = Len(entries)
      /\ DOMAIN entries' = DOMAIN entries
      /\ \A i \in DOMAIN entries : /\ entries'[i].first = entries[i].first
                                   /\ entries'[i].last = entries[i].last
      /\ \A i \in DOMAIN entries : i # it => entries'[i] = entries[i]
      /\ entries'[it].start_time = t0
  <2> DEFINE e == [e0 EXCEPT !.start_time = t0]
  <2>1. e \in Entry /\ e.first = e0.first /\ e.last = e0.last /\ e.start_time = t0
    BY <1>1, <1>4 DEF Entry
  <2>2. entries' = [entries EXCEPT ![it] = e]
    BY <1>2
  <2> HIDE DEF e, e0, t0
  <2> QED
    BY <1>1, <2>1, <2>2 DEF e0
<1>6. /\ t0 = (IF StartTime(e0) < tp THEN tp ELSE StartTime(e0))
      /\ \A d \in DOMAIN entries :
           /\ parseThreadId(entries[d]) \in Nat /\ StartTime(entries[d]) \in Int
           /\ parseThreadId(entries'[d]) = parseThreadId(entries[d])
           /\ StartTime(entries'[d]) = StartTime(entries[d])
           /\ StartsUpTo(entries'[d]) = StartsUpTo(entries[d])
  <2>1. t0 = (IF StartTime(e0) < tp THEN tp ELSE StartTime(e0))
    BY <1>3
  <2> HIDE DEF e0, c0, tp, t0
  <2> QED
    BY <1>5, <2>1, EntryIs, SameLines
<1> HIDE DEF tp, t0
<1>7. TypeOK'
  <2> HIDE DEF e0
  <2>1. DOMAIN last_timestamp_of_conn' \subseteq Nat
    BY <1>1, <1>2 DEF TypeOK
  <2>2. it' \in 1 .. Len(entries') + 1
    BY <1>1, <1>2, <1>5
  <2> QED
    BY <1>2, <1>5, <2>1, <2>2 DEF TypeOK, options, readVars, counts
<1>8. ReadInv'
  BY <1>2, DataFixed DEF ReadInv, Reading, readVars, options
<1>9. EntriesInv'
  BY <1>2, <1>5, EntriesKept
<1>10. AdjustInv'
  <2>1. /\ \A e : StartsUpTo(e)' = StartsUpTo(e)
        /\ \A c : StartsOf(c, it - 1)' = StartsOf(c, it)
    <3>1. data' = data
      BY <1>2 DEF options
    <3>2. \A d \in DOMAIN entries :
            /\ parseThreadId(entries[d])' = parseThreadId(entries[d])
            /\ StartTime(entries[d])' = StartTime(entries[d])
            /\ entries'[d].first = entries[d].first
      BY <1>5, <1>6, <3>1, DataFixed
    <3>3. \A e : StartsUpTo(e)' = StartsUpTo(e)
      <4> SUFFICES ASSUME NEW e PROVE StartsUpTo(e)' = StartsUpTo(e)
        OBVIOUS
      <4>1. parseThreadId(e)' = parseThreadId(e)
        BY <3>1, DataFixed
      <4> QED
        BY <1>5, <3>2, <4>1 DEF StartsUpTo
    <3>4. \A c : StartsOf(c, it - 1)' = StartsOf(c, it)
      <4>1. 1 .. it' - 1 = 1 .. it /\ \A d \in 1 .. it : d \in DOMAIN entries
        BY <1>1, <1>2
      <4> QED
        BY <3>2, <4>1 DEF StartsOf
    <3> QED
      BY <3>3, <3>4
  <2>2. StartsOf(c0, it) = StartsOf(c0, it - 1) \cup {StartTime(e0)}
    <3>1. {d \in 1 .. it : parseThreadId(entries[d]) = c0}
            = {d \in 1 .. it - 1 : parseThreadId(entries[d]) = c0} \cup {it}
      BY <1>1 DEF c0, e0
    <3> QED
      BY <3>1 DEF StartsOf, e0
  <2>3. \A c : c # c0 => StartsOf(c, it) = StartsOf(c, it - 1)
    <3>1. \A c : c # c0 => {d \in 1 .. it : parseThreadId(entries[d]) = c}
                             = {d \in 1 .. it - 1 : parseThreadId(entries[d]) = c}
      BY <1>1 DEF c0, e0
    <3> QED
      BY <3>1 DEF StartsOf
  <2>4. StartsUpTo(e0) = StartsOf(c0, it)
    <3>1. \A i, j \in DOMAIN entries : i < j => entries[i].first < entries[j].first
      BY <1>2 DEF OrderInv
    <3>2. \A d \in DOMAIN entries : entries[d].first \in Nat
      BY EntryIs
    <3>3. \A d \in DOMAIN entries : entries[d].first <= e0.first <=> d <= it
      BY <1>1, <3>1, <3>2 DEF e0
    <3>4. {d \in DOMAIN entries : /\ entries[d].first <= e0.first
                                  /\ parseThreadId(entries[d]) = parseThreadId(e0)}
            = {d \in 1 .. it : parseThreadId(entries[d]) = c0}
      BY <1>1, <3>3 DEF c0
    <3> QED
      BY <3>4 DEF StartsUpTo, StartsOf
  <2>5. IsLatest(t0, StartsOf(c0, it))
    BY <1>1, <1>4, <1>6, <2>2 DEF IsLatest
  <2>6. AdjustedInv'
    <3>1. \A i \in DOMAIN entries : /\ StartsUpTo(entries[i])' = StartsUpTo(entries[i])
                                    /\ StartTime(entries[i])' = StartTime(entries[i])
      <4>1. data' = data
        BY <1>2 DEF options
      <4> QED
        BY <1>6, <2>1, <4>1, DataFixed
    <3>2. ASSUME NEW i \in DOMAIN entries
          PROVE  IF i < it + 1 THEN IsLatest(entries'[i].start_time, StartsUpTo(entries[i]))
                               ELSE entries'[i].start_time = StartTime(entries[i])
      <4>1. CASE i = it
        BY <1>1, <1>5, <2>4, <2>5, <4>1 DEF e0
      <4>2. CASE i # it
        <5>1. entries'[i] = entries[i] /\ (i < it + 1 <=> i < it)
          BY <1>1, <1>5, <4>2
        <5> QED
          BY <5>1 DEF AdjustInv, AdjustedInv
      <4> QED
        BY <4>1, <4>2
    <3> QED
      BY <1>2, <1>5, <3>1, <3>2 DEF AdjustedInv
  <2>7. RememberedInv'
    <3>1. RememberedInv
      BY <1>2 DEF AdjustInv
    <3>2. /\ 1 .. it' - 1 = 1 .. it /\ 1 .. it = (1 .. it - 1) \cup {it}
          /\ \A i \in 1 .. it : i \in DOMAIN entries
      BY <1>1, <1>2
    <3>3. \A i \in DOMAIN entries : parseThreadId(entries[i])' = parseThreadId(entries[i])
      <4>1. data' = data
        BY <1>2 DEF options
      <4> QED
        BY <1>6, <4>1, DataFixed
    <3>4. DOMAIN last_timestamp_of_conn' = {parseThreadId(entries[i])' : i \in 1 .. it' - 1}
      BY <1>2, <3>1, <3>2, <3>3 DEF RememberedInv, c0, e0
    <3>5. ASSUME NEW c \in DOMAIN last_timestamp_of_conn'
          PROVE  IsLatest(last_timestamp_of_conn'[c], StartsOf(c, it))
      <4>1. CASE c = c0
        BY <1>2, <2>5, <4>1
      <4>2. CASE c # c0
        <5>1. /\ c \in DOMAIN last_timestamp_of_conn
              /\ last_timestamp_of_conn'[c] = last_timestamp_of_conn[c]
          BY <1>2, <4>2
        <5> QED
          BY <2>3, <3>1, <4>2, <5>1 DEF RememberedInv
      <4> QED
        BY <4>1, <4>2
    <3> QED
      BY <2>1, <3>4, <3>5 DEF RememberedInv
  <2> QED
    BY <1>2, <2>6, <2>7 DEF AdjustInv, Reading
<1>11. OrderInv'
  BY <1>2, <1>5 DEF OrderInv
<1> QED
  BY <1>7, <1>8, <1>9, <1>10, <1>11

(* std::stable_sort permutes the entries, so that each precedes those      *)
(* behind it.                                                              *)
LEMMA StableSortIs ==
  ASSUME NEW s \in Seq(Entry)
  PROVE  /\ StableSort(s) \in Seq(Entry) /\ Len(StableSort(s)) = Len(s)
         /\ DOMAIN StableSort(s) = DOMAIN s
         /\ \E perm \in [DOMAIN s -> DOMAIN s] :
              /\ \A k \in DOMAIN s : StableSort(s)[k] = s[perm[k]]
              /\ \A i \in DOMAIN s : \E k \in DOMAIN s : perm[k] = i
              /\ \A k, l \in DOMAIN s : k < l => Precedes(s, perm[k], perm[l])
<1> DEFINE D == DOMAIN s
           R == {p \in D \X D : Precedes(s, p[1], p[2])}
           pick(k) == CHOOSE i \in D : Cardinality({j \in D : Precedes(s, j, i)}) = k - 1
           perm == [k \in D |-> pick(k)]
<1>1. /\ Len(s) \in Nat /\ D = 1 .. Len(s) /\ IsFiniteSet(D) /\ Cardinality(D) = Len(s)
      /\ \A i \in D : s[i] \in Entry /\ s[i].start_time \in Int
  <2>1. Len(s) \in Nat /\ D = 1 .. Len(s) /\ \A i \in D : s[i] \in Entry
    OBVIOUS
  <2> QED
    BY <2>1, FS_Interval DEF Entry
<1>2. \A i, j \in D : <<i, j>> \in R <=> Precedes(s, i, j)
  OBVIOUS
<1>3. StableSort(s) = [k \in D |-> s[pick(k)]]
  BY DEF StableSort
<1>4. \A k : pick(k) = CHOOSE i \in D : Rank(D, R, i) = k - 1
  <2>1. \A i \in D : Rank(D, R, i) = Cardinality({j \in D : Precedes(s, j, i)})
    BY <1>2 DEF Rank, Below
  <2> HIDE DEF R, D
  <2> QED
    BY <2>1
<1> HIDE DEF D, R, pick
<1>5. /\ \A i \in D : <<i, i>> \notin R
      /\ \A i, j \in D : i # j => <<i, j>> \in R \/ <<j, i>> \in R
      /\ \A i, j, l \in D : <<i, j>> \in R /\ <<j, l>> \in R => <<i, l>> \in R
  BY <1>1, <1>2 DEF Precedes, Less
<1>6. /\ \A x, y \in D : Rank(D, R, x) < Rank(D, R, y) <=> <<x, y>> \in R
      /\ \A k \in 0 .. Len(s) - 1 : \E x \in D : Rank(D, R, x) = k
      /\ \A x \in D : Rank(D, R, x) \in 0 .. Len(s) - 1
  <2>1. IsFiniteSet(D) /\ Cardinality(D) = Len(s)
    BY <1>1
  <2>2. /\ \A x \in D : Rank(D, R, x) \in 0 .. Cardinality(D) - 1
        /\ \A x, y \in D : Rank(D, R, x) < Rank(D, R, y) <=> <<x, y>> \in R
        /\ \A k \in 0 .. Cardinality(D) - 1 : \E x \in D : Rank(D, R, x) = k
    BY <1>5, <2>1, Ranks, Zenon
  <2> QED
    BY <2>1, <2>2
<1>7. \A k \in D : pick(k) \in D /\ Rank(D, R, pick(k)) = k - 1
  <2> SUFFICES ASSUME NEW k \in D PROVE pick(k) \in D /\ Rank(D, R, pick(k)) = k - 1
    OBVIOUS
  <2>1. k - 1 \in 0 .. Len(s) - 1
    BY <1>1
  <2>2. \E i \in D : Rank(D, R, i) = k - 1
    BY <1>6, <2>1
  <2> QED
    BY <1>4, <2>2
<1>8. perm \in [D -> D] /\ \A k \in D : perm[k] = pick(k) /\ StableSort(s)[k] = s[perm[k]]
  BY <1>3, <1>7
<1>9. \A i \in D : \E k \in D : perm[k] = i
  <2> SUFFICES ASSUME NEW i \in D PROVE \E k \in D : perm[k] = i
    OBVIOUS
  <2> DEFINE k == Rank(D, R, i) + 1
  <2>1. k \in D /\ k - 1 = Rank(D, R, i)
    BY <1>1, <1>6
  <2>2. \A j \in D : Rank(D, R, j) = Rank(D, R, i) => j = i
    <3> SUFFICES ASSUME NEW j \in D, Rank(D, R, j) = Rank(D, R, i), j # i PROVE FALSE
      OBVIOUS
    <3>1. <<i, j>> \in R \/ <<j, i>> \in R
      BY <1>5
    <3>2. Rank(D, R, i) < Rank(D, R, j) \/ Rank(D, R, j) < Rank(D, R, i)
      BY <1>6, <3>1
    <3> QED
      BY <1>6, <3>2
  <2> HIDE DEF k, perm
  <2> QED
    BY <1>7, <1>8, <2>1, <2>2
<1>10. \A k, l \in D : k < l => Precedes(s, perm[k], perm[l])
  <2> SUFFICES ASSUME NEW k \in D, NEW l \in D, k < l PROVE Precedes(s, pick(k), pick(l))
    BY <1>8
  <2>1. Rank(D, R, pick(k)) < Rank(D, R, pick(l))
    BY <1>1, <1>7
  <2> QED
    BY <1>2, <1>6, <1>7, <2>1
<1>11. StableSort(s) \in Seq(Entry) /\ Len(StableSort(s)) = Len(s) /\ DOMAIN StableSort(s) = D
  BY <1>1, <1>3, <1>7
<1> HIDE DEF perm
<1> QED
  BY <1>8, <1>9, <1>10, <1>11 DEF D

(* The entries are sorted.                                                 *)
LEMMA SortIInv ==
  ASSUME IInv, Sort
  PROVE  IInv'
<1> USE DEF IInv
<1>1. /\ entries \in Seq(Entry) /\ Len(entries) \in Nat /\ DOMAIN entries = 1 .. Len(entries)
      /\ lpc = "sort" /\ MustSort /\ it = Len(entries) + 1
  BY DEF Sort, TypeOK, OrderInv, AdjustInv
<1>2. /\ lpc' = "done" /\ entries' = StableSort(entries)
      /\ UNCHANGED <<options, readVars, counts, sortVars>>
      /\ here' = here /\ line' = line /\ (MustSort' <=> MustSort)
  BY DEF Sort, here, line, MustSort, options, readVars
<1>3. /\ entries' \in Seq(Entry) /\ Len(entries') = Len(entries) /\ DOMAIN entries' = DOMAIN entries
  BY <1>1, <1>2, StableSortIs
<1>4. PICK perm \in [DOMAIN entries -> DOMAIN entries] :
        /\ \A k \in DOMAIN entries : entries'[k] = entries[perm[k]]
        /\ \A i \in DOMAIN entries : \E k \in DOMAIN entries : perm[k] = i
        /\ \A k, l \in DOMAIN entries : k < l => Precedes(entries, perm[k], perm[l])
  BY <1>1, <1>2, StableSortIs
<1>5. /\ \A k \in DOMAIN entries : /\ perm[k] \in DOMAIN entries
                                    /\ entries[perm[k]].start_time \in Int
      /\ data' = data
  <2>1. \A i \in DOMAIN entries : entries[i].start_time \in Int
    BY EntryIs DEF Entry
  <2> QED
    BY <1>2, <1>4, <2>1 DEF options
<1>6. \A k, l \in DOMAIN entries : k # l => perm[k] # perm[l]
  <2> SUFFICES ASSUME NEW k \in DOMAIN entries, NEW l \in DOMAIN entries, k < l
               PROVE  perm[k] # perm[l]
    BY <1>1
  <2>1. Precedes(entries, perm[k], perm[l])
    BY <1>4
  <2>2. ~Precedes(entries, perm[k], perm[k])
    BY <1>1, <1>5 DEF Precedes, Less
  <2> QED
    BY <2>1, <2>2
<1>7. TypeOK'
  BY <1>2, <1>3 DEF TypeOK, options, readVars, counts, sortVars
<1>8. ReadInv'
  <2>1. /\ next_line # 0 => pos = next_line + 1
        /\ line > Len(data) /\ current_timestamp = TimeOf(here)
    BY <1>1 DEF ReadInv, Reading
  <2>2. UNCHANGED <<data, next_line, pos, current_timestamp>>
    BY <1>2 DEF options, readVars
  <2>3. TimeOf(here)' = TimeOf(here)
    BY <1>2, <1>5, DataFixed
  <2> HIDE DEF IInv
  <2> QED
    BY <1>2, <2>1, <2>2, <2>3 DEF ReadInv, Reading
<1>9. EntriesInv'
  <2>1. QueriesBefore(here)' = QueriesBefore(here) /\ StartsBefore(here)' = StartsBefore(here)
    BY <1>2, <1>5, DataFixed DEF QueriesBefore, StartsBefore
  <2>2. {entries'[i].first : i \in DOMAIN entries'} = {entries[i].first : i \in DOMAIN entries}
    BY <1>3, <1>4, <1>5, SMTT(30)
  <2>3. \A i \in DOMAIN entries' :
          /\ BlockOf(entries[i].first)' = BlockOf(entries'[i].first)
          /\ TimeOf(entries[i].first)' = TimeOf(entries'[i].first)
    BY <1>5, DataFixed
  <2>4. \A i \in DOMAIN entries' :
          entries'[i].last = entries'[i].first + Cardinality(BlockOf(entries'[i].first)) - 1
    BY <1>3, <1>4, <1>5, SMTT(30) DEF EntriesInv
  <2>5. \A i, j \in DOMAIN entries' : i # j => entries'[i].first # entries'[j].first
    <3>1. \A i, j \in DOMAIN entries : i # j => entries[i].first # entries[j].first
      BY DEF EntriesInv
    <3>2. \A i, j \in DOMAIN entries : i # j => entries[perm[i]].first # entries[perm[j]].first
      BY <1>5, <1>6, <3>1
    <3>3. \A i \in DOMAIN entries : entries'[i] = entries[perm[i]]
      BY <1>4
    <3>4. DOMAIN entries' = DOMAIN entries
      BY <1>3
    <3> HIDE DEF IInv
    <3> QED
      BY <3>2, <3>3, <3>4
  <2>6. g_accurate_mode' => \A i \in DOMAIN entries' : TimeOf(entries'[i].first) # 0
    BY <1>2, <1>3, <1>4, <1>5, SMTT(30) DEF EntriesInv, options
  <2>7. num_queries' = num_queries /\ num_entries' = num_entries
    BY <1>2 DEF counts
  <2>8. /\ {entries[i].first : i \in DOMAIN entries} = QueriesBefore(here)
        /\ num_queries = Len(entries) /\ num_queries = Cardinality(QueriesBefore(here))
        /\ num_entries = Cardinality(StartsBefore(here))
    BY DEF EntriesInv
  <2> HIDE DEF IInv
  <2> QED
    BY <1>3, <2>1, <2>2, <2>3, <2>4, <2>5, <2>6, <2>7, <2>8 DEF EntriesInv
<1>10. AdjustInv'
  <2>1. \A e : StartsUpTo(e)' = StartsUpTo(e)
    <3> SUFFICES ASSUME NEW e PROVE StartsUpTo(e)' = StartsUpTo(e)
      OBVIOUS
    <3>1. /\ parseThreadId(e)' = parseThreadId(e)
          /\ \A d \in DOMAIN entries : /\ parseThreadId(entries[d])' = parseThreadId(entries[perm[d]])
                                       /\ StartTime(entries[d])' = StartTime(entries[perm[d]])
      BY <1>4, <1>5, DataFixed
    <3>2. {StartTime(entries[d])' : d \in {d \in DOMAIN entries' :
             /\ entries'[d].first <= e.first
             /\ parseThreadId(entries[d])' = parseThreadId(e)'}}
            = {StartTime(entries[perm[d]]) : d \in {d \in DOMAIN entries :
                 /\ entries[perm[d]].first <= e.first
                 /\ parseThreadId(entries[perm[d]]) = parseThreadId(e)}}
      <4>1. {d \in DOMAIN entries' : /\ entries'[d].first <= e.first
                                     /\ parseThreadId(entries[d])' = parseThreadId(e)'}
              = {d \in DOMAIN entries : /\ entries[perm[d]].first <= e.first
                                        /\ parseThreadId(entries[perm[d]]) = parseThreadId(e)}
        BY <1>3, <1>4, <3>1
      <4> QED
        BY <3>1, <4>1
    <3>3. StartsUpTo(e)' =
            {StartTime(entries[perm[d]]) : d \in {d \in DOMAIN entries :
               /\ entries[perm[d]].first <= e.first
               /\ parseThreadId(entries[perm[d]]) = parseThreadId(e)}} \cup {0}
      BY <3>2 DEF StartsUpTo
    <3> HIDE DEF IInv
    <3> QED
      BY <1>4, <1>5, <3>3 DEF StartsUpTo
  <2>2. \A i \in DOMAIN entries : IsLatest(entries[i].start_time, StartsUpTo(entries[i]))
    BY <1>1 DEF AdjustInv, AdjustedInv
  <2>3. \A i \in DOMAIN entries : IsLatest(entries'[i].start_time, StartsUpTo(entries[i])')
    BY <1>4, <1>5, <2>1, <2>2
  <2>4. it' = Len(entries') + 1 /\ \A i \in DOMAIN entries : i < it'
    BY <1>1, <1>2, <1>3 DEF sortVars
  <2> QED
    BY <1>1, <1>2, <1>3, <2>3, <2>4 DEF AdjustInv, AdjustedInv, Reading
<1>11. OrderInv'
  <2> SUFFICES ASSUME NEW i \in DOMAIN entries, NEW j \in DOMAIN entries, i < j
               PROVE  \/ entries'[i].start_time < entries'[j].start_time
                      \/ /\ entries'[i].start_time = entries'[j].start_time
                         /\ entries'[i].first < entries'[j].first
    BY <1>1, <1>2, <1>3 DEF OrderInv
  <2>1. /\ entries[perm[i]].start_time \in Int /\ entries[perm[j]].start_time \in Int
        /\ Precedes(entries, perm[i], perm[j])
    BY <1>4, <1>5
  <2>2. perm[i] < perm[j] => entries[perm[i]].first < entries[perm[j]].first
    BY <1>1, <1>5 DEF OrderInv
  <2>3. entries'[i] = entries[perm[i]] /\ entries'[j] = entries[perm[j]]
    BY <1>4
  <2> HIDE DEF IInv
  <2> QED
    BY <2>1, <2>2, <2>3 DEF Precedes, Less
<1> QED
  BY <1>7, <1>8, <1>9, <1>10, <1>11

LEMMA NextIInv == IInv /\ [Next]_vars => IInv'
<1> SUFFICES ASSUME IInv, [Next]_vars PROVE IInv'
  OBVIOUS
<1>1. CASE SkipLine
  BY <1>1, SkipLineIInv
<1>2. CASE TimeLine
  BY <1>2, TimeLineIInv
<1>3. CASE StartBlock
  BY <1>3, StartBlockIInv
<1>4. CASE BlockLine
  BY <1>4, BlockLineIInv
<1>5. CASE EndBlock
  BY <1>5, NoQueryIInv, QueryIInv
<1>6. CASE EndOfData
  BY <1>6, EndOfDataIInv
<1>7. CASE Adjust
  BY <1>7, AdjustIInv
<1>8. CASE EndAdjust
  BY <1>8, EndAdjustIInv
<1>9. CASE Sort
  BY <1>9, SortIInv
<1>10. CASE UNCHANGED vars
  <2> USE <1>10 DEF IInv, vars
  <2>1. UNCHANGED <<options, readVars, entries, counts, sortVars, lpc>>
    OBVIOUS
  <2>2. here' = here /\ line' = line /\ (MustSort' <=> MustSort) /\ data' = data
    BY <2>1 DEF here, line, MustSort, options, readVars
  <2>3. TypeOK'
    BY <2>1 DEF TypeOK, options, readVars, counts, sortVars
  <2>4. ReadInv'
    BY <2>1, <2>2, DataFixed DEF ReadInv, Reading, readVars
  <2>5. EntriesInv'
    BY <2>1, <2>2, EntriesKept
  <2>6. AdjustInv'
    BY <2>1, <2>2, SameEntries DEF AdjustInv, Reading, sortVars
  <2>7. OrderInv'
    BY <2>1, <2>2 DEF OrderInv
  <2> QED
    BY <2>3, <2>4, <2>5, <2>6, <2>7
<1> QED
  BY <1>1, <1>2, <1>3, <1>4, <1>5, <1>6, <1>7, <1>8, <1>9, <1>10 DEF Next, GetEntries, Done

-----------------------------------------------------------------------------
(* What the invariant says when everything has been read.                  *)

LEMMA AllRead ==
  ASSUME IInv, ~Reading
  PROVE  /\ {entries[i].first : i \in DOMAIN entries} = Queries
         /\ QueriesBefore(here) = Queries
         /\ StartsBefore(here) = {k \in 1 .. Len(data) : Starts(k)}
<1>1. /\ here > Len(data) /\ here \in Nat /\ Len(data) \in Nat /\ DOMAIN data = 1 .. Len(data)
  BY LineIs DEF IInv, ReadInv, Reading, here
<1>2. QueriesBefore(here) = Queries
  BY <1>1 DEF QueriesBefore, Queries
<1>3. StartsBefore(here) = {k \in 1 .. Len(data) : Starts(k)}
  BY <1>1 DEF StartsBefore
<1> QED
  BY <1>2, <1>3 DEF IInv, EntriesInv

LEMMA IInvExact == IInv => EntriesExact
<1> SUFFICES ASSUME IInv, ~Reading
             PROVE  /\ {<<entries[i].first, entries[i].last>> : i \in DOMAIN entries} =
                         {<<k, k + Cardinality(BlockOf(k)) - 1>> : k \in Queries}
                    /\ Len(entries) = Cardinality(Queries)
                    /\ num_queries = Cardinality(Queries)
                    /\ num_entries = Cardinality({k \in 1 .. Len(data) : Starts(k)})
  BY DEF EntriesExact, Reading
<1>1. /\ num_queries = Len(entries) /\ num_queries = Cardinality(QueriesBefore(here))
      /\ num_entries = Cardinality(StartsBefore(here))
      /\ \A i \in DOMAIN entries :
           entries[i].last = entries[i].first + Cardinality(BlockOf(entries[i].first)) - 1
  BY DEF IInv, EntriesInv
<1>2. {<<entries[i].first, entries[i].last>> : i \in DOMAIN entries}
        = {<<k, k + Cardinality(BlockOf(k)) - 1>> : k \in Queries}
  <2>1. {entries[i].first : i \in DOMAIN entries} = Queries
    BY AllRead
  <2>2. {<<entries[i].first, entries[i].last>> : i \in DOMAIN entries}
          = {<<entries[i].first, entries[i].first + Cardinality(BlockOf(entries[i].first)) - 1>> :
               i \in DOMAIN entries}
    BY <1>1
  <2> QED
    BY <2>1, <2>2
<1> QED
  BY <1>1, <1>2, AllRead

LEMMA IInvAdjusted == IInv => StartTimesAdjusted
<1> SUFFICES ASSUME IInv, lpc \in {"sort", "done"}, MustSort, NEW i \in DOMAIN entries
             PROVE  LET e == entries[i]
                        upTo == {k \in Queries : /\ k <= e.first
                                   /\ \E d \in DOMAIN entries :
                                        /\ entries[d].first = k
                                        /\ parseThreadId(entries[d]) = parseThreadId(e)}
                        starts == {TimeOf(k) - parseQueryTime(k, k + Cardinality(BlockOf(k)) - 1) :
                                     k \in upTo} \cup {0}
                    IN  e.start_time \in starts /\ \A t \in starts : t <= e.start_time
  BY DEF StartTimesAdjusted
<1> DEFINE e == entries[i]
           upTo == {k \in Queries : /\ k <= e.first
                      /\ \E d \in DOMAIN entries :
                           /\ entries[d].first = k
                           /\ parseThreadId(entries[d]) = parseThreadId(e)}
           Start(k) == TimeOf(k) - parseQueryTime(k, k + Cardinality(BlockOf(k)) - 1)
           D == {d \in DOMAIN entries : /\ entries[d].first <= e.first
                                        /\ parseThreadId(entries[d]) = parseThreadId(e)}
<1>1. \A d \in DOMAIN entries : StartTime(entries[d]) = Start(entries[d].first)
  BY DEF IInv, EntriesInv, StartTime
<1>2. upTo = {entries[d].first : d \in D}
  <2>1. {entries[d].first : d \in DOMAIN entries} = Queries
    BY AllRead DEF Reading
  <2> QED
    BY <2>1
<1>3. {Start(k) : k \in upTo} \cup {0} = StartsUpTo(e)
  <2>1. StartsUpTo(e) = {StartTime(entries[d]) : d \in D} \cup {0}
    BY DEF StartsUpTo
  <2> HIDE DEF Start, upTo
  <2> QED
    BY <1>1, <1>2, <2>1
<1>4. IsLatest(e.start_time, StartsUpTo(e))
  <2>1. it = Len(entries) + 1 /\ i < it
    BY EntryIs DEF IInv, AdjustInv, TypeOK
  <2> QED
    BY <2>1 DEF IInv, AdjustInv, AdjustedInv
<1> HIDE DEF e
<1> QED
  BY <1>3, <1>4 DEF IsLatest, e

LEMMA IInvOrderKept == IInv => ConnectionOrderKept
<1> SUFFICES ASSUME IInv, lpc = "done", NEW i \in DOMAIN entries, NEW j \in DOMAIN entries, i < j,
                    parseThreadId(entries[i]) = parseThreadId(entries[j])
             PROVE  entries[i].first < entries[j].first
  BY DEF ConnectionOrderKept
<1>1. CASE ~MustSort
  BY <1>1 DEF IInv, OrderInv
<1>2. CASE MustSort
  <2>1. /\ entries[i].first \in Nat /\ entries[i].start_time \in Int
        /\ entries[j].first \in Nat /\ entries[j].start_time \in Int
        /\ i < it /\ j < it /\ i # j
    <3>1. it = Len(entries) + 1 /\ Len(entries) \in Nat
      BY <1>2 DEF IInv, AdjustInv, TypeOK
    <3>2. /\ i \in 1 .. Len(entries) /\ entries[i] \in Entry
          /\ j \in 1 .. Len(entries) /\ entries[j] \in Entry
      BY EntryIs
    <3> QED
      BY <3>1, <3>2 DEF Entry
  <2>2. /\ IsLatest(entries[i].start_time, StartsUpTo(entries[i]))
        /\ IsLatest(entries[j].start_time, StartsUpTo(entries[j]))
    BY <2>1 DEF IInv, AdjustInv, AdjustedInv
  <2>3. \/ entries[i].start_time < entries[j].start_time
        \/ /\ entries[i].start_time = entries[j].start_time
           /\ entries[i].first < entries[j].first
    BY <1>2 DEF IInv, OrderInv
  <2>4. entries[i].first # entries[j].first
    BY <2>1 DEF IInv, EntriesInv
  <2>5. ASSUME entries[j].first < entries[i].first
        PROVE  entries[j].start_time <= entries[i].start_time
    <3>1. \A d \in DOMAIN entries : entries[d].first <= entries[j].first =>
            entries[d].first <= entries[i].first
      BY <2>1, <2>5, EntryIs, SMTT(30)
    <3>2. StartsUpTo(entries[j]) \subseteq StartsUpTo(entries[i])
      BY <3>1 DEF StartsUpTo
    <3> QED
      BY <2>2, <3>2 DEF IsLatest
  <2> QED
    BY <2>1, <2>3, <2>4, <2>5
<1> QED
  BY <1>1, <1>2

LEMMA IInvSorted == IInv => SortedAsAsked
<1> SUFFICES ASSUME IInv, lpc = "done"
             PROVE  /\ \A i, j \in DOMAIN entries : i < j =>
                         IF g_disable_sorting /\ ~g_accurate_mode
                         THEN entries[i].first < entries[j].first
                         ELSE entries[i].start_time <= entries[j].start_time
                    /\ g_accurate_mode => \A i \in DOMAIN entries : TimeOf(entries[i].first) # 0
  BY DEF SortedAsAsked
<1>1. MustSort <=> ~(g_disable_sorting /\ ~g_accurate_mode)
  BY DEF MustSort
<1>2. \A i \in DOMAIN entries : entries[i].start_time \in Int
  BY EntryIs DEF Entry
<1>3. \A i, j \in DOMAIN entries : i < j =>
        IF ~MustSort THEN entries[i].first < entries[j].first
        ELSE entries[i].start_time <= entries[j].start_time
  BY <1>2 DEF IInv, OrderInv
<1> QED
  BY <1>1, <1>3 DEF IInv, EntriesInv

(* A block is an interval of lines, and no line is in two of them.         *)
LEMMA BlockInterval ==
  ASSUME data \in Seq(Line), NEW b \in 1 .. Len(data)
  PROVE  BlockOf(b) = b .. b + Cardinality(BlockOf(b)) - 1
<1>1. Len(data) \in Nat /\ BlockOf(b) \subseteq b .. Len(data) /\ b \in BlockOf(b)
  BY DataIs DEF BlockOf
<1>2. PICK m \in BlockOf(b) : \A i \in BlockOf(b) : i <= m
  <2>1. BlockOf(b) \in SUBSET Nat /\ BlockOf(b) \in SUBSET (1 .. Len(data)) /\ BlockOf(b) # {}
    BY <1>1
  <2>2. IsFiniteSet(BlockOf(b))
    BY <2>1, DataIs
  <2> QED
    BY <2>1, <2>2, Extremes
<1>3. m \in b .. Len(data) /\ \A j \in b + 1 .. m : ~StopsBlock(j)
  BY <1>1, <1>2 DEF BlockOf
<1>4. m < Len(data) => StopsBlock(m + 1)
  <2>1. m < Len(data) => m + 1 \in b .. Len(data) /\ m + 1 \notin BlockOf(b)
    BY <1>1, <1>2, <1>3
  <2>2. \A j \in b + 1 .. m + 1 : j \in b + 1 .. m \/ j = m + 1
    BY <1>1, <1>3
  <2> QED
    BY <1>3, <2>1, <2>2 DEF BlockOf
<1>5. BlockOf(b) = b .. m /\ Cardinality(BlockOf(b)) = m - b + 1
  BY <1>3, <1>4, BlockEnds
<1>6. b + Cardinality(BlockOf(b)) - 1 = m
  BY <1>1, <1>3, <1>5
<1> QED
  BY <1>5, <1>6

LEMMA BlocksDisjoint ==
  ASSUME data \in Seq(Line), NEW b \in Queries, NEW c \in Queries,
         NEW k \in BlockOf(b), k \in BlockOf(c)
  PROVE  b = c
<1>1. /\ Len(data) \in Nat /\ b \in 1 .. Len(data) /\ c \in 1 .. Len(data)
      /\ Starts(b) /\ Starts(c)
  BY DataIs DEF Queries
<1>2. /\ k \in b .. Len(data) /\ \A j \in b + 1 .. k : ~StopsBlock(j)
      /\ k \in c .. Len(data) /\ \A j \in c + 1 .. k : ~StopsBlock(j)
  BY DEF BlockOf
<1>3. ASSUME b < c PROVE FALSE
  <2>1. c \in b + 1 .. Len(data) /\ \A j \in b + 1 .. c : ~StopsBlock(j)
    BY <1>1, <1>2, <1>3
  <2> QED
    BY <1>1, <2>1, NoStartInBlock
<1>4. ASSUME c < b PROVE FALSE
  <2>1. b \in c + 1 .. Len(data) /\ \A j \in c + 1 .. b : ~StopsBlock(j)
    BY <1>1, <1>2, <1>4
  <2> QED
    BY <1>1, <2>1, NoStartInBlock
<1> QED
  BY <1>1, <1>3, <1>4

(* Which entries send a line: those whose block it is in, unless it is     *)
(* left out; and these are at most one.                                    *)
LEMMA Senders ==
  ASSUME IInv, lpc = "done", NEW k \in DOMAIN data, NEW remove \in BOOLEAN,
         NEW senders, senders = {i \in DOMAIN entries : k \in getQuery(entries[i], remove)}
  PROVE  /\ \A i \in DOMAIN entries : i \in senders <=>
              /\ k \in BlockOf(entries[i].first)
              /\ \E j \in entries[i].first .. k : ~IsComment(j)
              /\ ~(remove /\ data[k].kind = "set")
         /\ \A i \in DOMAIN entries : entries[i].first \in Queries
         /\ \A b \in Queries : \E i \in DOMAIN entries : entries[i].first = b
         /\ senders = {} \/ Cardinality(senders) = 1
<1>1. data \in Seq(Line) /\ {entries[i].first : i \in DOMAIN entries} = Queries
  BY AllRead, LineIs DEF IInv, Reading
<1>2. \A i \in DOMAIN entries :
        /\ entries[i].first \in Queries /\ entries[i].first \in 1 .. Len(data)
        /\ BlockOf(entries[i].first) = entries[i].first .. entries[i].last
  BY <1>1, EntryIs, BlockInterval DEF IInv, EntriesInv
<1>3. \A i \in DOMAIN entries : i \in senders <=>
        /\ k \in BlockOf(entries[i].first)
        /\ \E j \in entries[i].first .. k : ~IsComment(j)
        /\ ~(remove /\ data[k].kind = "set")
  <2> SUFFICES ASSUME NEW i \in DOMAIN entries
               PROVE  i \in senders <=> /\ k \in BlockOf(entries[i].first)
                                        /\ \E j \in entries[i].first .. k : ~IsComment(j)
                                        /\ ~(remove /\ data[k].kind = "set")
    OBVIOUS
  <2>1. i \in senders <=> k \in getQuery(entries[i], remove)
    OBVIOUS
  <2>2. BlockOf(entries[i].first) = entries[i].first .. entries[i].last
    BY <1>2
  <2> QED
    BY <2>1, <2>2 DEF getQuery
<1>4. \A b \in Queries : \E i \in DOMAIN entries : entries[i].first = b
  BY <1>1
<1>5. \A i, j \in senders : i = j
  <2> SUFFICES ASSUME NEW i \in senders, NEW j \in senders PROVE i = j
    OBVIOUS
  <2>1. i \in DOMAIN entries /\ j \in DOMAIN entries
    OBVIOUS
  <2>2. k \in BlockOf(entries[i].first) /\ k \in BlockOf(entries[j].first)
    BY <1>3, <2>1
  <2>3. entries[i].first = entries[j].first
    BY <1>1, <1>2, <2>1, <2>2, BlocksDisjoint
  <2> QED
    BY <2>1, <2>3 DEF IInv, EntriesInv
<1>6. senders = {} \/ Cardinality(senders) = 1
  <2>1. senders = {} \/ \E i : senders = {i}
    BY <1>5
  <2> QED
    BY <2>1, FS_Singleton
<1> QED
  BY <1>2, <1>3, <1>4, <1>6

LEMMA IInvSentOnce == IInv => LinesSentOnce
<1> SUFFICES ASSUME IInv, lpc = "done", NEW k \in DOMAIN data, NEW remove \in BOOLEAN
             PROVE
      LET senders == {i \in DOMAIN entries : k \in getQuery(entries[i], remove)}
          ofQuery == \E b \in Queries : k \in BlockOf(b) \ Leading(b)
          leftOut == remove /\ data[k].kind = "set"
      IN  Cardinality(senders) = IF ofQuery /\ ~leftOut THEN 1 ELSE 0
  BY DEF LinesSentOnce
<1> DEFINE senders == {i \in DOMAIN entries : k \in getQuery(entries[i], remove)}
           ofQuery == \E b \in Queries : k \in BlockOf(b) \ Leading(b)
           leftOut == remove /\ data[k].kind = "set"
<1>1. /\ \A i \in DOMAIN entries : i \in senders <=>
           /\ k \in BlockOf(entries[i].first)
           /\ \E j \in entries[i].first .. k : ~IsComment(j)
           /\ ~leftOut
      /\ \A i \in DOMAIN entries : entries[i].first \in Queries
      /\ \A b \in Queries : \E i \in DOMAIN entries : entries[i].first = b
      /\ senders = {} \/ Cardinality(senders) = 1
      /\ senders \subseteq DOMAIN entries
  BY Senders, ZenonT(60)
<1>2. Cardinality({}) = 0
  BY FS_EmptySet
<1>3. ofQuery <=> \E b \in Queries : k \in BlockOf(b) /\ \E j \in b .. k : ~IsComment(j)
  BY DEF Leading
<1> HIDE DEF senders, ofQuery, leftOut
<1>4. senders # {} <=> ofQuery /\ ~leftOut
  <2>1. ASSUME NEW i \in senders PROVE ofQuery /\ ~leftOut
    BY <1>1, <1>3, <2>1
  <2>2. ASSUME ofQuery, ~leftOut PROVE senders # {}
    <3>1. PICK b \in Queries : k \in BlockOf(b) /\ \E j \in b .. k : ~IsComment(j)
      BY <1>3, <2>2
    <3>2. PICK i \in DOMAIN entries : entries[i].first = b
      BY <1>1
    <3> QED
      BY <1>1, <2>2, <3>1, <3>2
  <2> QED
    BY <2>1, <2>2
<1> QED
  BY <1>1, <1>2, <1>4 DEF senders, ofQuery, leftOut

-----------------------------------------------------------------------------
(* The invariant of getEntries, from which the others follow: what has     *)
(* been read, which entries there are, how their start times are adjusted  *)
(* and how they are sorted.                                                *)
THEOREM Invariance == Spec => []IInv
<1>1. Init => IInv
  BY InitIInv
<1>2. IInv /\ [Next]_vars => IInv'
  BY NextIInv
<1> QED
  BY <1>1, <1>2, PTL DEF Spec

(* The variables have their types in every log: the reader never gets past *)
(* the end of the text, and every number that is parsed is one.            *)
THEOREM TypeCorrect == Spec => []TypeOK
<1>1. IInv => TypeOK
  BY DEF IInv
<1> QED
  BY <1>1, Invariance, PTL

(* However lines are read ahead, every block with a query becomes exactly  *)
(* one entry, with all its lines and no other, and adjusting and sorting   *)
(* neither lose nor repeat one (getEntries).                               *)
THEOREM BlocksBecomeEntries == Spec => []EntriesExact
<1>1. IInv => EntriesExact
  BY IInvExact
<1> QED
  BY <1>1, Invariance, PTL

(* The adjusted start time of a query is the latest one of its connection  *)
(* so far, no earlier and no later (the loop over the entries with         *)
(* last_timestamp_of_conn).                                                *)
THEOREM AdjustedToConnection == Spec => []StartTimesAdjusted
<1>1. IInv => StartTimesAdjusted
  BY IInvAdjusted
<1> QED
  BY <1>1, Invariance, PTL

(* Sorting all the queries by start time swaps no two of a connection: the *)
(* adjustment has made the order of their start times that of the log, and *)
(* the sort is stable.                                                     *)
THEOREM OrderOfConnections == Spec => []ConnectionOrderKept
<1>1. IInv => ConnectionOrderKept
  BY IInvOrderKept
<1> QED
  BY <1>1, Invariance, PTL

(* The queries are sorted unless that is disabled, and in accurate mode,   *)
(* in which the time of each query is known, even then (MustSort,          *)
(* CheckTimestamp).                                                        *)
THEOREM Sorted == Spec => []SortedAsAsked
<1>1. IInv => SortedAsAsked
  BY IInvSorted
<1> QED
  BY <1>1, Invariance, PTL

(* Every line of a query is sent once, by the entry of its block, and no   *)
(* other line of the log is sent, of whatever kind; a SET timestamp is     *)
(* sent only if that is asked for (QueryLogData::getQuery).                *)
THEOREM EachLineOnce == Spec => []LinesSentOnce
<1>1. IInv => LinesSentOnce
  BY IInvSentOnce
<1> QED
  BY <1>1, Invariance, PTL
=============================================================================
