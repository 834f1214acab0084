-------------------------- MODULE GeneralLogProofs --------------------------
(***************************************************************************)
(* Theorems about GeneralLog, for every log of every length.               *)
(***************************************************************************)
EXTENDS GeneralLog, FiniteSetTheorems, TLAPS

-----------------------------------------------------------------------------
(* The inductive invariant: which lines have become entries, which of      *)
(* these are marked, and which are popped.                                 *)

(* The lines of queries before line n.                                     *)
LinesBefore(n) == {m \in Lines : m < n}

(* The entries that the walk from the end has passed; those of them that   *)
(* are the last ones of their connections.                                 *)
Visited == {k \in DOMAIN entries : k > Len(entries) + 1 - it}

LastOfConn(k) ==
  \A later \in DOMAIN entries :
    later > k => entries[later].thread_id # entries[k].thread_id

(* An entry for each line of a query read so far.                          *)
ReadInv ==
  /\ Len(entries) = Cardinality(LinesBefore(next))
  /\ \A k \in DOMAIN entries :
       /\ entries[k].thread_id = data[Nth(k)].id
       /\ entries[k].query = <<[line |-> Nth(k), cut |-> ~data[Nth(k)].newline]>>
  /\ lpc # "read" => next = Len(data) + 1 /\ num_entries = Len(entries)

(* The marks so far.                                                       *)
MarkInv ==
  /\ \A k \in DOMAIN entries : entries[k].shutdown = (k \in Visited /\ LastOfConn(k))
  /\ thread_ids = {entries[k].thread_id : k \in Visited}
  /\ lpc = "read" \/ ~marks => it = 1
  /\ lpc = "mark" => marks
  /\ marks /\ lpc \in {"pop", "done"} => it = Len(entries) + 1

PopInv ==
  /\ Len(popped) = pos
  /\ \A k \in 1 .. pos : popped[k] = entries[k]
  /\ lpc \in {"read", "mark"} => pos = 0
  /\ lpc = "done" => pos = Len(entries)

IInv == TypeOK /\ ReadInv /\ MarkInv /\ PopInv

-----------------------------------------------------------------------------
(* How many lines of queries are before a line.                            *)
Count(n) == Cardinality(LinesBefore(n))

(* There are finitely many.                                                *)
LEMMA LinesFinite ==
  ASSUME data \in Texts
  PROVE  /\ Len(data) \in Nat /\ Lines \subseteq 1 .. Len(data) /\ IsFiniteSet(Lines)
         /\ \A n : IsFiniteSet(LinesBefore(n)) /\ Count(n) \in Nat
<1>1. Len(data) \in Nat /\ DOMAIN data = 1 .. Len(data)
  BY TextsAssumption
<1>2. Lines \subseteq 1 .. Len(data)
  BY <1>1 DEF Lines
<1>3. IsFiniteSet(Lines)
  <2>1. IsFiniteSet(1 .. Len(data))
    BY <1>1, FS_Interval
  <2> QED
    BY <1>2, <2>1, FS_Subset
<1>4. ASSUME NEW n
      PROVE  IsFiniteSet(LinesBefore(n)) /\ Count(n) \in Nat
  <2>1. LinesBefore(n) \in SUBSET Lines
    BY DEF LinesBefore
  <2> QED
    BY <1>3, <2>1, FS_Subset, FS_CardinalityType DEF Count
<1> QED
  BY <1>1, <1>2, <1>3, <1>4

(* The line of a query is counted as soon as it has been read, another one *)
(* is not.                                                                 *)
LEMMA CountNext ==
  ASSUME data \in Texts, NEW n \in DOMAIN data
  PROVE  /\ Count(n + 1) = IF Matches(n) THEN Count(n) + 1 ELSE Count(n)
         /\ n \in Lines <=> Matches(n)
<1>1. /\ n \in Nat /\ Lines \subseteq Nat /\ DOMAIN data \subseteq Nat
      /\ IsFiniteSet(LinesBefore(n))
  BY LinesFinite, TextsAssumption
<1>2. n \in Lines <=> Matches(n)
  BY DEF Lines
<1>3. n \notin LinesBefore(n)
  BY <1>1 DEF LinesBefore
<1>4. LinesBefore(n + 1) = IF n \in Lines THEN LinesBefore(n) \cup {n} ELSE LinesBefore(n)
  <2>1. \A m \in Lines : m < n + 1 <=> m < n \/ m = n
    BY <1>1
  <2> QED
    BY <2>1 DEF LinesBefore
<1> QED
  BY <1>1, <1>2, <1>3, <1>4, FS_AddElement DEF Count

(* A line further down has no fewer before it.                             *)
LEMMA CountGrows ==
  ASSUME data \in Texts, NEW m \in Nat, NEW n \in Nat, m <= n
  PROVE  Count(m) <= Count(n)
<1>1. LinesBefore(m) \in SUBSET LinesBefore(n)
  BY LinesFinite DEF LinesBefore
<1> QED
  BY <1>1, LinesFinite, FS_Subset DEF Count

(* All lines of queries are before the end of the log, none before its     *)
(* first line.                                                             *)
LEMMA CountEnds ==
  ASSUME data \in Texts
  PROVE  Count(1) = 0 /\ Count(Len(data) + 1) = Cardinality(Lines)
<1>1. LinesBefore(1) = {}
  BY LinesFinite DEF LinesBefore
<1>2. LinesBefore(Len(data) + 1) = Lines
  BY LinesFinite DEF LinesBefore
<1> QED
  BY <1>1, <1>2, FS_EmptySet DEF Count

(* A line of a query is the one that Nth counts.                           *)
LEMMA NthIs ==
  ASSUME data \in Texts, NEW n \in Lines
  PROVE  Nth(Count(n) + 1) = n
<1> DEFINE UpTo(l) == {m \in Lines : m <= l}
<1>1. /\ \A l \in Lines : l \in DOMAIN data /\ Matches(l)
      /\ Lines \subseteq Nat
  BY LinesFinite DEF Lines
<1>2. ASSUME NEW l \in Lines
      PROVE  Cardinality(UpTo(l)) = Count(l) + 1
  <2>1. UpTo(l) = LinesBefore(l + 1)
    <3>1. \A m \in Lines : m < l + 1 <=> m <= l
      BY <1>1
    <3> QED
      BY <3>1 DEF LinesBefore
  <2> QED
    BY <1>1, <2>1, CountNext DEF Count
<1>3. ASSUME NEW l \in Lines, Count(l) = Count(n)
      PROVE  l = n
  <2>1. ASSUME NEW a \in Lines, NEW b \in Lines, a < b
        PROVE  Count(a) < Count(b)
    <3>1. Count(a + 1) <= Count(b)
      BY <1>1, <2>1, CountGrows
    <3> QED
      BY <1>1, <3>1, CountNext, LinesFinite
  <2> QED
    BY <1>1, <1>3, <2>1, LinesFinite
<1>4. \A l \in Lines : Cardinality(UpTo(l)) = Count(n) + 1 <=> l = n
  BY <1>2, <1>3, LinesFinite
<1>5. Nth(Count(n) + 1) = CHOOSE l \in Lines : Cardinality(UpTo(l)) = Count(n) + 1
  BY DEF Nth
<1> HIDE DEF UpTo
<1> QED
  BY <1>4, <1>5

(* Nothing of that depends on anything but the log.                        *)
LEMMA DataFixed ==
  ASSUME data' = data
  PROVE  /\ \A n : LinesBefore(n)' = LinesBefore(n)
         /\ \A k : Nth(k)' = Nth(k)
<1>1. Lines' = Lines
  BY DEF Lines, Matches
<1>2. \A n : LinesBefore(n)' = LinesBefore(n)
  BY <1>1 DEF LinesBefore
<1>3. \A k : Nth(k)' = Nth(k)
  BY <1>1 DEF Nth
<1> QED
  BY <1>2, <1>3

-----------------------------------------------------------------------------
(* The steps of the reader thread keep the invariant.                      *)

(* No entry is made, marked or popped initially.                           *)
LEMMA InitIInv == Init => IInv
<1> SUFFICES ASSUME Init PROVE IInv
  OBVIOUS
<1> USE DEF Init
<1>1. TypeOK
  BY LinesFinite DEF TypeOK
<1>2. ReadInv
  BY CountEnds DEF ReadInv, Count
<1>3. MarkInv
  BY DEF MarkInv, Visited
<1>4. PopInv
  BY DEF PopInv
<1> QED
  BY <1>1, <1>2, <1>3, <1>4 DEF IInv

(* A step that changes neither the entries nor what is known of them.      *)
LEMMA SameEntries ==
  ASSUME MarkInv, UNCHANGED <<data, marks, entries, markVars>>
  PROVE  /\ \A k \in DOMAIN entries' :
              entries'[k].shutdown = (k \in Visited' /\ LastOfConn(k)')
         /\ thread_ids' = {entries'[k].thread_id : k \in Visited'}
<1>1. \A k : LastOfConn(k)' = LastOfConn(k)
  BY DEF LastOfConn
<1>2. Visited' = Visited
  BY DEF Visited, markVars
<1> QED
  BY <1>1, <1>2 DEF MarkInv, markVars

(* A line that is none of a query makes no entry.                          *)
LEMMA SkipLineIInv ==
  ASSUME IInv, SkipLine
  PROVE  IInv'
<1> USE DEF IInv, SkipLine, HasLine
<1>1. next \in DOMAIN data /\ data \in Texts
  BY LinesFinite DEF TypeOK
<1>2. TypeOK'
  BY LinesFinite DEF TypeOK, Entry, markVars, popVars
<1>3. ReadInv'
  <2>1. Count(next + 1) = Count(next)
    BY <1>1, CountNext
  <2>2. Len(entries) = Cardinality(LinesBefore(next + 1))
    BY <2>1 DEF ReadInv, Count
  <2> QED
    BY <2>2, DataFixed DEF ReadInv
<1>4. MarkInv'
  BY SameEntries DEF MarkInv, markVars
<1>5. PopInv'
  BY DEF PopInv, popVars
<1> QED
  BY <1>2, <1>3, <1>4, <1>5

(* The line of a query makes an entry of its own, behind the others.       *)
LEMMA QueryLineIInv ==
  ASSUME IInv, QueryLine
  PROVE  IInv'
<1> USE DEF IInv
<1> DEFINE e == add_query_line(tmp_entry, next)
           q == <<[line |-> next, cut |-> ~data[next].newline]>>
<1>1. /\ next \in DOMAIN data /\ data \in Texts /\ Matches(next) /\ lpc = "read"
      /\ data[next] \in Line /\ tmp_entry = NewEntry
  BY LinesFinite, TextsAssumption DEF TypeOK, QueryLine, HasLine
<1>2. /\ entries' = Append(entries, e) /\ tmp_entry' = NewEntry /\ next' = next + 1
      /\ UNCHANGED <<data, marks, num_entries, it, thread_ids, pos, popped, lpc>>
  BY DEF QueryLine, ResetEntry, markVars, popVars
<1>3. e \in [thread_id : {data[next].id}, query : {q}, shutdown : {FALSE}]
  <2>1. Append(NewEntry.query, [line |-> next, cut |-> ~data[next].newline]) = q
    BY DEF NewEntry
  <2> HIDE DEF q
  <2>2. e = [NewEntry EXCEPT !.thread_id = data[next].id, !.query = q]
    BY <1>1, <2>1 DEF add_query_line
  <2> QED
    BY <2>2 DEF NewEntry
<1>4. e \in Entry
  <2>1. [line |-> next, cut |-> ~data[next].newline] \in [line : DOMAIN data, cut : BOOLEAN]
    BY <1>1
  <2>2. q \in {<<p>> : p \in [line : DOMAIN data, cut : BOOLEAN]}
    BY <2>1
  <2>3. data[next].id \in Nat
    BY <1>1 DEF Line
  <2> HIDE DEF q
  <2> QED
    BY <1>3, <2>2, <2>3 DEF Entry
<1>5. e.shutdown = FALSE /\ e.thread_id = data[next].id /\ e.query = q
  BY <1>3
<1> HIDE DEF e
<1>6. /\ entries \in Seq(Entry) /\ entries' \in Seq(Entry) /\ Len(entries) \in Nat
      /\ Len(entries') = Len(entries) + 1 /\ entries'[Len(entries) + 1] = e
      /\ DOMAIN entries = 1 .. Len(entries) /\ DOMAIN entries' = 1 .. Len(entries) + 1
      /\ \A k \in 1 .. Len(entries) : entries'[k] = entries[k]
  BY <1>2, <1>4 DEF TypeOK
<1>7. TypeOK'
  <2>1. Entry' = Entry
    BY <1>2 DEF Entry
  <2>2. next + 1 \in 1 .. Len(data) + 1
    BY <1>1, LinesFinite
  <2> QED
    BY <1>2, <1>6, <2>1, <2>2 DEF TypeOK
<1>8. ReadInv'
  <2>1. Count(next + 1) = Count(next) + 1 /\ next \in Lines
    BY <1>1, CountNext
  <2>2. Len(entries) = Count(next)
    BY DEF ReadInv, Count
  <2>3. Nth(Len(entries) + 1) = next
    BY <1>1, <2>1, <2>2, NthIs
  <2>4. \A k \in DOMAIN entries' :
          /\ entries'[k].thread_id = data[Nth(k)].id
          /\ entries'[k].query = <<[line |-> Nth(k), cut |-> ~data[Nth(k)].newline]>>
    BY <1>5, <1>6, <2>3 DEF ReadInv
  <2>5. Len(entries') = Cardinality(LinesBefore(next + 1))
    BY <1>6, <2>1, <2>2 DEF Count
  <2> QED
    BY <1>1, <1>2, <2>4, <2>5, DataFixed DEF ReadInv
<1>9. MarkInv'
  <2>1. it = 1 /\ Visited = {} /\ thread_ids = {}
    BY <1>1, <1>6 DEF MarkInv, Visited
  <2>2. Visited' = {}
    BY <1>2, <1>6, <2>1 DEF Visited
  <2>3. \A k \in DOMAIN entries' : entries'[k].shutdown = FALSE
    <3>1. \A k \in DOMAIN entries : entries[k].shutdown = FALSE
      BY <2>1, Zenon DEF MarkInv
    <3> QED
      BY <1>5, <1>6, <3>1
  <2> QED
    BY <1>1, <1>2, <2>1, <2>2, <2>3 DEF MarkInv
<1>10. PopInv'
  BY <1>1, <1>2 DEF PopInv
<1> QED
  BY <1>7, <1>8, <1>9, <1>10

(* At the end of the log the walk starts, or the entries are handed over.  *)
LEMMA EndOfLogIInv ==
  ASSUME IInv, EndOfLog
  PROVE  IInv'
<1> USE DEF IInv, EndOfLog, readVars
<1>1. next = Len(data) + 1 /\ lpc' \in {"mark", "pop"} /\ (lpc' = "mark" <=> marks)
  BY LinesFinite DEF TypeOK
<1>2. TypeOK'
  <2>1. Len(entries) \in Nat
    BY DEF TypeOK
  <2> QED
    BY <1>1, <2>1 DEF TypeOK, Entry, markVars, popVars
<1>3. ReadInv'
  BY <1>1, DataFixed DEF ReadInv
<1>4. MarkInv'
  BY <1>1, SameEntries DEF MarkInv, markVars
<1>5. PopInv'
  BY <1>1 DEF PopInv, popVars
<1> QED
  BY <1>2, <1>3, <1>4, <1>5

(* The walk passes an entry, and marks it if it has met no later one of    *)
(* its connection.                                                         *)
LEMMA MarkIInv ==
  ASSUME IInv, Mark
  PROVE  IInv'
<1> USE DEF IInv
<1> DEFINE k0 == Len(entries) + 1 - it
           id == entries[k0].thread_id
<1>1. /\ Len(entries) \in Nat /\ DOMAIN entries = 1 .. Len(entries) /\ entries \in Seq(Entry)
      /\ it \in 1 .. Len(entries) /\ k0 \in DOMAIN entries /\ id \in Nat
      /\ entries[k0] \in Entry
  <2>1. /\ entries \in Seq(Entry) /\ Len(entries) \in Nat /\ DOMAIN entries = 1 .. Len(entries)
        /\ it \in 1 .. Len(entries)
    BY DEF TypeOK, Mark
  <2>2. k0 \in DOMAIN entries
    BY <2>1
  <2>3. entries[k0] \in Entry
    BY <2>1, <2>2
  <2> HIDE DEF k0
  <2> QED
    BY <2>1, <2>2, <2>3 DEF Entry
<1>2. /\ lpc = "mark" /\ lpc' = lpc /\ it' = it + 1 /\ thread_ids' = thread_ids \cup {id}
      /\ entries' = IF id \in thread_ids THEN entries
                    ELSE [entries EXCEPT ![k0].shutdown = TRUE]
      /\ UNCHANGED <<data, marks, next, tmp_entry, num_entries, pos, popped>>
  BY DEF Mark, Backward, readVars, popVars
<1>3. /\ Visited' = Visited \cup {k0} /\ k0 \notin Visited
      /\ \A k \in Visited : k > k0
  <2>1. Len(entries') = Len(entries) /\ DOMAIN entries' = DOMAIN entries
    BY <1>1, <1>2
  <2> QED
    BY <1>1, <1>2, <2>1 DEF Visited
<1>4. id \in thread_ids <=> ~LastOfConn(k0)
  <2>1. \A k \in DOMAIN entries : k > k0 <=> k \in Visited
    BY <1>1 DEF Visited
  <2>2. Visited \subseteq DOMAIN entries
    BY DEF Visited
  <2> QED
    BY <2>1, <2>2 DEF MarkInv, LastOfConn
<1>5. /\ entries' \in Seq(Entry) /\ Len(entries') = Len(entries)
      /\ DOMAIN entries' = DOMAIN entries
      /\ \A k \in DOMAIN entries : k # k0 => entries'[k] = entries[k]
      /\ \A k \in DOMAIN entries : /\ entries'[k].thread_id = entries[k].thread_id
                                   /\ entries'[k].query = entries[k].query
      /\ id \notin thread_ids => entries'[k0].shutdown = TRUE
  <2> DEFINE e == [entries[k0] EXCEPT !.shutdown = TRUE]
  <2>1. /\ e \in Entry /\ e.thread_id = entries[k0].thread_id /\ e.query = entries[k0].query
        /\ e.shutdown = TRUE
    BY <1>1 DEF Entry
  <2>2. [entries EXCEPT ![k0].shutdown = TRUE] = [entries EXCEPT ![k0] = e]
    OBVIOUS
  <2> HIDE DEF e, k0, id
  <2>3. CASE id \in thread_ids
    BY <1>1, <1>2, <2>3
  <2>4. CASE id \notin thread_ids
    <3>1. entries' = [entries EXCEPT ![k0] = e]
      BY <1>2, <2>2, <2>4
    <3> QED
      BY <1>1, <2>1, <2>4, <3>1
  <2> QED
    BY <2>3, <2>4
<1> HIDE DEF k0, id
<1>6. TypeOK'
  BY <1>1, <1>2, <1>5, SMTT(30) DEF TypeOK, Entry
<1>7. ReadInv'
  BY <1>2, <1>5, DataFixed DEF ReadInv
<1>8. MarkInv'
  <2>1. \A k \in DOMAIN entries : LastOfConn(k)' = LastOfConn(k)
    BY <1>5 DEF LastOfConn
  <2>2. ASSUME NEW k \in DOMAIN entries
        PROVE  entries'[k].shutdown = (k \in Visited' /\ LastOfConn(k))
    <3>1. entries[k].shutdown = (k \in Visited /\ LastOfConn(k))
      BY DEF MarkInv
    <3>2. CASE k # k0
      <4>1. k \in Visited' <=> k \in Visited
        BY <1>3, <3>2
      <4>2. entries'[k] = entries[k]
        BY <1>5, <3>2
      <4> QED
        BY <3>1, <4>1, <4>2, Zenon
    <3>3. CASE k = k0 /\ id \in thread_ids
      <4>1. entries'[k] = entries[k]
        BY <1>2, <3>3
      <4> QED
        BY <1>3, <1>4, <3>1, <3>3, <4>1, Zenon
    <3>4. CASE k = k0 /\ id \notin thread_ids
      <4>1. k \in Visited'
        BY <1>3, <3>4
      <4> QED
        BY <1>4, <1>5, <3>4, <4>1, Zenon
    <3> QED
      BY <3>2, <3>3, <3>4
  <2>3. thread_ids' = {entries'[k].thread_id : k \in Visited'}
    <3>1. Visited \subseteq DOMAIN entries
      BY DEF Visited
    <3>2. thread_ids = {entries[k].thread_id : k \in Visited}
      BY DEF MarkInv
    <3>3. {entries[k].thread_id : k \in Visited'} = thread_ids \cup {id}
      BY <1>3, <3>2 DEF id
    <3> QED
      BY <1>1, <1>2, <1>3, <1>5, <3>1, <3>3
  <2>4. marks
    BY <1>2 DEF MarkInv
  <2>5. \A k \in DOMAIN entries' : entries'[k].shutdown = (k \in Visited' /\ LastOfConn(k)')
    BY <1>5, <2>1, <2>2, Zenon
  <2> QED
    BY <1>2, <2>3, <2>4, <2>5 DEF MarkInv
<1>9. PopInv'
  BY <1>2 DEF PopInv
<1> QED
  BY <1>6, <1>7, <1>8, <1>9

(* The walk ends with the first entry.                                     *)
LEMMA EndMarkIInv ==
  ASSUME IInv, EndMark
  PROVE  IInv'
<1> USE DEF IInv, EndMark, readVars
<1>1. it = Len(entries) + 1 /\ marks
  BY DEF TypeOK, MarkInv
<1>2. TypeOK'
  BY DEF TypeOK, Entry, markVars, popVars
<1>3. ReadInv'
  BY DataFixed DEF ReadInv
<1>4. MarkInv'
  BY <1>1, SameEntries DEF MarkInv, markVars
<1>5. PopInv'
  BY DEF PopInv, popVars
<1> QED
  BY <1>2, <1>3, <1>4, <1>5

(* An entry is handed to the dispatcher.                                   *)
LEMMA popEntryIInv ==
  ASSUME IInv, popEntry
  PROVE  IInv'
<1> USE DEF IInv
<1>1. /\ Len(entries) \in Nat /\ DOMAIN entries = 1 .. Len(entries)
      /\ entries \in Seq(Entry) /\ popped \in Seq(Entry)
      /\ pos \in 0 .. Len(entries) - 1 /\ pos + 1 \in DOMAIN entries
  BY DEF TypeOK, popEntry
<1>2. /\ lpc = "pop" /\ pos' = pos + 1 /\ popped' = Append(popped, entries[pos + 1])
      /\ UNCHANGED <<data, marks, next, tmp_entry, entries, num_entries, it, thread_ids, lpc>>
  BY DEF popEntry, readVars, markVars
<1>3. TypeOK'
  <2>1. popped' \in Seq(Entry) /\ pos' \in 0 .. Len(entries)
    BY <1>1, <1>2
  <2>2. Entry' = Entry
    BY <1>2 DEF Entry
  <2> QED
    BY <1>2, <2>1, <2>2 DEF TypeOK
<1>4. ReadInv'
  BY <1>2, DataFixed DEF ReadInv
<1>5. MarkInv'
  BY <1>2, SameEntries DEF MarkInv, markVars
<1>6. PopInv'
  BY <1>1, <1>2 DEF PopInv
<1> QED
  BY <1>3, <1>4, <1>5, <1>6

(* All have been.                                                          *)
LEMMA FinishIInv ==
  ASSUME IInv, Finish
  PROVE  IInv'
<1> USE DEF IInv, Finish, readVars
<1>1. TypeOK'
  BY DEF TypeOK, Entry, markVars, popVars
<1>2. ReadInv'
  BY DataFixed DEF ReadInv
<1>3. MarkInv'
  BY SameEntries DEF MarkInv, markVars
<1>4. PopInv'
  BY DEF PopInv, popVars
<1> QED
  BY <1>1, <1>2, <1>3, <1>4

LEMMA NextIInv == IInv /\ [Next]_vars => IInv'
<1> SUFFICES ASSUME IInv, [Next]_vars PROVE IInv'
  OBVIOUS
<1>1. CASE SkipLine
  BY <1>1, SkipLineIInv
<1>2. CASE QueryLine
  BY <1>2, QueryLineIInv
<1>3. CASE EndOfLog
  BY <1>3, EndOfLogIInv
<1>4. CASE Mark
  BY <1>4, MarkIInv
<1>5. CASE EndMark
  BY <1>5, EndMarkIInv
<1>6. CASE popEntry
  BY <1>6, popEntryIInv
<1>7. CASE Finish
  BY <1>7, FinishIInv
<1>8. CASE UNCHANGED vars
  <2> USE <1>8 DEF IInv, vars, readVars
  <2>1. TypeOK'
    BY DEF TypeOK, Entry, markVars, popVars
  <2>2. ReadInv'
    BY DataFixed DEF ReadInv
  <2>3. MarkInv'
    BY SameEntries DEF MarkInv, markVars
  <2>4. PopInv'
    BY DEF PopInv, popVars
  <2> QED
    BY <2>1, <2>2, <2>3, <2>4
<1> QED
  BY <1>1, <1>2, <1>3, <1>4, <1>5, <1>6, <1>7, <1>8 DEF Next, GeneralLogReaderThread, Done

-----------------------------------------------------------------------------
(* The log of the dispatchers, and what it says of an entry.               *)
LEMMA DispatchersLog ==
  ASSUME IInv, lpc # "read"
  PROVE  /\ Q!Positions = DOMAIN entries
         /\ \A k \in DOMAIN entries : Q!getThreadId(k) = entries[k].thread_id
         /\ \A k \in DOMAIN entries : k \in Q!LastQueries <=> LastOfConn(k)
<1> USE DEF IInv
<1>1. /\ Len(entries) = Cardinality(Lines) /\ Len(entries) \in Nat
      /\ DOMAIN entries = 1 .. Len(entries)
  <2>1. Len(entries) = Count(Len(data) + 1)
    BY DEF ReadInv, Count
  <2> QED
    BY <2>1, CountEnds DEF TypeOK
<1> DEFINE queries == [k \in 1 .. Cardinality(Lines) |->
                        [thread_id |-> data[Nth(k)].id, quit |-> FALSE]]
<1>2. Len(queries) = Len(entries)
  BY <1>1
<1>3. Q!Positions = DOMAIN entries
  BY <1>1, <1>2 DEF Q!Positions
<1>4. \A k \in DOMAIN entries : Q!getThreadId(k) = entries[k].thread_id
  BY <1>1 DEF ReadInv, Q!getThreadId
<1>5. \A k \in DOMAIN entries : k \in Q!LastQueries <=> LastOfConn(k)
  BY <1>3, <1>4 DEF Q!LastQueries, LastOfConn
<1> QED
  BY <1>3, <1>4, <1>5

(* The invariant says what has been handed over.                           *)
LEMMA IInvHandsOver == IInv => HandsOverQueries
<1> SUFFICES ASSUME IInv PROVE HandsOverQueries
  OBVIOUS
<1> USE DEF IInv
<1>1. /\ pos \in 0 .. Len(entries) /\ Len(entries) \in Nat /\ Len(popped) = pos
      /\ DOMAIN popped = 1 .. pos /\ DOMAIN entries = 1 .. Len(entries)
      /\ entries \in Seq(Entry)
  BY DEF TypeOK, PopInv
<1>2. ASSUME NEW k \in DOMAIN popped
      PROVE  popped[k] = [thread_id |-> Q!getThreadId(k),
                          query |-> <<[line |-> Nth(k), cut |-> ~data[Nth(k)].newline]>>,
                          shutdown |-> marks /\ k \in Q!LastQueries]
  <2>1. /\ lpc \in {"pop", "done"} /\ k \in DOMAIN entries
        /\ popped[k] = entries[k] /\ entries[k] \in Entry
    <3>1. k \in 1 .. pos /\ k \in DOMAIN entries /\ pos # 0
      BY <1>1
    <3>2. lpc \in {"pop", "done"} /\ popped[k] = entries[k]
      BY <3>1 DEF TypeOK, PopInv
    <3> QED
      BY <1>1, <3>1, <3>2
  <2>2. k \in Visited <=> marks
    BY <1>1, <2>1 DEF MarkInv, Visited
  <2>3. entries[k].shutdown = (k \in Visited /\ LastOfConn(k))
    BY <2>1 DEF MarkInv
  <2>4. k \in Q!LastQueries <=> LastOfConn(k)
    BY <2>1, DispatchersLog
  <2>5. entries[k].shutdown = (marks /\ k \in Q!LastQueries)
    BY <2>2, <2>3, <2>4, Zenon
  <2>6. /\ entries[k].thread_id = Q!getThreadId(k)
        /\ entries[k].query = <<[line |-> Nth(k), cut |-> ~data[Nth(k)].newline]>>
    BY <2>1, DispatchersLog DEF ReadInv
  <2>7. entries[k] = [thread_id |-> entries[k].thread_id, query |-> entries[k].query,
                      shutdown |-> entries[k].shutdown]
    BY <2>1 DEF Entry
  <2> QED
    BY <2>1, <2>5, <2>6, <2>7, Zenon
<1>3. ASSUME lpc = "done"
      PROVE  Len(popped) = Cardinality(Lines) /\ num_entries = Cardinality(Lines)
  <2>1. Len(entries) = Count(Len(data) + 1) /\ num_entries = Len(entries) /\ pos = Len(entries)
    BY <1>3 DEF ReadInv, PopInv, Count
  <2> QED
    BY <1>1, <2>1, CountEnds DEF TypeOK
<1> QED
  BY <1>2, <1>3 DEF HandsOverQueries

-----------------------------------------------------------------------------
(* The invariant of the reader thread, which the others follow from: which *)
(* lines have become entries, which of them are marked, which are popped   *)
(* (ParseGeneralLog::getEntries, GeneralLogEntries).                       *)
THEOREM Invariance == Spec => []IInv
<1>1. Init => IInv
  BY InitIInv
<1>2. IInv /\ [Next]_vars => IInv'
  BY NextIInv
<1> QED
  BY <1>1, <1>2, PTL DEF Spec

(* The variables have their types in every log: in particular the entry    *)
(* that is used again for every line is empty whenever a line is read, and *)
(* the text of an entry is that of one line (tmp_entry.reset).             *)
THEOREM TypeCorrect == Spec => []TypeOK
<1>1. IInv => TypeOK
  BY DEF IInv
<1> QED
  BY <1>1, Invariance, PTL

(* The dispatcher gets the lines of queries of every log, each as an entry *)
(* of its own, in their order, with its own thread id, marked if and only  *)
(* if it is the last one of its connection, and all of them in the end     *)
(* (ParseGeneralLog::getEntries, GeneralLogEntries::popEntry,              *)
(* setShutdownOnLastQueryOfConn).                                          *)
THEOREM QueriesHandedOver == Spec => []HandsOverQueries
<1>1. IInv => HandsOverQueries
  BY IInvHandsOver
<1> QED
  BY <1>1, Invariance, PTL
=============================================================================
