------------------------------ MODULE QueryLog ------------------------------
(***************************************************************************)
(* Reading a slow query log: getEntries                                    *)
(* (percona_playback/query_log/query_log.cc), which cuts the text into     *)
(* entries, moves their start times so that no query of a connection       *)
(* starts before the previous one, and sorts them by start time; and       *)
(* getQuery, which makes the text to send from the lines of an entry.      *)
(*                                                                         *)
(* A line of the log is its kind and what is parsed from it:               *)
(*   time    "# Time: ..."; val is the time, unless it cannot be parsed    *)
(*   user    "# User@Host: ..."; id is the number after "Id: ", if any     *)
(*   meta    another line of metadata; id is the number after "Thread_id:" *)
(*           and val the one after "Query_time: ", if any                  *)
(*   quit    "# administrator command: Quit;"                              *)
(*   admin   any other "# administrator command: ..."                      *)
(*   set     "SET timestamp=...", the server's or a client's               *)
(*   sql     another line of a query                                       *)
(*   banner  a line that the server writes when it opens the log           *)
(* A number that is there may be 0.                                        *)
(***************************************************************************)
EXTENDS Integers, Sequences, FiniteSets

CONSTANT Texts  \* the logs that may be read

Comments == {"time", "user", "meta", "quit", "admin"}  \* the lines with a #
Kinds == Comments \cup {"set", "sql", "banner"}

Absent == -1  \* for a number that is not there
Number == Nat \cup {Absent}
Line   == [kind : Kinds, id : Number, val : Number]

ASSUME TextsAssumption == Texts \subseteq Seq(Line)

VARIABLES
  data,                    (* the text                                     *)
  g_accurate_mode,         (* --query-log-accurate-mode                    *)
  g_disable_sorting,       (* --query-log-disable-sorting                  *)
  pos,                     (* the line that readline returns next          *)
  next_line,               (* a line that was read ahead, or 0             *)
  first,                   (* the first line of the block being read       *)
  num_sql_lines,           (* in that block                                *)
  current_timestamp,       (* of the last "# Time" line; 0 if there was    *)
                           (* none                                         *)
  entries,
  num_entries,
  num_queries,
  last_timestamp_of_conn,  (* of the thread ids met so far                 *)
  it,                      (* the iterator of the loop over the entries    *)
  lpc                      (* where getEntries is                          *)

options  == <<data, g_accurate_mode, g_disable_sorting>>
readVars == <<pos, next_line, first, num_sql_lines, current_timestamp>>
sortVars == <<last_timestamp_of_conn, it>>
counts   == <<num_entries, num_queries>>
vars == <<options, readVars, entries, counts, sortVars, lpc>>

(* A QueryLogData: the lines it refers to, and its start time.             *)
Entry == [first : Nat, last : Nat, start_time : Int]

TypeOK ==
  /\ data \in Seq(Line)
  /\ g_accurate_mode \in BOOLEAN /\ g_disable_sorting \in BOOLEAN
  /\ pos \in 1 .. Len(data) + 1
  /\ next_line \in 0 .. Len(data)
  /\ first \in 0 .. Len(data)
  /\ num_sql_lines \in Nat
  /\ current_timestamp \in Nat
  /\ entries \in Seq(Entry)
  /\ num_entries \in Nat /\ num_queries \in Nat
  /\ DOMAIN last_timestamp_of_conn \subseteq Nat
  /\ it \in 1 .. Len(entries) + 1
  /\ lpc \in {"line", "block", "adjust", "sort", "done"}

Init ==
  /\ data \in Texts
  /\ g_accurate_mode \in BOOLEAN /\ g_disable_sorting \in BOOLEAN
  /\ pos = 1 /\ next_line = 0 /\ first = 0 /\ num_sql_lines = 0
  /\ current_timestamp = 0
  /\ entries = << >> /\ num_entries = 0 /\ num_queries = 0
  /\ last_timestamp_of_conn = << >> /\ it = 1
  /\ lpc = "line"

-----------------------------------------------------------------------------
(* What the code reads from a line or from the lines of an entry.          *)

IsComment(k) == data[k].kind \in Comments

(* The first of some lines, or 0.                                          *)
FirstOf(ks) ==
  IF ks = {} THEN 0 ELSE CHOOSE k \in ks : \A j \in ks : k <= j

(* "Thread_id: " comes before "Id: ", wherever they are; the first one     *)
(* counts, whatever its number.                                            *)
parseThreadId(e) ==
  LET withId   == {k \in e.first .. e.last : data[k].id # Absent}
      threadId == FirstOf({k \in withId : data[k].kind = "meta"})
  IN  IF withId = {} THEN 0
      ELSE IF threadId # 0 THEN data[threadId].id ELSE data[FirstOf(withId)].id

parseQueryTime(from, to) ==
  LET k == FirstOf({j \in from .. to : data[j].kind = "meta" /\ data[j].val # Absent})
  IN  IF k = 0 THEN 0 ELSE data[k].val

(* The constructor: the time in the log is that of the query's end.        *)
QueryLogData(from, to, end_time) ==
  [first |-> from, last |-> to, start_time |-> end_time - parseQueryTime(from, to)]

(* The lines of the text to send: the metadata are left out up to the      *)
(* first line without #, and the SET timestamp if asked to.  A mutant: any *)
(* line with # is left out.                                                *)
getQueryNoComments(e, remove_timestamp) ==
  {k \in e.first .. e.last :
     ~IsComment(k) /\ ~(remove_timestamp /\ data[k].kind = "set")}

getQuery(e, remove_timestamp) ==
  {k \in e.first .. e.last :
     /\ \E j \in e.first .. k : ~IsComment(j)
     /\ ~(remove_timestamp /\ data[k].kind = "set")}

-----------------------------------------------------------------------------
(* The loop over the lines: each iteration starts with the line read       *)
(* ahead, or with the next one.                                            *)

line  == IF next_line # 0 THEN next_line ELSE pos
after == IF next_line # 0 THEN pos ELSE pos + 1

HasLine == lpc = "line" /\ line <= Len(data)

Consume == pos' = after /\ next_line' = 0

(* A line without # is skipped, be it a banner's or not.                   *)
SkipLine ==
  /\ HasLine
  /\ ~IsComment(line)
  /\ Consume
  /\ UNCHANGED <<options, first, num_sql_lines, current_timestamp, entries, counts,
                 sortVars, lpc>>

(* parse_time leaves the timestamp alone if it cannot parse the line.      *)
TimeLine ==
  /\ HasLine
  /\ data[line].kind = "time"
  /\ Consume
  /\ current_timestamp' = IF data[line].val # Absent THEN data[line].val
                                                     ELSE current_timestamp
  /\ UNCHANGED <<options, first, num_sql_lines, entries, counts,
                 sortVars, lpc>>

(* Any other metadata starts a block.                                      *)
StartBlock ==
  /\ HasLine
  /\ IsComment(line) /\ data[line].kind # "time"
  /\ Consume
  /\ first' = line
  /\ num_sql_lines' = 0
  /\ lpc' = "block"
  /\ UNCHANGED <<options, current_timestamp, entries, counts, sortVars>>

(* The block goes on until a line starts another one.                      *)
StopsBlock(k) == data[k].kind \in {"user", "time"}

BlockLine ==
  /\ lpc = "block"
  /\ pos <= Len(data) /\ ~StopsBlock(pos)
  /\ pos' = pos + 1
  /\ num_sql_lines' = IF IsComment(pos) THEN num_sql_lines ELSE num_sql_lines + 1
  /\ UNCHANGED <<options, next_line, first, current_timestamp, entries, counts,
                 sortVars, lpc>>

(* readline, after the last line of the block.  Mutants: it goes on past   *)
(* the end of the text; the line that ended the block is forgotten.        *)
ReadPastEnd ==
  /\ next_line' = IF pos <= Len(data) THEN pos ELSE 0
  /\ pos' = pos + 1

ReadAndForget ==
  /\ next_line' = 0
  /\ pos' = IF pos <= Len(data) THEN pos + 1 ELSE pos

ReadAhead ==
  /\ next_line' = IF pos <= Len(data) THEN pos ELSE 0
  /\ pos' = IF pos <= Len(data) THEN pos + 1 ELSE pos

(* Accurate mode needs to know the time of every query.                    *)
CheckTimestamp == g_accurate_mode' = (g_accurate_mode /\ current_timestamp # 0)

(* A block with a query in it becomes an entry.                            *)
EndBlock ==
  /\ lpc = "block"
  /\ pos <= Len(data) => StopsBlock(pos)
  /\ ReadAhead
  /\ num_entries' = num_entries + 1
  /\ IF num_sql_lines > 0
     THEN /\ CheckTimestamp
          /\ entries' = Append(entries, QueryLogData(first, pos - 1, current_timestamp))
          /\ num_queries' = num_queries + 1
     ELSE UNCHANGED <<g_accurate_mode, entries, num_queries>>
  /\ lpc' = "line"
  /\ UNCHANGED <<data, g_disable_sorting, first, num_sql_lines,
                 current_timestamp, sortVars>>

(* Are the entries sorted?  A mutant: not always in accurate mode.         *)
SortAsked == ~g_disable_sorting
MustSort  == ~g_disable_sorting \/ g_accurate_mode

EndOfData ==
  /\ lpc = "line"
  /\ line > Len(data)
  /\ lpc' = IF MustSort THEN "adjust" ELSE "done"
  /\ UNCHANGED <<options, readVars, entries, counts, sortVars>>

-----------------------------------------------------------------------------
(* What is remembered of a connection.  A mutant: the start time that its  *)
(* query had before it was adjusted.                                       *)
RememberUnadjusted(start_time, tp) == start_time
Remember(start_time, tp) == IF start_time < tp THEN tp ELSE start_time

(* The adjustment of the start times, one entry a step.  operator[] of the *)
(* map adds the epoch, 0, for a thread id it does not have.                *)
Adjust ==
  /\ lpc = "adjust"
  /\ it <= Len(entries)
  /\ LET e  == entries[it]
         id == parseThreadId(e)
         tp == IF id \in DOMAIN last_timestamp_of_conn
               THEN last_timestamp_of_conn[id] ELSE 0
     IN  /\ entries' = [entries EXCEPT ![it].start_time = IF @ < tp THEN tp ELSE @]
         /\ last_timestamp_of_conn' =
              [c \in DOMAIN last_timestamp_of_conn \cup {id} |->
                 IF c = id THEN Remember(e.start_time, tp) ELSE last_timestamp_of_conn[c]]
  /\ it' = it + 1
  /\ UNCHANGED <<options, readVars, counts, lpc>>

EndAdjust ==
  /\ lpc = "adjust"
  /\ it > Len(entries)
  /\ lpc' = "sort"
  /\ UNCHANGED <<options, readVars, entries, counts, sortVars>>

Less(a, b) == a.start_time < b.start_time  \* operator<

(* std::stable_sort with it: each entry is preceded by the smaller ones,   *)
(* and by the equal ones that preceded it.  A mutant: by those that        *)
(* followed it.                                                            *)
PrecedesUnstably(s, j, i) == Less(s[j], s[i]) \/ (j > i /\ ~Less(s[i], s[j]))
Precedes(s, j, i)         == Less(s[j], s[i]) \/ (j < i /\ ~Less(s[i], s[j]))

StableSort(s) ==
  LET before(i) == {j \in DOMAIN s : Precedes(s, j, i)}
  IN  [k \in DOMAIN s |-> s[CHOOSE i \in DOMAIN s : Cardinality(before(i)) = k - 1]]

Sort ==
  /\ lpc = "sort"
  /\ entries' = StableSort(entries)
  /\ lpc' = "done"
  /\ UNCHANGED <<options, readVars, counts, sortVars>>

-----------------------------------------------------------------------------
GetEntries ==
  \/ SkipLine \/ TimeLine \/ StartBlock \/ BlockLine \/ EndBlock \/ EndOfData
  \/ Adjust \/ EndAdjust \/ Sort

Done == lpc = "done" /\ UNCHANGED vars

Next == GetEntries \/ Done

Spec == Init /\ [][Next]_vars /\ WF_vars(GetEntries)

-----------------------------------------------------------------------------
(* Reference definitions: the blocks of a log, without reading it in order *)

(* No block is open at line k: since the last metadata there was a time    *)
(* line, and lines without # only after it.                                *)
NoneOpen(k) ==
  \A j \in 1 .. k - 1 :
    IsComment(j) /\ data[j].kind # "time" =>
      \E t \in j + 1 .. k - 1 : /\ data[t].kind = "time"
                                /\ \A m \in t + 1 .. k - 1 : ~IsComment(m)

(* Line k starts a block: it is a user's, or the first metadata since the  *)
(* last time line.                                                         *)
Starts(k) ==
  \/ data[k].kind = "user"
  \/ data[k].kind \in {"meta", "quit", "admin"} /\ NoneOpen(k)

(* It ends before the next line of a user or of a time.                    *)
BlockOf(k) ==
  {m \in k .. Len(data) : \A j \in k + 1 .. m : ~StopsBlock(j)}

TimeOf(k) ==
  LET ts == {t \in 1 .. k - 1 : data[t].kind = "time" /\ data[t].val # Absent}
  IN  IF ts = {} THEN 0 ELSE data[CHOOSE t \in ts : \A u \in ts : u <= t].val

Queries ==
  {k \in 1 .. Len(data) : Starts(k) /\ \E m \in BlockOf(k) : ~IsComment(m)}

(* Every block with a query becomes exactly one entry, of all the block's  *)
(* lines and no other, however lines are read ahead; adjusting and sorting *)
(* neither lose nor repeat one; and the counts that the run reports are    *)
(* those of the blocks.                                                    *)
EntriesExact ==
  lpc \notin {"line", "block"} =>
    /\ {<<entries[i].first, entries[i].last>> : i \in DOMAIN entries} =
         {<<k, k + Cardinality(BlockOf(k)) - 1>> : k \in Queries}
    /\ Len(entries) = Cardinality(Queries)
    /\ num_queries = Cardinality(Queries)
    /\ num_entries = Cardinality({k \in 1 .. Len(data) : Starts(k)})

(* The comment in getEntries: inside a connection the start time of each   *)
(* query is "the same as the previous one or later", and no later than     *)
(* that needs: it is the latest start of the connection so far (no earlier *)
(* than the epoch).                                                        *)
StartTimesAdjusted ==
  lpc \in {"sort", "done"} /\ MustSort =>
    \A i \in DOMAIN entries :
      LET e == entries[i]
          upTo == {k \in Queries : /\ k <= e.first
                                   /\ \E d \in DOMAIN entries :
                                        /\ entries[d].first = k
                                        /\ parseThreadId(entries[d]) = parseThreadId(e)}
          starts == {TimeOf(k) - parseQueryTime(k, k + Cardinality(BlockOf(k)) - 1) :
                       k \in upTo} \cup {0}
      IN  e.start_time \in starts /\ \A t \in starts : t <= e.start_time

(* The queries of a connection are handed to the dispatcher in the order   *)
(* of the log, although all the queries are sorted by start time.          *)
ConnectionOrderKept ==
  lpc = "done" =>
    \A i, j \in DOMAIN entries :
      i < j /\ parseThreadId(entries[i]) = parseThreadId(entries[j]) =>
        entries[i].first < entries[j].first

(* --query-log-disable-sorting keeps "the order they appear in the log",   *)
(* and is "ignored in accurate mode which always does the sorting": unless *)
(* accurate mode has disabled itself, a query's time being unknown, in     *)
(* which case the order of the log is kept after all.  If it has not, the  *)
(* time of every query is known.                                           *)
SortedAsAsked ==
  lpc = "done" =>
    /\ \A i, j \in DOMAIN entries : i < j =>
         IF g_disable_sorting /\ ~g_accurate_mode
         THEN entries[i].first < entries[j].first
         ELSE entries[i].start_time <= entries[j].start_time
    /\ g_accurate_mode => \A i \in DOMAIN entries : TimeOf(entries[i].first) # 0

(* The metadata that start block k: its lines before the first without #.  *)
Leading(k) == {m \in BlockOf(k) : \A j \in k .. m : IsComment(j)}

(* Each line of the log is sent once if it is a line of a query, whatever  *)
(* it is and whatever lies around it, and otherwise not at all: that is if *)
(* it is in the block of one, and none of the metadata that start the      *)
(* block.  The comment in getQuery: "we ignore the metadata but also make  *)
(* sure that we don't remove '# administrator command' strings", that is   *)
(* those that follow a line without #.  A SET timestamp is sent only if    *)
(* that is asked for.                                                      *)
LinesSentOnce ==
  lpc = "done" =>
    \A k \in DOMAIN data, remove \in BOOLEAN :
      LET senders == {i \in DOMAIN entries : k \in getQuery(entries[i], remove)}
          ofQuery == \E b \in Queries : k \in BlockOf(b) \ Leading(b)
          leftOut == remove /\ data[k].kind = "set"
      IN  Cardinality(senders) = IF ofQuery /\ ~leftOut THEN 1 ELSE 0
=============================================================================
