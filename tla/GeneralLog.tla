----------------------------- MODULE GeneralLog -----------------------------
(***************************************************************************)
(* The general-log input plugin (percona_playback/general_log/             *)
(* general_log.cc, parse_general_log.cc, general_log_entry.cc): its reader *)
(* thread, which makes an entry of every line of a query, and hands the    *)
(* entries to the dispatcher.                                              *)
(*                                                                         *)
(* A line is what the parser sees of it: whether it is ignored (a comment, *)
(* or a line that the server writes when it opens the log), whether it has *)
(* the form "<thread id> Query <text>", with which id, and whether it ends *)
(* with a newline, which only the last one may lack.  A query of several   *)
(* lines has that form in the first one only; Connect, Quit and the like   *)
(* do not have it.                                                         *)
(***************************************************************************)
EXTENDS Integers, Sequences, FiniteSets

CONSTANT Texts  \* the logs that may be read

Line == [ignored : BOOLEAN, query : BOOLEAN, id : Nat, newline : BOOLEAN]

ASSUME TextsAssumption ==
  /\ Texts \subseteq Seq(Line)
  /\ \A text \in Texts : \A n \in 1 .. Len(text) - 1 : text[n].newline

VARIABLES
  data,         (* the text                                                *)
  marks,        (* is it a dispatcher that marks the last queries, as      *)
                (* thread-per-connection does and thread-pool does not?    *)
  next,         (* the line that getline returns next                      *)
  tmp_entry,    (* the entry that is added to                              *)
  entries,
  num_entries,  (* and num_queries, which is the same                      *)
  it,           (* the reverse iterator of the walk that marks             *)
  thread_ids,   (* those it has met                                        *)
  pos,          (* how many entries have been popped                       *)
  popped,       (* these entries                                           *)
  lpc           (* where the reader thread is                              *)

readVars == <<next, tmp_entry>>
markVars == <<it, thread_ids>>
popVars  == <<pos, popped>>
vars == <<data, marks, readVars, entries, num_entries, markVars, popVars, lpc>>

(* The text of a query is what has been appended to it: the text of a line *)
(* after "Query", whole or without its last character.                     *)
Entry == [thread_id : Nat, query : {<<p>> : p \in [line : DOMAIN data, cut : BOOLEAN]},
          shutdown : BOOLEAN]

NewEntry == [thread_id |-> 0, query |-> << >>, shutdown |-> FALSE]

TypeOK ==
  /\ data \in Texts /\ marks \in BOOLEAN
  /\ next \in 1 .. Len(data) + 1
  /\ tmp_entry = NewEntry
  /\ entries \in Seq(Entry) /\ popped \in Seq(Entry)
  /\ num_entries \in Nat
  /\ it \in 1 .. Len(entries) + 1
  /\ thread_ids \subseteq Nat
  /\ pos \in 0 .. Len(entries)
  /\ lpc \in {"read", "mark", "pop", "done"}

Init ==
  /\ data \in Texts /\ marks \in BOOLEAN
  /\ next = 1 /\ tmp_entry = NewEntry
  /\ entries = << >> /\ num_entries = 0
  /\ it = 1 /\ thread_ids = {}
  /\ pos = 0 /\ popped = << >>
  /\ lpc = "read"

-----------------------------------------------------------------------------
(* ParseGeneralLog::getEntries: one iteration of the loop for each line.   *)

HasLine == lpc = "read" /\ next <= Len(data)

Matches(n) == ~data[n].ignored /\ data[n].query

SkipLine ==
  /\ HasLine /\ ~Matches(next)
  /\ next' = next + 1
  /\ UNCHANGED <<data, marks, tmp_entry, entries, num_entries, markVars, popVars, lpc>>

(* The last character, the newline if there is one, and a carriage return  *)
(* before it are dropped.                                                  *)
add_query_line(entry, n) ==
  [entry EXCEPT !.thread_id = data[n].id,
                !.query = Append(@, [line |-> n, cut |-> ~data[n].newline])]

(* tmp_entry.reset.  A mutant: the same object is used again.              *)
KeepEntry(entry)  == tmp_entry' = entry
ResetEntry(entry) == tmp_entry' = NewEntry

QueryLine ==
  /\ HasLine /\ Matches(next)
  /\ entries' = Append(entries, add_query_line(tmp_entry, next))
  /\ ResetEntry(add_query_line(tmp_entry, next))
  /\ next' = next + 1
  /\ UNCHANGED <<data, marks, num_entries, markVars, popVars, lpc>>

EndOfLog ==
  /\ lpc = "read" /\ next > Len(data)
  /\ num_entries' = Len(entries)
  /\ lpc' = IF marks THEN "mark" ELSE "pop"
  /\ UNCHANGED <<data, marks, readVars, entries, markVars, popVars>>

-----------------------------------------------------------------------------
(* The dispatcher, as far as the entries see it.                           *)

(* The entry that the walk is at.  A mutant: it goes forwards.             *)
Forward(n)  == n
Backward(n) == Len(entries) + 1 - n

(* setShutdownOnLastQueryOfConn                                            *)
Mark ==
  /\ lpc = "mark" /\ it <= Len(entries)
  /\ LET id == entries[Backward(it)].thread_id
     IN  /\ entries' = IF id \in thread_ids THEN entries
                       ELSE [entries EXCEPT ![Backward(it)].shutdown = TRUE]
         /\ thread_ids' = thread_ids \cup {id}
  /\ it' = it + 1
  /\ UNCHANGED <<data, marks, readVars, num_entries, popVars, lpc>>

EndMark ==
  /\ lpc = "mark" /\ it > Len(entries)
  /\ lpc' = "pop"
  /\ UNCHANGED <<data, marks, readVars, entries, num_entries, markVars, popVars>>

popEntry ==
  /\ lpc = "pop" /\ pos < Len(entries)
  /\ pos' = pos + 1
  /\ popped' = Append(popped, entries[pos'])
  /\ UNCHANGED <<data, marks, readVars, entries, num_entries, markVars, lpc>>

(* popEntry returns a null pointer, and the dispatcher finishes.           *)
Finish ==
  /\ lpc = "pop" /\ pos = Len(entries)
  /\ lpc' = "done"
  /\ UNCHANGED <<data, marks, readVars, entries, num_entries, markVars, popVars>>

-----------------------------------------------------------------------------
GeneralLogReaderThread ==
  SkipLine \/ QueryLine \/ EndOfLog \/ Mark \/ EndMark \/ popEntry \/ Finish

Done == lpc = "done" /\ UNCHANGED vars

Next == GeneralLogReaderThread \/ Done

Spec == Init /\ [][Next]_vars /\ WF_vars(GeneralLogReaderThread)

-----------------------------------------------------------------------------
(* The log as the dispatchers have it.  It has no quits: the line of one   *)
(* is none of a query.                                                     *)
Lines == {n \in DOMAIN data : Matches(n)}
Nth(k) == CHOOSE n \in Lines : Cardinality({m \in Lines : m <= n}) = k

Q == INSTANCE QueryEntry WITH
  ThreadIds <- Nat,
  Logs      <- {},
  log       <- [k \in 1 .. Cardinality(Lines) |->
                  [thread_id |-> data[Nth(k)].id, quit |-> FALSE]]

(* What the dispatcher pops are the lines of queries, each as an entry of  *)
(* its own, in their order and with the thread id of the line, whole but   *)
(* for a last line without a newline, and marked exactly if they are the   *)
(* last ones of their connections, if the dispatcher has them marked; in   *)
(* the end it has popped them all and the count is theirs.                 *)
HandsOverQueries ==
  /\ \A k \in DOMAIN popped :
       popped[k] = [thread_id |-> Q!getThreadId(k),
                    query |-> <<[line |-> Nth(k), cut |-> ~data[Nth(k)].newline]>>,
                    shutdown |-> marks /\ k \in Q!LastQueries]
  /\ lpc = "done" => Len(popped) = Cardinality(Lines) /\ num_entries = Cardinality(Lines)
=============================================================================
