----------------------------- MODULE QueryEntry -----------------------------
(***************************************************************************)
(* The log being played back, and the QueryEntry objects that travel from  *)
(* the input plugin through a dispatcher to the database threads           *)
(* (percona_playback/query_entry.h, query_log/query_log.h).                *)
(*                                                                         *)
(* An entry is named by its position in the log: the deque of an input     *)
(* plugin's QueryEntries object, after parsing and sorting.  What a query  *)
(* says is irrelevant here; an entry is the connection it was recorded on  *)
(* and whether it is the "administrator command: Quit" of that connection. *)
(***************************************************************************)
EXTENDS Integers, Sequences, FiniteSets

CONSTANTS
  ThreadIds,  (* the server thread ids (connections) that occur in the log *)
  Logs        (* the logs that an input plugin may hand to the dispatcher  *)

ASSUME LogsAssumption ==
  Logs \subseteq Seq([thread_id : ThreadIds, quit : BOOLEAN])

VARIABLE log  (* the log of this playback; chosen initially, never changed *)

Positions == 1 .. Len(log)

getThreadId(e) == log[e].thread_id

(* Mutants: the walk goes forwards, or marks nothing.                      *)
FirstQueries ==
  {e \in Positions : \A d \in 1 .. e - 1 : getThreadId(d) # getThreadId(e)}

NoQueries == {}

(***************************************************************************)
(* setShutdownOnLastQueryOfConn: walking the entries backwards, the first  *)
(* one met of each thread id is that connection's last one.                *)
(***************************************************************************)
LastQueries ==
  {e \in Positions :
     \A later \in Positions : later > e => getThreadId(later) # getThreadId(e)}

(***************************************************************************)
(* A QueryEntry object: its position in the log and its shutdown flag.     *)
(* Position 0 belongs to no log; the FinishEntry of the thread pool is an  *)
(* entry outside the log that shuts its thread down and executes nothing.  *)
(***************************************************************************)
Entries     == [pos : Nat, shutdown : BOOLEAN]
FinishEntry == [pos |-> 0, shutdown |-> TRUE]
NoEntry     == [pos |-> 0, shutdown |-> FALSE]  \* the null pointer

is_quit(entry) == entry.pos # 0 /\ log[entry.pos].quit
=============================================================================
