----------------------------- MODULE MCPlayback -----------------------------
(***************************************************************************)
(* Playback with every library in the build, or some of them left out of   *)
(* it, on command lines with at most MaxGiven plugin options.              *)
(***************************************************************************)
EXTENDS PlaybackProofs

CONSTANTS c1, c2, MaxGiven

E(c) == [thread_id |-> c, quit |-> FALSE]

MCLogs == {<< >>, <<E(c1), E(c1), E(c2)>>}

AllLibraries ==
  <<"error_report", "full_report", "general_log", "mysql_client", "null_dbclient",
    "query_log", "simple_report", "thread_per_connection", "thread_pool">>

Without(left_out) ==
  LET In(library) == library \notin left_out IN SelectSeq(AllLibraries, In)

MCBuilds ==
  {AllLibraries, Without({"mysql_client"}), Without({"mysql_client", "null_dbclient"}),
   Without({"query_log", "thread_pool"})}

Given == {o \in SUBSET PluginOptions : Cardinality(o) <= MaxGiven}

Called(db, input, dispatcher, disabled, given, general) ==
  [dbclient |-> db, input |-> input, dispatcher |-> dispatcher, disabled |-> disabled,
   given |-> given, general |-> general]

(* Every selection, with names that are unknown, misspelt, or of another   *)
(* kind; reports disabled; and nothing to play back.                       *)
MCCommandLines ==
  {Called(db, input, dispatcher, << >>, given, {}) :
     db \in {"", "null", "mysql"}, input \in {"", "general-log", "query_log"},
     dispatcher \in {"", "thread-pool", "null"}, given \in Given}
  \cup
  {Called("null", "", "", disabled, given, {}) :
     disabled \in {<<"full_report">>, <<"simple_report">>, <<"error_report", "report">>},
     given \in Given}
  \cup
  {Called(db, "", "thread-pool", << >>, {}, general) :
     db \in {"", "mysql"}, general \in {{"help"}, {"version"}, {"help", "version"}}}
=============================================================================
