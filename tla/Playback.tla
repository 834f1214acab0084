------------------------------ MODULE Playback ------------------------------
(***************************************************************************)
(* The program from its start to its exit                                  *)
(* (percona_playback/percona_playback.cc, plugin.cc, plugin.h,             *)
(* bin/percona_playback.cc): percona_playback_argv loads the plugins,      *)
(* parses the command line, selects one plugin of each kind and lets every *)
(* loaded plugin process the options; percona_playback_run starts the      *)
(* dispatcher, lets the input plugin replay its log and prints the         *)
(* reports.                                                                *)
(*                                                                         *)
(* The input plugin reads the log in a thread that calls dispatch and      *)
(* finish_all_and_wait, and joins it.  What the dispatcher and its threads *)
(* do meanwhile is Replay, which ThreadPerConnection and ThreadPool        *)
(* implement.                                                              *)
(***************************************************************************)
EXTENDS QueryEntry

(* The plugins of each kind: the registry has a map for each.              *)
Plugins ==
  [dbclient   |-> {"libmysqlclient", "null"},
   input      |-> {"query-log", "general-log"},
   dispatcher |-> {"thread-per-connection", "thread-pool"},
   report     |-> {"simple_report", "full_report", "error_report", "query-log-report"}]

Kinds == {"dbclient", "input", "dispatcher"}  \* of which one is selected

(* All plugins in the order of their names, that of the registry's map.    *)
AllPlugins ==
  <<"error_report", "full_report", "general-log", "libmysqlclient", "null",
    "query-log", "query-log-report", "simple_report", "thread-per-connection",
    "thread-pool">>

(* What the init function of each library adds to the registry.            *)
Provides ==
  [error_report |-> {"error_report"}, full_report |-> {"full_report"},
   general_log |-> {"general-log"}, mysql_client |-> {"libmysqlclient"},
   null_dbclient |-> {"null"}, query_log |-> {"query-log", "query-log-report"},
   simple_report |-> {"simple_report"},
   thread_per_connection |-> {"thread-per-connection"}, thread_pool |-> {"thread-pool"}]

(* The options of each plugin; mysql-host stands for the six options that  *)
(* the client refuses when it is not selected, mysql-max-retries for the   *)
(* three that it does not, and so do query-log-preserve-query-time and     *)
(* query-log-accurate-mode for two each.                                   *)
getProgramOptions(plugin) ==
  CASE plugin = "libmysqlclient" -> {"mysql-host", "mysql-max-retries"}
    [] plugin = "query-log" ->
         {"query-log-file", "query-log-stdin", "query-log-preserve-query-time",
          "query-log-accurate-mode"}
    [] plugin = "general-log" -> {"general-log-file", "general-log-stdin"}
    [] plugin = "thread-pool" -> {"thread-pool-threads-count"}
    [] plugin = "simple_report" -> {"show-per-connection-query-count"}
    [] OTHER -> {}

PluginOptions == UNION {getProgramOptions(AllPlugins[n]) : n \in DOMAIN AllPlugins}

(* vm.count is 1 for an option that is given, and for one with a default.  *)
WithDefault ==
  {"query-log-stdin", "query-log-preserve-query-time", "query-log-accurate-mode",
   "general-log-stdin", "thread-pool-threads-count", "show-per-connection-query-count"}

(* A command line: the name selected of each kind, "" where the option is  *)
(* not given; the reports to disable; the options of plugins.              *)
CommandLine ==
  [dbclient : STRING, input : STRING, dispatcher : STRING, disabled : Seq(STRING),
   given : SUBSET PluginOptions, general : SUBSET {"help", "version"}]

CONSTANTS
  CommandLines,  (* the command lines                                      *)
  Builds         (* the lists of libraries that may have been configured   *)

ASSUME PlaybackAssumption ==
  /\ CommandLines \subseteq CommandLine
  /\ Builds \subseteq Seq(DOMAIN Provides)

VARIABLES
  performed, returned,  (* of Replay                                       *)
  vm,                   (* the command line                                *)
  libraries,            (* those still to be loaded                        *)
  loaded,               (* the plugins in the registry                     *)
  active,               (* those with their flag set                       *)
  selected,             (* g_dbclient_plugin, g_input_plugin and           *)
                        (* g_dispatcher_plugin; "": null                   *)
  processed,            (* how many of AllPlugins have processed options   *)
  workers,              (* has the dispatcher's run started threads that   *)
                        (* have not been joined?                           *)
  text,                 (* the log: not there, "held", "released"          *)
  n_queries,            (* of the run's result                             *)
  pc,
  exit_code

replayVars == <<log, performed, returned>>
runVars    == <<replayVars, workers, text, n_queries>>
argvVars   == <<vm, libraries, loaded, active, selected, processed>>
vars       == <<runVars, argvVars, pc, exit_code>>

R == INSTANCE Replay

Aborted == 134  \* the status of a process that has called abort

TypeOK ==
  /\ log \in Logs
  /\ vm \in CommandLine
  /\ libraries \in Seq(DOMAIN Provides)
  /\ loaded \subseteq UNION {Plugins[kind] : kind \in DOMAIN Plugins}
  /\ active \subseteq loaded
  /\ DOMAIN selected = Kinds
  /\ \A kind \in Kinds : selected[kind] \in (loaded \cap Plugins[kind]) \cup {""}
  /\ processed \in 0 .. Len(AllPlugins)
  /\ workers \in BOOLEAN
  /\ text \in {"none", "held", "released"}
  /\ n_queries \in Nat
  /\ pc \in Kinds \cup {"load", "parse", "report", "help", "process", "run", "open",
                       "replay", "print", "exit"}
  /\ exit_code \in {0, -1, Aborted}

Init ==
  /\ R!Init
  /\ vm \in CommandLines
  /\ libraries \in Builds
  /\ loaded = {} /\ active = {}
  /\ selected = [kind \in Kinds |-> ""]
  /\ processed = 0
  /\ workers = FALSE /\ text = "none" /\ n_queries = 0
  /\ pc = "load"
  /\ exit_code = 0

-----------------------------------------------------------------------------
(* percona_playback_argv                                                   *)

GoTo(next_pc)  == pc' = next_pc /\ UNCHANGED exit_code
ExitWith(code) == pc' = "exit" /\ exit_code' = code

(* load_plugin: the library is there, and its init function adds its       *)
(* plugins to the registry, the reports as active ones.                    *)
LoadPlugin ==
  /\ pc = "load" /\ libraries # << >>
  /\ libraries' = Tail(libraries)
  /\ loaded' = loaded \cup Provides[Head(libraries)]
  /\ active' = active \cup (Provides[Head(libraries)] \cap Plugins.report)
  /\ UNCHANGED <<runVars, vm, selected, processed, pc, exit_code>>

(* dlopen or dlsym fails.                                                  *)
LoadFails ==
  /\ pc = "load" /\ libraries # << >>
  /\ ExitWith(Aborted)
  /\ UNCHANGED <<runVars, argvVars>>

EndLoad ==
  /\ pc = "load" /\ libraries = << >>
  /\ GoTo("parse")
  /\ UNCHANGED <<runVars, argvVars>>

(* The options known are those of the plugins loaded; parse_command_line   *)
(* throws an exception at any other, which nobody catches.                 *)
Parse ==
  /\ pc = "parse"
  /\ IF vm.given \subseteq UNION {getProgramOptions(plugin) : plugin \in loaded}
     THEN GoTo("dbclient") ELSE ExitWith(Aborted)
  /\ UNCHANGED <<runVars, argvVars>>

(* The plugin that is looked for in the map of its kind.                   *)
Wanted(kind) ==
  IF vm[kind] # "" THEN vm[kind]
  ELSE CASE kind = "dbclient" ->
              IF "libmysqlclient" \in loaded THEN "libmysqlclient" ELSE "null"
         [] kind = "input"      -> "query-log"
         [] kind = "dispatcher" -> "thread-per-connection"

(* Is it there?  A mutant: what the lookup finds is not looked at.         *)
Unchecked(kind) == TRUE
Found(kind)     == Wanted(kind) \in loaded \cap Plugins[kind]

(* Its flag is set.  A mutant: it is not.                                  *)
LeaveInactive(kind) == UNCHANGED active
Activate(kind)      == active' = active \cup {Wanted(kind)}

Select(kind, next_pc) ==
  /\ pc = kind
  /\ IF Found(kind)
     THEN /\ selected' = [selected EXCEPT ![kind] = Wanted(kind)]
          /\ Activate(kind)
          /\ GoTo(next_pc)
     ELSE ExitWith(-1) /\ UNCHANGED <<selected, active>>
  /\ UNCHANGED <<runVars, vm, libraries, loaded, processed>>

SelectPlugins ==
  Select("dbclient", "input") \/ Select("input", "dispatcher") \/ Select("dispatcher", "report")

(* The reports to disable, up to the first that is not there.              *)
DisableReports ==
  /\ pc = "report"
  /\ LET unknown == {n \in DOMAIN vm.disabled : vm.disabled[n] \notin loaded \cap Plugins.report}
         found   == {n \in DOMAIN vm.disabled : \A m \in unknown : n < m}
     IN  /\ active' = active \ {vm.disabled[n] : n \in found}
         /\ IF unknown = {} THEN GoTo("help") ELSE ExitWith(-1)
  /\ UNCHANGED <<runVars, vm, libraries, loaded, selected, processed>>

(* help, which is also the answer to no options at all, and version:       *)
(* nothing is played back, and that is no failure.                         *)
NoOptions ==
  /\ \A kind \in Kinds : vm[kind] = ""
  /\ vm.disabled = << >> /\ vm.given = {}

Help ==
  /\ pc = "help"
  /\ IF vm.general # {} \/ NoOptions THEN ExitWith(0) ELSE GoTo("process")
  /\ UNCHANGED <<runVars, argvVars>>

count(option)     == option \in vm.given \/ option \in WithDefault
defaulted(option) == option \notin vm.given

(* A mutant: the options of a plugin that is not selected are not refused. *)
InputOptionsIgnored(plugin, file, stdin, refused) ==
  plugin \in active => count(file) # ~defaulted(stdin)

(* The processOptions of an input plugin: a plugin that is not selected    *)
(* refuses its options; the one that is wants a file or the standard input *)
InputOptionsOK(plugin, file, stdin, refused) ==
  IF plugin \in active THEN count(file) # ~defaulted(stdin)
  ELSE ~count(file) /\ \A option \in refused : defaulted(option)

(* test_connect succeeds: its thread is given nothing to send, and does    *)
(* not connect (see MySQLClient).                                          *)
processOptions(plugin) ==
  CASE plugin = "general-log" ->
         InputOptionsOK(plugin, "general-log-file", "general-log-stdin", {"general-log-stdin"})
    [] plugin = "query-log" ->
         InputOptionsOK(plugin, "query-log-file", "query-log-stdin",
                        {"query-log-stdin", "query-log-preserve-query-time"})
    [] plugin = "libmysqlclient" -> plugin \in active \/ ~count("mysql-host")
    [] plugin = "simple_report" ->
         plugin \in active \/ ~count("show-per-connection-query-count")
    [] plugin = "thread-pool" ->
         plugin \in active \/ defaulted("thread-pool-threads-count")
    [] OTHER -> TRUE

ProcessOptions ==
  /\ pc = "process" /\ processed < Len(AllPlugins)
  /\ processed' = processed + 1
  /\ IF AllPlugins[processed'] \in loaded => processOptions(AllPlugins[processed'])
     THEN UNCHANGED <<pc, exit_code>>
     ELSE ExitWith(-1)
  /\ UNCHANGED <<runVars, vm, libraries, loaded, active, selected>>

(* The client library is not thread safe, or cannot be initialised.        *)
MySQLUnusable ==
  /\ pc = "process" /\ processed < Len(AllPlugins)
  /\ AllPlugins[processed + 1] = "libmysqlclient" /\ "libmysqlclient" \in active
  /\ processed' = processed + 1
  /\ ExitWith(-1)
  /\ UNCHANGED <<runVars, vm, libraries, loaded, active, selected>>

EndOptions ==
  /\ pc = "process" /\ processed = Len(AllPlugins)
  /\ GoTo("run")
  /\ UNCHANGED <<runVars, argvVars>>

-----------------------------------------------------------------------------
(* percona_playback_run, the input plugin's run in it                      *)

(* g_dispatcher_plugin->run()                                              *)
RunDispatcher ==
  /\ pc = "run"
  /\ workers' = (selected.dispatcher = "thread-pool")
  /\ GoTo("open")
  /\ UNCHANGED <<replayVars, argvVars, text, n_queries>>

(* The log is there, mapped or read or open, and the reader thread starts. *)
Open ==
  /\ pc = "open"
  /\ text' = "held"
  /\ GoTo("replay")
  /\ UNCHANGED <<replayVars, argvVars, workers, n_queries>>

(* It cannot be opened: run returns, and nothing tells its caller.         *)
OpenFails ==
  /\ pc = "open"
  /\ GoTo("print")
  /\ UNCHANGED <<runVars, argvVars>>

(* dispatch and finish_all_and_wait, in the reader's thread                *)
Replaying ==
  /\ text # "none" /\ ~returned /\ pc # "exit"
  /\ R!Next
  /\ workers' = (workers /\ ~returned')
  /\ UNCHANGED <<argvVars, text, n_queries, pc, exit_code>>

(* log_reader_thread.join().  A mutant: it is not joined.                  *)
NotJoined    == TRUE
ReaderJoined == returned

(* The thread is joined, then the log is unmapped, or closed.              *)
Close ==
  /\ pc = "replay" /\ ReaderJoined
  /\ n_queries' = Len(log)
  /\ text' = "released"
  /\ GoTo("print")
  /\ UNCHANGED <<replayVars, argvVars, workers>>

(* The reports that are active are printed; run_all finds r->err to be 0.  *)
PrintReports ==
  /\ pc = "print"
  /\ ExitWith(0)
  /\ UNCHANGED <<runVars, argvVars>>

-----------------------------------------------------------------------------
Argv ==
  \/ LoadPlugin \/ LoadFails \/ EndLoad \/ Parse \/ SelectPlugins \/ DisableReports \/ Help
  \/ ProcessOptions \/ MySQLUnusable \/ EndOptions

Run == RunDispatcher \/ Open \/ OpenFails \/ Replaying \/ Close \/ PrintReports

Exited == pc = "exit" /\ UNCHANGED vars

Next == Argv \/ Run \/ Exited

Spec == Init /\ [][Next]_vars /\ WF_vars(Argv \/ Run)

-----------------------------------------------------------------------------
AtRun == pc \in {"run", "open", "replay", "print"}

(* When help is printed, which asserts it, and when the run starts there   *)
(* is one plugin of each kind, of that kind and loaded, and of these kinds *)
(* only it is active; whatever was given, left out, not built or misspelt. *)
OneOfEach ==
  pc \in {"help", "process"} \/ AtRun =>
    \A kind \in Kinds : active \cap Plugins[kind] = {selected[kind]}

(* "plugin is not selected, you shouldn't use this plugin-related command  *)
(* line options": the run does not start with an option that only a plugin *)
(* that is not selected, or not even loaded, would have used (but for      *)
(* those that no plugin refuses), nor without a log or with two.           *)
OptionsUsed ==
  AtRun =>
    /\ "mysql-host" \in vm.given => selected.dbclient = "libmysqlclient"
    /\ "thread-pool-threads-count" \in vm.given => selected.dispatcher = "thread-pool"
    /\ "query-log-preserve-query-time" \in vm.given => selected.input = "query-log"
    /\ "show-per-connection-query-count" \in vm.given => "simple_report" \in active
    /\ vm.given \cap {"query-log-file", "query-log-stdin", "general-log-file",
                      "general-log-stdin"}
         \in {{o} : o \in getProgramOptions(selected.input)}

(* The log is released, and the reports are printed, only when the log has *)
(* been replayed completely and no thread is left, whose entries refer to  *)
(* its text, if it could be opened at all; and a program that exits with   *)
(* an error has replayed nothing and left no thread.                       *)
ReportsComplete ==
  /\ text = "released" \/ (AtRun /\ returned /\ pc # "replay") =>
       /\ n_queries = Len(log)
       /\ \A e \in Positions : performed[e] = 1
       /\ ~workers
  /\ pc = "exit" /\ exit_code # 0 => (\A e \in Positions : performed[e] = 0) /\ ~workers

(* --disable-reporting-plugin, "Disable reporting plugin": a command line  *)
(* that plays back still does when it disables a report that is loaded.    *)
CanBeDisabled ==
  pc = "exit" /\ exit_code = -1 /\ processed > 0 =>
    AllPlugins[processed] \notin {vm.disabled[n] : n \in DOMAIN vm.disabled}
      \/ "show-per-connection-query-count" \in vm.given
=============================================================================
