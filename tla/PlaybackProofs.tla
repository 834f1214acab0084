--------------------------- MODULE PlaybackProofs ---------------------------
(***************************************************************************)
(* Theorems about Playback, for every command line, every build and every  *)
(* log.                                                                    *)
(***************************************************************************)
EXTENDS Playback, TLAPS

-----------------------------------------------------------------------------
(* The inductive invariant: how far the selection of the plugins, the      *)
(* options and the replay of the log are at each point of the program.     *)

(* What is loaded knows each option that was given, once they are parsed;  *)
(* and until then nothing is selected.                                     *)
OptionsOf(plugins) == UNION {getProgramOptions(plugin) : plugin \in plugins}

ParseInv == pc \notin {"load", "parse", "exit"} => vm.given \subseteq OptionsOf(loaded)

(* The kinds of which a plugin has been selected, and is the active one.   *)
Chosen ==
  IF pc \in {"load", "parse", "dbclient"} THEN {}
  ELSE IF pc = "input" THEN {"dbclient"}
  ELSE IF pc = "dispatcher" THEN {"dbclient", "input"}
  ELSE Kinds

SelectInv ==
  pc # "exit" =>
    \A kind \in Kinds :
      active \cap Plugins[kind] = IF kind \in Chosen THEN {selected[kind]} ELSE {}

(* Those that have processed the options have found nothing wrong.         *)
ProcessInv ==
  /\ pc \notin {"process", "exit"} /\ ~AtRun => processed = 0
  /\ pc = "process" \/ AtRun =>
       \A n \in 1 .. processed : AllPlugins[n] \in loaded => processOptions(AllPlugins[n])
  /\ AtRun => processed = Len(AllPlugins)

(* Nothing is replayed before there is a log, or without one; it is        *)
(* released when the dispatcher has returned, with no thread left.         *)
ReplayInv ==
  /\ performed \in [Positions -> {0, 1}]
  /\ text = "none" => ~returned /\ \A e \in Positions : performed[e] = 0
  /\ returned => ~workers /\ \A e \in Positions : performed[e] = 1
  /\ text = "released" => returned /\ n_queries = Len(log)
  /\ pc \in {"run", "open"} => text = "none"
  /\ pc = "replay" => text = "held"
  /\ pc = "print" => text # "held"
  /\ ~AtRun /\ (pc = "exit" => exit_code # 0) => text = "none" /\ ~workers
  /\ pc = "run" => ~workers

IInv == TypeOK /\ ParseInv /\ SelectInv /\ ProcessInv /\ ReplayInv

-----------------------------------------------------------------------------
(* The kinds of plugins of which one is selected have no plugin in common, *)
(* nor any with the reports.                                               *)
LEMMA KindsDisjoint ==
  /\ Plugins["dbclient"] = {"libmysqlclient", "null"}
  /\ Plugins["input"] = {"query-log", "general-log"}
  /\ Plugins["dispatcher"] = {"thread-per-connection", "thread-pool"}
  /\ \A kind \in Kinds : Plugins[kind] \cap Plugins.report = {}
  /\ \A j, k \in Kinds : j # k => Plugins[j] \cap Plugins[k] = {}
BY DEF Plugins, Kinds

(* All plugins of all kinds.                                               *)
AnyPlugin == UNION {Plugins[kind] : kind \in DOMAIN Plugins}

LEMMA AnyPluginIs ==
  /\ AnyPlugin = Plugins.dbclient \cup Plugins.input \cup Plugins.dispatcher \cup Plugins.report
  /\ \A kind \in Kinds : Plugins[kind] \subseteq AnyPlugin
BY DEF AnyPlugin, Plugins, Kinds

(* There are ten plugins.                                                  *)
LEMMA AllPluginsLength ==
  Len(AllPlugins) = 10
BY DEF AllPlugins

(* A sequence that is not empty has a head and a tail.                     *)
LEMMA HeadTail ==
  ASSUME NEW S, NEW s \in Seq(S), s # << >>
  PROVE  Head(s) \in S /\ Tail(s) \in Seq(S)
OBVIOUS

(* What a library provides are plugins.                                    *)
LEMMA ProvidesPlugins ==
  ASSUME NEW library \in DOMAIN Provides
  PROVE  Provides[library] \subseteq AnyPlugin
BY AnyPluginIs DEF Provides, Plugins

(* The verdict on the options of a plugin depends only on what was given   *)
(* and on which plugins are active.                                        *)
LEMMA OptionsFixed ==
  ASSUME active' = active, vm' = vm, NEW plugin
  PROVE  processOptions(plugin)' <=> processOptions(plugin)
BY DEF processOptions, InputOptionsOK, count, defaulted

-----------------------------------------------------------------------------
(* What a step does not touch.                                             *)

(* Nothing is replayed in percona_playback_argv.                           *)
LEMMA ArgvReplay ==
  ASSUME ReplayInv, UNCHANGED runVars, pc # "exit", ~AtRun,
         pc' \notin {"open", "replay", "print"}
  PROVE  ReplayInv'
BY DEF ReplayInv, AtRun, runVars, replayVars, Positions

(* Nothing is selected in percona_playback_run.                            *)
LEMMA RunArgv ==
  ASSUME IInv, AtRun, UNCHANGED argvVars, AtRun' \/ pc' = "exit"
  PROVE  ParseInv' /\ SelectInv' /\ ProcessInv'
<1> USE DEF IInv, argvVars
<1>1. ParseInv'
  BY DEF ParseInv, AtRun, OptionsOf
<1>2. SelectInv'
  BY DEF SelectInv, AtRun, Chosen
<1>3. ProcessInv'
  BY OptionsFixed DEF ProcessInv, AtRun
<1> QED
  BY <1>1, <1>2, <1>3

(* An error ends the program before anything has been replayed.            *)
LEMMA ArgvExits ==
  ASSUME IInv, UNCHANGED runVars, pc # "exit", ~AtRun, TypeOK', pc' = "exit"
  PROVE  IInv'
<1>1. ReplayInv'
  BY ArgvReplay DEF IInv
<1>2. ParseInv' /\ SelectInv' /\ ProcessInv'
  BY DEF ParseInv, SelectInv, ProcessInv, AtRun
<1> QED
  BY <1>1, <1>2 DEF IInv

-----------------------------------------------------------------------------
(* The steps of the program keep the invariant.                            *)

(* Nothing is loaded, selected or replayed initially.                      *)
LEMMA InitIInv == Init => IInv
<1> SUFFICES ASSUME Init PROVE IInv
  OBVIOUS
<1> USE DEF Init
<1>1. TypeOK
  <2>1. log \in Logs /\ vm \in CommandLine /\ libraries \in Seq(DOMAIN Provides)
    BY PlaybackAssumption DEF R!Init
  <2>2. DOMAIN selected = Kinds /\ \A kind \in Kinds : selected[kind] = ""
    OBVIOUS
  <2>3. processed \in 0 .. Len(AllPlugins)
    <3>1. processed = 0
      OBVIOUS
    <3> HIDE DEF Init
    <3> QED
      BY <3>1, AllPluginsLength
  <2>4. pc \in Kinds \cup {"load"} /\ exit_code \in {0, -1, Aborted}
    OBVIOUS
  <2> QED
    BY <2>1, <2>2, <2>3, <2>4 DEF TypeOK
<1>2. ParseInv /\ SelectInv /\ ProcessInv
  BY DEF ParseInv, SelectInv, ProcessInv, Chosen, AtRun
<1>3. ReplayInv
  BY DEF ReplayInv, R!Init, AtRun, R!Positions, Positions
<1> QED
  BY <1>1, <1>2, <1>3 DEF IInv

(* A library is loaded.                                                    *)
LEMMA LoadPluginIInv ==
  ASSUME IInv, LoadPlugin
  PROVE  IInv'
<1> USE DEF IInv, LoadPlugin
<1>1. /\ libraries \in Seq(DOMAIN Provides) /\ libraries # << >>
      /\ Head(libraries) \in DOMAIN Provides /\ Tail(libraries) \in Seq(DOMAIN Provides)
  BY HeadTail DEF TypeOK
<1>2. /\ loaded' \subseteq AnyPlugin /\ active' \subseteq loaded' /\ loaded \subseteq loaded'
  BY <1>1, ProvidesPlugins DEF TypeOK, AnyPlugin
<1>3. TypeOK'
  BY <1>1, <1>2 DEF TypeOK, AnyPlugin, runVars, replayVars
<1>4. SelectInv'
  BY KindsDisjoint DEF SelectInv, Chosen
<1>5. ParseInv' /\ ProcessInv'
  BY DEF ParseInv, ProcessInv, AtRun
<1>6. ReplayInv'
  BY ArgvReplay DEF AtRun
<1> QED
  BY <1>3, <1>4, <1>5, <1>6

(* Loading ends, or the command line is parsed; or that fails.             *)
LEMMA ParseIInv ==
  ASSUME IInv, LoadFails \/ EndLoad \/ Parse
  PROVE  IInv'
<1> USE DEF IInv
<1>1. /\ UNCHANGED <<runVars, argvVars>> /\ pc \in {"load", "parse"}
      /\ \/ pc' = "exit" /\ exit_code' = Aborted
         \/ pc' \in {"parse", "dbclient"} /\ exit_code' = exit_code
      /\ pc' = "dbclient" => vm.given \subseteq OptionsOf(loaded)
  BY DEF LoadFails, EndLoad, Parse, GoTo, ExitWith, OptionsOf
<1>2. TypeOK'
  BY <1>1 DEF TypeOK, runVars, replayVars, argvVars, Kinds
<1>3. CASE pc' = "exit"
  BY <1>1, <1>2, <1>3, ArgvExits DEF AtRun
<1>4. CASE pc' # "exit"
  <2>1. ParseInv'
    BY <1>1, <1>4 DEF ParseInv, argvVars, OptionsOf
  <2>2. SelectInv'
    BY <1>1, <1>4 DEF SelectInv, argvVars, Chosen
  <2>3. ProcessInv'
    BY <1>1, <1>4 DEF ProcessInv, AtRun, argvVars
  <2>4. ReplayInv'
    BY <1>1, <1>4, ArgvReplay DEF AtRun
  <2> QED
    BY <1>2, <2>1, <2>2, <2>3, <2>4
<1> QED
  BY <1>3, <1>4

(* One plugin of a kind is selected, the first of that kind to be active.  *)
LEMMA SelectIInv ==
  ASSUME IInv, SelectPlugins
  PROVE  IInv'
<1> USE DEF IInv
<1>1. PICK kind \in Kinds, next_pc \in {"input", "dispatcher", "report"} :
        /\ Select(kind, next_pc)
        /\ \/ kind = "dbclient" /\ next_pc = "input"
           \/ kind = "input" /\ next_pc = "dispatcher"
           \/ kind = "dispatcher" /\ next_pc = "report"
  BY DEF SelectPlugins, Kinds
<1>2. /\ UNCHANGED <<runVars, vm, libraries, loaded, processed>> /\ pc = kind
      /\ pc # "exit" /\ ~AtRun
  BY <1>1 DEF Select, Kinds, AtRun
<1>3. CASE Found(kind)
  <2> DEFINE p == Wanted(kind)
  <2> HIDE DEF p
  <2>1. /\ p \in loaded /\ p \in Plugins[kind]
        /\ selected' = [selected EXCEPT ![kind] = p] /\ active' = active \cup {p}
        /\ pc' = next_pc /\ exit_code' = exit_code
    BY <1>1, <1>3 DEF Select, Found, Activate, GoTo, p
  <2>2. TypeOK'
    <3>1. active' \subseteq loaded'
      BY <1>2, <2>1 DEF TypeOK
    <3>2. /\ DOMAIN selected' = Kinds
          /\ \A k \in Kinds : selected'[k] \in (loaded' \cap Plugins[k]) \cup {""}
      BY <1>2, <2>1 DEF TypeOK
    <3>3. pc' \in Kinds \cup {"report"}
      BY <1>1, <2>1 DEF Kinds
    <3> QED
      BY <1>2, <2>1, <3>1, <3>2, <3>3 DEF TypeOK, runVars, replayVars
  <2>3. selected'[kind] = p /\ \A k \in Kinds \ {kind} : selected'[k] = selected[k]
    BY <2>1 DEF TypeOK
  <2>4. /\ active' \cap Plugins[kind] = {p}
        /\ \A k \in Kinds \ {kind} : active' \cap Plugins[k] = active \cap Plugins[k]
    BY <1>1, <1>2, <2>1, KindsDisjoint DEF SelectInv, Chosen
  <2>5. SelectInv'
    BY <1>1, <1>2, <2>1, <2>3, <2>4 DEF SelectInv, Chosen, Kinds
  <2>6. ParseInv' /\ ProcessInv'
    BY <1>1, <1>2, <2>1 DEF ParseInv, ProcessInv, AtRun, OptionsOf, Kinds
  <2>7. ReplayInv'
    BY <1>2, <2>1, ArgvReplay
  <2> QED
    BY <2>2, <2>5, <2>6, <2>7
<1>4. CASE ~Found(kind)
  <2>1. pc' = "exit" /\ exit_code' = -1 /\ UNCHANGED <<selected, active>>
    BY <1>1, <1>4 DEF Select, ExitWith
  <2>2. TypeOK'
    BY <1>2, <2>1 DEF TypeOK, runVars, replayVars
  <2> QED
    BY <1>2, <2>1, <2>2, ArgvExits
<1> QED
  BY <1>3, <1>4

(* Reports are disabled, up to one that is not there.                      *)
LEMMA DisableReportsIInv ==
  ASSUME IInv, DisableReports
  PROVE  IInv'
<1> USE DEF IInv
<1>1. PICK off : off \subseteq Plugins.report /\ active' = active \ off
  <2> DEFINE unknown == {n \in DOMAIN vm.disabled :
                           vm.disabled[n] \notin loaded \cap Plugins.report}
             found   == {n \in DOMAIN vm.disabled : \A m \in unknown : n < m}
             off     == {vm.disabled[n] : n \in found}
  <2>1. active' = active \ off
    BY DEF DisableReports
  <2>2. ASSUME NEW n \in found PROVE vm.disabled[n] \in Plugins.report
    <3>1. vm.disabled \in Seq(STRING)
      BY DEF TypeOK, CommandLine
    <3>2. n \in Int
      BY <3>1
    <3>3. n \notin unknown
      BY <3>2
    <3> QED
      BY <3>3
  <2> QED
    BY <2>1, <2>2
<1>2. /\ UNCHANGED <<runVars, vm, libraries, loaded, selected, processed>> /\ pc = "report"
      /\ \/ pc' = "exit" /\ exit_code' = -1
         \/ pc' = "help" /\ exit_code' = exit_code
  BY DEF DisableReports, GoTo, ExitWith
<1>3. TypeOK'
  BY <1>1, <1>2 DEF TypeOK, runVars, replayVars
<1>4. CASE pc' = "exit"
  BY <1>2, <1>3, <1>4, ArgvExits DEF AtRun
<1>5. CASE pc' = "help"
  <2>1. ParseInv' /\ ProcessInv'
    BY <1>2, <1>5 DEF ParseInv, ProcessInv, AtRun, OptionsOf
  <2>2. \A kind \in Kinds : active' \cap Plugins[kind] = active \cap Plugins[kind]
    BY <1>1, KindsDisjoint
  <2>3. SelectInv'
    BY <1>2, <1>5, <2>2 DEF SelectInv, Chosen
  <2>4. ReplayInv'
    BY <1>2, <1>5, ArgvReplay DEF AtRun
  <2> QED
    BY <1>3, <2>1, <2>3, <2>4
<1> QED
  BY <1>2, <1>4, <1>5

(* Help is printed; or the options are about to be processed.              *)
LEMMA HelpIInv ==
  ASSUME IInv, Help
  PROVE  IInv'
<1> USE DEF IInv
<1>1. /\ UNCHANGED <<runVars, argvVars>> /\ pc = "help"
      /\ pc' \in {"exit", "process"} /\ exit_code' \in {0, exit_code}
  BY DEF Help, GoTo, ExitWith
<1>2. TypeOK'
  BY <1>1 DEF TypeOK, runVars, replayVars, argvVars
<1>3. CASE pc' = "exit"
  BY <1>1, <1>2, <1>3, ArgvExits DEF AtRun
<1>4. CASE pc' = "process"
  <2>1. ParseInv' /\ SelectInv'
    BY <1>1, <1>4 DEF ParseInv, OptionsOf, SelectInv, Chosen, argvVars
  <2>2. ProcessInv'
    BY <1>1, <1>4 DEF ProcessInv, AtRun, argvVars
  <2>3. ReplayInv'
    BY <1>1, <1>4, ArgvReplay DEF AtRun
  <2> QED
    BY <1>2, <2>1, <2>2, <2>3
<1> QED
  BY <1>1, <1>3, <1>4

(* A plugin processes the options, or cannot work.                         *)
LEMMA ProcessIInv ==
  ASSUME IInv, ProcessOptions \/ MySQLUnusable
  PROVE  IInv'
<1> USE DEF IInv
<1>1. /\ UNCHANGED <<runVars, vm, libraries, loaded, active, selected>> /\ pc = "process"
      /\ processed < Len(AllPlugins) /\ processed' = processed + 1
      /\ \/ pc' = "exit" /\ exit_code' = -1
         \/ /\ pc' = "process" /\ exit_code' = exit_code
            /\ AllPlugins[processed'] \in loaded => processOptions(AllPlugins[processed'])
  BY DEF ProcessOptions, MySQLUnusable, ExitWith
<1>2. processed \in Nat /\ processed' \in 1 .. Len(AllPlugins)
  <2>1. processed \in 0 .. Len(AllPlugins)
    BY DEF TypeOK
  <2> QED
    BY <1>1, <2>1, AllPluginsLength
<1>3. TypeOK'
  <2>1. pc' \in {"exit", "process"} /\ exit_code' \in {-1, exit_code}
    BY <1>1
  <2>2. processed' \in 0 .. Len(AllPlugins)
    BY <1>2, AllPluginsLength
  <2> QED
    BY <1>1, <2>1, <2>2 DEF TypeOK, runVars, replayVars
<1>4. CASE pc' = "exit"
  BY <1>1, <1>3, <1>4, ArgvExits DEF AtRun
<1>5. CASE pc' = "process"
  <2>1. ParseInv' /\ SelectInv'
    BY <1>1, <1>5 DEF ParseInv, OptionsOf, SelectInv, Chosen
  <2>2. ASSUME NEW n \in 1 .. processed', AllPlugins[n] \in loaded
        PROVE  processOptions(AllPlugins[n])'
    <3>1. CASE n = processed'
      BY <1>1, <1>5, <2>2, <3>1, OptionsFixed
    <3>2. CASE n \in 1 .. processed
      BY <1>1, <2>2, <3>2, OptionsFixed DEF ProcessInv
    <3> QED
      BY <1>1, <1>2, <3>1, <3>2
  <2>3. ProcessInv'
    BY <1>1, <1>5, <2>2 DEF ProcessInv, AtRun
  <2>4. ReplayInv'
    BY <1>1, <1>5, ArgvReplay DEF AtRun
  <2> QED
    BY <1>3, <2>1, <2>3, <2>4
<1> QED
  BY <1>1, <1>4, <1>5

(* All of them have, and the playback begins.                              *)
LEMMA EndOptionsIInv ==
  ASSUME IInv, EndOptions
  PROVE  IInv'
<1> USE DEF IInv
<1>1. /\ UNCHANGED <<runVars, argvVars, exit_code>> /\ pc = "process" /\ pc' = "run"
      /\ processed = Len(AllPlugins)
  BY DEF EndOptions, GoTo
<1>2. TypeOK'
  BY <1>1 DEF TypeOK, runVars, replayVars, argvVars
<1>3. ParseInv' /\ SelectInv'
  BY <1>1 DEF ParseInv, OptionsOf, SelectInv, Chosen, argvVars
<1>4. ProcessInv'
  BY <1>1, OptionsFixed DEF ProcessInv, AtRun, argvVars
<1>5. ReplayInv'
  BY <1>1, ArgvReplay DEF AtRun
<1> QED
  BY <1>2, <1>3, <1>4, <1>5

(* The dispatcher starts, the log is opened, or cannot be, the reports are *)
(* printed.                                                                *)
LEMMA RunIInv ==
  ASSUME IInv, RunDispatcher \/ Open \/ OpenFails \/ Close \/ PrintReports
  PROVE  IInv'
<1>1. /\ UNCHANGED argvVars /\ UNCHANGED replayVars /\ AtRun
      /\ AtRun' \/ pc' = "exit"
      /\ exit_code' \in {0, exit_code}
      /\ pc' \in {"open", "replay", "print", "exit"}
  BY DEF RunDispatcher, Open, OpenFails, Close, PrintReports, AtRun, GoTo, ExitWith, runVars
<1>2. ParseInv' /\ SelectInv' /\ ProcessInv'
  BY <1>1, RunArgv
<1>3. log \in Seq([thread_id : ThreadIds, quit : BOOLEAN]) /\ Len(log) \in Nat
  <2>1. log \in Logs
    BY DEF TypeOK, IInv
  <2>2. log \in Seq([thread_id : ThreadIds, quit : BOOLEAN])
    BY <2>1, LogsAssumption
  <2> QED
    BY <2>2
<1>4. workers' \in BOOLEAN /\ text' \in {"none", "held", "released"} /\ n_queries' \in Nat
  BY <1>3 DEF RunDispatcher, Open, OpenFails, Close, PrintReports, IInv, TypeOK, runVars
<1>5. TypeOK'
  BY <1>1, <1>4 DEF IInv, TypeOK, argvVars, replayVars
<1>6. ReplayInv'
  <2>1. CASE RunDispatcher
    BY <1>1, <2>1 DEF RunDispatcher, GoTo, IInv, ReplayInv, AtRun, replayVars, Positions
  <2>2. CASE Open
    BY <1>1, <2>2 DEF Open, GoTo, IInv, ReplayInv, AtRun, replayVars, Positions
  <2>3. CASE OpenFails
    BY <1>1, <2>3 DEF OpenFails, GoTo, IInv, ReplayInv, AtRun, runVars, replayVars, Positions
  <2>4. CASE Close
    BY <1>1, <2>4 DEF Close, ReaderJoined, GoTo, IInv, ReplayInv, AtRun, replayVars, Positions
  <2>5. CASE PrintReports
    BY <1>1, <2>5 DEF PrintReports, ExitWith, IInv, ReplayInv, AtRun, runVars, replayVars, Positions
  <2> QED
    BY <2>1, <2>2, <2>3, <2>4, <2>5
<1> QED
  BY <1>2, <1>5, <1>6 DEF IInv

(* The log is replayed, and the dispatcher returns.                        *)
LEMMA ReplayingIInv ==
  ASSUME IInv, Replaying
  PROVE  IInv'
<1> USE DEF IInv
<1>1. /\ UNCHANGED <<argvVars, text, n_queries, pc, exit_code, log>>
      /\ text # "none" /\ ~returned /\ pc # "exit"
      /\ workers' = (workers /\ ~returned') /\ workers' \in BOOLEAN
  BY Zenon DEF Replaying, R!Next, R!Perform, R!Return
<1>2. AtRun
  BY <1>1 DEF ReplayInv
<1>3. ParseInv' /\ SelectInv' /\ ProcessInv'
  BY <1>1, <1>2, RunArgv DEF AtRun
<1>4. TypeOK'
  BY <1>1 DEF TypeOK, argvVars
<1>5. ReplayInv'
  <2>1. Positions' = Positions
    BY <1>1 DEF Positions
  <2>2. CASE \E e \in R!Positions : R!Perform(e)
    <3>1. PICK e \in Positions : R!Perform(e)
      BY <2>2 DEF R!Positions, Positions
    <3>2. performed' \in [Positions -> {0, 1}] /\ ~returned'
      BY <1>1, <3>1 DEF R!Perform, ReplayInv
    <3> QED
      BY <1>1, <1>2, <2>1, <3>2 DEF ReplayInv, AtRun
  <2>3. CASE R!Return
    <3>1. (\A e \in Positions : performed[e] = 1) /\ performed' = performed /\ returned'
      BY <2>3 DEF R!Return, R!Positions, Positions
    <3> QED
      BY <1>1, <1>2, <2>1, <3>1 DEF ReplayInv, AtRun
  <2> QED
    BY <2>2, <2>3 DEF Replaying, R!Next
<1> QED
  BY <1>3, <1>4, <1>5

(* So it holds after every step,                                           *)
LEMMA NextIInv == IInv /\ [Next]_vars => IInv'
<1> SUFFICES ASSUME IInv, [Next]_vars PROVE IInv'
  OBVIOUS
<1>1. CASE Argv
  BY <1>1, LoadPluginIInv, ParseIInv, SelectIInv, DisableReportsIInv, HelpIInv, ProcessIInv,
     EndOptionsIInv DEF Argv
<1>2. CASE Run
  BY <1>2, RunIInv, ReplayingIInv DEF Run
<1>3. CASE UNCHANGED vars
  <2>1. UNCHANGED <<log, performed, returned, workers, text, n_queries, vm, libraries, loaded, active,
                    selected, processed, pc, exit_code>>
    BY <1>3 DEF vars, runVars, replayVars, argvVars
  <2>2. TypeOK' /\ ParseInv' /\ SelectInv'
    BY <2>1 DEF IInv, TypeOK, ParseInv, OptionsOf, SelectInv, Chosen
  <2>3. ProcessInv'
    BY <2>1, OptionsFixed DEF IInv, ProcessInv, AtRun
  <2>4. ReplayInv'
    BY <2>1 DEF IInv, ReplayInv, AtRun, Positions
  <2> QED
    BY <2>2, <2>3, <2>4 DEF IInv
<1> QED
  BY <1>1, <1>2, <1>3 DEF Next, Exited

-----------------------------------------------------------------------------
(* and in every state: which kinds have their one active plugin, which     *)
(* plugins have accepted the options, and how far the log is replayed.     *)
THEOREM Invariance == Spec => []IInv
BY InitIInv, NextIInv, PTL DEF Spec

(* Every variable has its type: a plugin that is selected or active is one *)
(* that was loaded.                                                        *)
THEOREM TypeCorrect == Spec => []TypeOK
<1>1. IInv => TypeOK
  BY DEF IInv
<1> QED
  BY <1>1, Invariance, PTL

(* Whatever is given, left out, not built or misspelt, the program runs    *)
(* with one plugin of each kind, and no other of that kind is active.      *)
THEOREM OneSelected == Spec => []OneOfEach
<1>1. IInv => OneOfEach
  BY DEF IInv, SelectInv, Chosen, OneOfEach, AtRun
<1> QED
  BY <1>1, Invariance, PTL

(* The options of a plugin that is loaded, by the plugin.                  *)
LEMMA OptionOwner ==
  ASSUME TypeOK, ParseInv, AtRun, NEW option \in vm.given
  PROVE  /\ option = "mysql-host" => "libmysqlclient" \in loaded
         /\ option \in {"query-log-file", "query-log-stdin", "query-log-preserve-query-time"} =>
              "query-log" \in loaded
         /\ option \in {"general-log-file", "general-log-stdin"} => "general-log" \in loaded
         /\ option = "thread-pool-threads-count" => "thread-pool" \in loaded
         /\ option = "show-per-connection-query-count" => "simple_report" \in loaded
<1>1. PICK plugin \in loaded : option \in getProgramOptions(plugin)
  BY DEF ParseInv, AtRun, OptionsOf
<1> QED
  BY <1>1 DEF getProgramOptions

(* A plugin that is loaded has accepted the options.                       *)
LEMMA Accepted ==
  ASSUME ProcessInv, AtRun,
         NEW plugin \in {"libmysqlclient", "query-log", "general-log", "thread-pool",
                         "simple_report"},
         plugin \in loaded
  PROVE  processOptions(plugin)
<1>1. \A n \in 1 .. 10 : AllPlugins[n] \in loaded => processOptions(AllPlugins[n])
  BY AllPluginsLength DEF ProcessInv
<1>2. /\ AllPlugins[4] = "libmysqlclient" /\ AllPlugins[6] = "query-log"
      /\ AllPlugins[3] = "general-log" /\ AllPlugins[10] = "thread-pool"
      /\ AllPlugins[8] = "simple_report"
  BY DEF AllPlugins
<1>3. PICK n \in {3, 4, 6, 8, 10} : AllPlugins[n] = plugin
  BY <1>2
<1> QED
  BY <1>1, <1>3

(* The playback does not start with an option that none of its plugins     *)
(* uses, nor without a log to read or with two.                            *)
THEOREM NoOptionIgnored == Spec => []OptionsUsed
<1>1. IInv => OptionsUsed
  <2> SUFFICES ASSUME IInv, AtRun PROVE OptionsUsed
    BY DEF OptionsUsed
  <2>1. TypeOK /\ ParseInv /\ ProcessInv
    BY DEF IInv
  <2>2. /\ active \cap Plugins["dbclient"] = {selected["dbclient"]}
        /\ active \cap Plugins["input"] = {selected["input"]}
        /\ active \cap Plugins["dispatcher"] = {selected["dispatcher"]}
    BY DEF IInv, SelectInv, Chosen, AtRun, Kinds
  <2>3. "mysql-host" \in vm.given => selected.dbclient = "libmysqlclient"
    <3> SUFFICES ASSUME "mysql-host" \in vm.given PROVE "libmysqlclient" \in active
      BY <2>2, KindsDisjoint
    <3>1. processOptions("libmysqlclient")
      BY <2>1, OptionOwner, Accepted
    <3> QED
      BY <3>1 DEF processOptions, count
  <2>4. "thread-pool-threads-count" \in vm.given => selected.dispatcher = "thread-pool"
    <3> SUFFICES ASSUME "thread-pool-threads-count" \in vm.given PROVE "thread-pool" \in active
      BY <2>2, KindsDisjoint
    <3>1. processOptions("thread-pool")
      BY <2>1, OptionOwner, Accepted
    <3> QED
      BY <3>1 DEF processOptions, defaulted
  <2>5. "show-per-connection-query-count" \in vm.given => "simple_report" \in active
    <3> SUFFICES ASSUME "show-per-connection-query-count" \in vm.given
                 PROVE  "simple_report" \in active
      OBVIOUS
    <3>1. processOptions("simple_report")
      BY <2>1, OptionOwner, Accepted
    <3> QED
      BY <3>1 DEF processOptions, count
  <2>6. "query-log" \in loaded =>
          InputOptionsOK("query-log", "query-log-file", "query-log-stdin",
                         {"query-log-stdin", "query-log-preserve-query-time"})
    BY <2>1, Accepted DEF processOptions
  <2>7. "general-log" \in loaded =>
          InputOptionsOK("general-log", "general-log-file", "general-log-stdin",
                         {"general-log-stdin"})
    BY <2>1, Accepted DEF processOptions
  <2>8. "query-log-preserve-query-time" \in vm.given => selected.input = "query-log"
    <3> SUFFICES ASSUME "query-log-preserve-query-time" \in vm.given
                 PROVE  "query-log" \in active
      BY <2>2, KindsDisjoint
    <3>1. "query-log" \in loaded
      BY <2>1, OptionOwner
    <3> QED
      BY <2>6, <3>1 DEF InputOptionsOK, defaulted
  <2> DEFINE logs == vm.given \cap {"query-log-file", "query-log-stdin", "general-log-file",
                                    "general-log-stdin"}
  <2>9. ASSUME selected["input"] = "query-log"
     PROVE  logs \in {{o} : o \in getProgramOptions("query-log")}
    <3>1. "query-log" \in active /\ "query-log" \in loaded /\ "general-log" \notin active
      BY <2>1, <2>2, <2>9, KindsDisjoint DEF TypeOK
    <3>2. "query-log-file" \in vm.given <=> "query-log-stdin" \notin vm.given
      BY <2>6, <3>1 DEF InputOptionsOK, count, defaulted, WithDefault
    <3>3. "general-log-file" \notin vm.given /\ "general-log-stdin" \notin vm.given
      BY <2>1, <2>7, <3>1, OptionOwner DEF InputOptionsOK, count, defaulted
    <3>4. logs = {"query-log-file"} \/ logs = {"query-log-stdin"}
      BY <3>2, <3>3
    <3> QED
      BY <3>4 DEF getProgramOptions
  <2>10. ASSUME selected["input"] = "general-log"
     PROVE  logs \in {{o} : o \in getProgramOptions("general-log")}
    <3>1. "general-log" \in active /\ "general-log" \in loaded /\ "query-log" \notin active
      <4>1. active \cap Plugins["input"] = {"general-log"} /\ active \subseteq loaded
        BY <2>1, <2>2, <2>10 DEF TypeOK
      <4> QED
        BY <4>1, KindsDisjoint
    <3>2. "general-log-file" \in vm.given <=> "general-log-stdin" \notin vm.given
      BY <2>7, <3>1 DEF InputOptionsOK, count, defaulted, WithDefault
    <3>3. "query-log-file" \notin vm.given /\ "query-log-stdin" \notin vm.given
      BY <2>1, <2>6, <3>1, OptionOwner DEF InputOptionsOK, count, defaulted
    <3>4. logs = {"general-log-file"} \/ logs = {"general-log-stdin"}
      BY <3>2, <3>3
    <3> QED
      BY <3>4 DEF getProgramOptions
  <2>11. selected["input"] \in {"query-log", "general-log"}
    BY <2>2, KindsDisjoint
  <2> QED
    BY <2>3, <2>4, <2>5, <2>8, <2>9, <2>10, <2>11 DEF OptionsUsed
<1> QED
  BY <1>1, Invariance, PTL

(* The log is released, and the reports are printed, only after every      *)
(* entry has been performed once and no thread is left; and a program that *)
(* fails has replayed nothing.                                             *)
THEOREM ReportsWholeReplay == Spec => []ReportsComplete
<1>1. IInv => ReportsComplete
  BY DEF IInv, TypeOK, ReplayInv, ReportsComplete, AtRun
<1> QED
  BY <1>1, Invariance, PTL
=============================================================================
