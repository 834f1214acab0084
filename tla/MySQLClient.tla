----------------------------- MODULE MySQLClient -----------------------------
(***************************************************************************)
(* The libmysqlclient database plugin                                      *)
(* (percona_playback/mysql_client/mysql_client.cc): one MySQLDBThread, its *)
(* connection to the server, and its retries.                              *)
(*                                                                         *)
(* execute_query connects on demand, and after every error disconnects and *)
(* reconnects.  Connecting runs the session-init query, if there is one,   *)
(* by execute_query again: the calls nest, and stack holds the activations *)
(* of execute_query, the innermost last.  The activation of a quit stands  *)
(* for the connect_and_init_session in DBThread::run, that of FinishEntry  *)
(* for its execute; these have nothing to send.                            *)
(*                                                                         *)
(* The server is the environment: it refuses connections and fails queries *)
(* at will, up to MaxFailures times, and may apply a query whose answer is *)
(* then lost.  A query may be several statements: the first one's error is *)
(* that of mysql_real_query, any other's comes with its results.           *)
(***************************************************************************)
EXTENDS Integers, Sequences

CONSTANTS
  MaxRetries,         (* --mysql-max-retries                               *)
  SessionInits,       (* may --session-init-query be given, or not?        *)
  Threads,            (* the threads to play back: see ThreadsAssumption   *)
  MaxFailures         (* bounds the failures of the environment when there *)
                      (* is a session-init query                           *)

ASSUME MySQLClientAssumption ==
  /\ MaxRetries \in Nat
  /\ SessionInits \subseteq BOOLEAN
  /\ MaxFailures \in Nat

(* What a thread is given: queries and quits, the last of them marked as   *)
(* shutdown; or the FinishEntry alone, in test_connect.                    *)
ASSUME ThreadsAssumption ==
  Threads \subseteq Seq({"query", "quit"}) \cup {<<"finish">>}

VARIABLES
  session_init,        (* is g_session_init_query not empty?                *)
  entries,             (* what the thread is given                         *)
  nth,                 (* how many of them it has popped                   *)
  exited,              (* has run returned?                                *)
  stack,               (* the activations of execute_query                 *)
  have_connected,
  num_tries,           (* of the latest connect                            *)
  had_too_many_connections,
  connect_errors,      (* is num_connect_errors not 0?                      *)
  error,               (* the QueryResult of the latest entry: r->error    *)
  (* The server, and what the properties remember of it.                   *)
  open_handles,        (* successful mysql_real_connect less mysql_close   *)
  inits,               (* init queries applied in the current session      *)
  applied,             (* times the server applied the latest entry        *)
  unnoticed,           (* did a later statement of it, or its results fail? *)
  was_connected,       (* have_connected when the latest entry was popped  *)
  ever_connected,
  failures             (* counted against MaxFailures                      *)

given       == <<session_init, entries>>
runVars     == <<nth, exited, was_connected>>
connectVars == <<num_tries, had_too_many_connections>>
session     == <<have_connected, open_handles, inits>>
result      == <<error, applied, unnoticed>>
connections == <<connect_errors, ever_connected>>
vars == <<given, runVars, stack, connectVars, session, result, connections, failures>>

Activations == [query : {"query", "init", "quit", "finish"},
                i : 0 .. MaxRetries + 1,
                pc : {"connect", "send"}]

TypeOK ==
  /\ session_init \in SessionInits
  /\ entries \in Threads
  /\ nth \in 0 .. Len(entries)
  /\ stack \in Seq(Activations)
  /\ {had_too_many_connections, have_connected, connect_errors, error, exited, unnoticed,
      was_connected, ever_connected} \subseteq BOOLEAN
  /\ {num_tries, inits, applied} \subseteq Nat
  /\ open_handles \in Int
  /\ failures \in 0 .. MaxFailures

Init ==
  /\ session_init \in SessionInits
  /\ entries \in Threads
  /\ nth = 0 /\ exited = FALSE /\ was_connected = FALSE
  /\ stack = << >>
  /\ num_tries = 0 /\ had_too_many_connections = FALSE
  /\ have_connected = FALSE /\ open_handles = 0 /\ inits = 0
  /\ error = FALSE /\ applied = 0 /\ unnoticed = FALSE
  /\ connect_errors = FALSE /\ ever_connected = FALSE
  /\ failures = 0

-----------------------------------------------------------------------------
depth == Len(stack)
top   == stack[depth]

Call(query, connecting) ==
  [query |-> query, i |-> 0, pc |-> IF connecting THEN "connect" ELSE "send"]

(* The locals of connect, when it is about to be called.                   *)
StartConnect == num_tries' = 0 /\ had_too_many_connections' = FALSE

(* The retries of a session-init query nest without end.                   *)
Fail ==
  IF session_init THEN failures < MaxFailures /\ failures' = failures + 1
                  ELSE UNCHANGED failures

(* A mutant: have_connected is reset before it is looked at.               *)
disconnectResetFirst ==
  /\ open_handles' = open_handles
  /\ have_connected' = FALSE
  /\ inits' = 0

(* disconnect: mysql_close if there is a handle to close.                  *)
disconnect ==
  /\ open_handles' = IF have_connected THEN open_handles - 1 ELSE open_handles
  /\ have_connected' = FALSE
  /\ inits' = 0

-----------------------------------------------------------------------------
(* DBThread::run.                                                          *)

(* Has the loop ended?  A mutant: a quit ends it, too.                     *)
QuitEndsLoop == nth = Len(entries) \/ (nth > 0 /\ entries[nth] = "quit")
LoopEnded    == nth = Len(entries)

(* Take the next entry.                                                    *)
Start ==
  /\ stack = << >> /\ ~LoopEnded
  /\ nth' = nth + 1
  /\ was_connected' = have_connected
  /\ IF entries[nth'] = "quit" THEN disconnect ELSE UNCHANGED session
  /\ stack' = <<Call(entries[nth'], \/ entries[nth'] = "quit"
                                    \/ entries[nth'] = "query" /\ ~have_connected)>>
  /\ StartConnect
  /\ error' = FALSE /\ applied' = 0 /\ unnoticed' = FALSE
  /\ UNCHANGED <<given, exited, connections, failures>>

Exit ==
  /\ stack = << >> /\ LoopEnded /\ ~exited
  /\ disconnect
  /\ exited' = TRUE
  /\ UNCHANGED <<given, nth, was_connected, stack, connectVars, result, connections, failures>>

-----------------------------------------------------------------------------
(* connect, called by the innermost activation, and init_session.          *)

Connecting == depth > 0 /\ top.pc = "connect"

(* What the activation goes on with once connect_and_init_session returns. *)
Connected == [stack EXCEPT ![depth].pc = "send"]

(* init_session, in the activation that has connected.  A mutant: only the *)
(* first session of a thread is initialised.                               *)
InitFirstSession ==
  stack' = IF session_init /\ ~ever_connected THEN Append(Connected, Call("init", FALSE))
                                              ELSE Connected

InitSession ==
  stack' = IF session_init THEN Append(Connected, Call("init", FALSE)) ELSE Connected

ConnectOK ==
  /\ Connecting
  /\ num_tries' = num_tries + 1 /\ had_too_many_connections' = FALSE
  /\ open_handles' = open_handles + 1 /\ have_connected' = TRUE /\ inits' = 0
  /\ InitSession
  /\ ever_connected' = TRUE
  /\ UNCHANGED <<given, runVars, result, connect_errors, failures>>

(* mysql_real_connect fails; too_many: with error number 1203?             *)
ConnectFail(too_many) ==
  /\ Connecting
  /\ Fail
  /\ num_tries' = num_tries + 1 /\ had_too_many_connections' = too_many
  /\ connect_errors' = TRUE
  /\ UNCHANGED <<given, runVars, open_handles, inits, result, ever_connected>>

(* What usleep returns: 0, or -1 if a signal interrupts it.                *)
UsleepResults == {0, -1}

(* The condition of connect's loop.                                        *)
TryAgain(slept) ==
  had_too_many_connections' /\ num_tries' < MaxRetries /\ slept # 0

ConnectAgain ==
  /\ ConnectFail(TRUE)
  /\ \E slept \in UsleepResults : TryAgain(slept)
  /\ UNCHANGED <<stack, have_connected>>

(* connect returns false.                                                  *)
GiveUp ==
  /\ \E too_many \in BOOLEAN : ConnectFail(too_many)
  /\ \E slept \in UsleepResults : ~TryAgain(slept)
  /\ have_connected' = FALSE
  /\ stack' = Connected

-----------------------------------------------------------------------------
(* execute_query's loop, in the innermost activation.                      *)

Sending == depth > 0 /\ top.pc = "send"

(* Is there a query to send, and a try left?  A mutant: one too many.      *)
OneTryMore == top.query \in {"query", "init"} /\ top.i <= MaxRetries + 1
TryLeft    == top.query \in {"query", "init"} /\ top.i < MaxRetries + 1

(* The next try, after reconnecting.  A mutant: it is not counted.         *)
SameTry == [stack EXCEPT ![depth].pc = "connect"]
NextTry == [stack EXCEPT ![depth].i = @ + 1, ![depth].pc = "connect"]

(* r->setError, in the QueryResult of the entry or of init_session (which  *)
(* nobody reads).  A mutant: only a success is recorded.                   *)
setErrorFalse(mr) == error' = IF top.query = "query" /\ ~mr THEN FALSE ELSE error
setError(mr)      == error' = IF top.query = "query" THEN mr ELSE error

(* The activation returns to the one that connected for it, or to run.     *)
ReturnTo == SubSeq(stack, 1, depth - 1)

(* mysql_real_query succeeds.  The results of all its statements are       *)
(* fetched and freed: that mysql_store_result returns none, and            *)
(* mysql_next_result an error, ends the loop like its success does.        *)
QueryOK ==
  /\ Sending /\ TryLeft /\ have_connected
  /\ stack' = ReturnTo
  /\ setError(FALSE)
  /\ IF top.query = "query"
     THEN applied' = applied + 1 /\ unnoticed' \in BOOLEAN /\ UNCHANGED inits
     ELSE inits' = inits + 1 /\ UNCHANGED <<applied, unnoticed>>
  /\ UNCHANGED <<given, runVars, have_connected, connectVars, open_handles, connections, failures>>

(* It fails, always without a session: disconnect, and connect again.      *)
QueryFail ==
  /\ Sending /\ TryLeft
  /\ IF have_connected THEN Fail ELSE UNCHANGED failures
  /\ setError(TRUE)
  /\ stack' = NextTry
  /\ StartConnect
  /\ disconnect
  /\ applied' \in {applied} \cup
       {applied + n : n \in IF top.query = "query" /\ have_connected THEN {1} ELSE {}}
  /\ UNCHANGED <<given, runVars, unnoticed, connections>>

(* The loop has run out of tries, or there was nothing to send.            *)
Return ==
  /\ Sending /\ ~TryLeft
  /\ stack' = ReturnTo
  /\ UNCHANGED <<given, runVars, connectVars, session, result, connections, failures>>

-----------------------------------------------------------------------------
Thread == Start \/ Exit \/ ConnectOK \/ ConnectAgain \/ GiveUp \/ QueryOK \/ QueryFail \/ Return

Terminated == exited /\ UNCHANGED vars

Next == Thread \/ Terminated

SafeSpec == Init /\ [][Next]_vars
Spec     == SafeSpec /\ WF_vars(Thread)

-----------------------------------------------------------------------------
(* The thread as DBThread has it: entry n of the thread is entry n of its  *)
(* log, and an entry is being performed while any activation is left.      *)

InLog == IF entries = <<"finish">> THEN 0 ELSE Len(entries)

AsEntry(n) == [pos |-> IF n <= InLog THEN n ELSE 0, shutdown |-> n = Len(entries)]

D == INSTANCE DBThread WITH
  ThreadIds  <- {1},
  Logs       <- {},
  Workers    <- {1},
  QueueDepth <- 1,
  log        <- [n \in 1 .. InLog |-> [thread_id |-> 1, quit |-> entries[n] = "quit"]],
  queries    <- [w \in {1} |-> [n \in 1 .. Len(entries) - nth |-> AsEntry(nth + n)]],
  thread     <- [w \in {1} |-> IF exited THEN "exited"
                               ELSE IF stack # << >> THEN "perform"
                               ELSE IF nth = Len(entries) THEN "leave" ELSE "pop"],
  query      <- [w \in {1} |-> IF stack # << >> THEN AsEntry(nth)
                                               ELSE [pos |-> 0, shutdown |-> FALSE]],
  connected  <- [w \in {1} |-> IF stack # << >> THEN was_connected ELSE have_connected],
  performed  <- [n \in 1 .. InLog |-> IF n < nth \/ (n = nth /\ stack = << >>) THEN 1 ELSE 0]

(* However execute_query nests and retries, a thread with this client does *)
(* what DBThread has it do: every entry popped is performed once, in its   *)
(* order, the thread ends after the last one and not after a quit, and it  *)
(* leaves nothing connected.                                               *)
ImplementsDBThread == [][D!Run(1)]_(D!workerVars)

(* have_connected tells whether there is a handle to close, and there is   *)
(* at most one: however execute_query, disconnect and                      *)
(* connect_and_init_session nest, no session is opened over another one    *)
(* (it would be leaked) and none is left open when the thread ends.        *)
OneHandle ==
  /\ open_handles = IF have_connected THEN 1 ELSE 0
  /\ exited => ~have_connected

(* A query of the log is only ever sent in a session in which the          *)
(* session-init query has succeeded, although nobody looks at its result:  *)
(* the activation that ran it out of tries has reconnected, and either     *)
(* that failed or the nested activation has succeeded.                     *)
SentInInitialisedSession ==
  (depth > 0 /\ top.query = "query" /\ top.pc = "send" /\ have_connected
     /\ session_init) => inits > 0

(* The result that is reported of a query is that of its last try: a       *)
(* success was applied, and whatever answers were lost no query is applied *)
(* more often than execute_query tries it.  (Applied is here also a query  *)
(* of which a statement after the first has failed: see ErrorsReported.)   *)
ReportedAsApplied ==
  [][depth = 1 /\ top.query = "query" /\ stack' = << >> =>
       /\ ~error' => applied' > 0
       /\ applied' <= MaxRetries + 1]_vars

(* The thread ends: the retries of connect and of execute_query run out,   *)
(* whatever the server does; and those of the session-init query, which    *)
(* nest, with the failures of the server.                                  *)
Termination == <>exited

(* The comment in connect: "Continue attempting to connect until we exceed *)
(* max_retries, so long as the error is too_many_connections".             *)
ConnectUntilExhausted ==
  [][GiveUp /\ had_too_many_connections' => num_tries' >= MaxRetries]_vars

(* simple_report counts the queries that "had errors" by the result that   *)
(* execute_query returns.                                                  *)
ErrorsReported == stack = << >> /\ unnoticed => error

(* test_connect "establishes a connection to the mysql server in order to  *)
(* check if the connection settings are correct": it returns whether       *)
(* connect_errors is FALSE.                                                *)
TestConnectConnects == exited /\ ~connect_errors => ever_connected
=============================================================================
