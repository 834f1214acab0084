-------------------------- MODULE MySQLClientProofs --------------------------
(***************************************************************************)
(* Theorems about MySQLClient, for any queries and quits, any number of    *)
(* retries, with and without a session-init query, and however often the   *)
(* server fails.                                                           *)
(***************************************************************************)
EXTENDS MySQLClient, SequenceTheorems, WellFoundedInduction, TLAPS

-----------------------------------------------------------------------------
(* The inductive invariant: what the nested activations of execute_query   *)
(* are, and what each of them may rely on.                                 *)

(* The outermost activation is that of the entry popped last; those inside *)
(* run the session-init query, each for one that has just connected.       *)
StackInv ==
  /\ stack # << >> => nth > 0 /\ stack[1].query = entries[nth]
  /\ \A k \in 2 .. depth : stack[k].query = "init"
  /\ \A k \in 1 .. depth - 1 : stack[k].pc = "send"
  /\ exited => stack = << >> /\ LoopEnded

(* There is nothing to close while connect tries; a session that has not   *)
(* been initialised yet belongs to an activation that has not tried to.    *)
SessionInv ==
  /\ OneHandle
  /\ Connecting => ~have_connected
  /\ have_connected /\ session_init /\ inits = 0 =>
       Sending /\ top.query = "init" /\ top.i = 0

(* Each try of a query applies it once at most, and has failed if there    *)
(* has been another.                                                       *)
ResultInv ==
  stack # << >> /\ stack[1].query = "query" =>
    /\ applied <= stack[1].i
    /\ stack[1].i > 0 => error

(* The FinishEntry, which test_connect's thread is given, never connects.  *)
FinishInv ==
  entries = <<"finish">> =>
    depth <= 1 /\ ~Connecting /\ ~have_connected /\ ~was_connected

CallInv == TypeOK /\ StackInv /\ SessionInv /\ ResultInv /\ FinishInv

(* Calls nest only for the session-init query; and connect tries again     *)
(* only if it has not tried often enough.                                  *)
BoundInv ==
  /\ ~session_init => depth <= 1
  /\ Connecting => num_tries <= MaxRetries

IInv == CallInv /\ BoundInv

-----------------------------------------------------------------------------
(* TypeOK, variable by variable.                                           *)
LEMMA Types ==
  TypeOK <=> /\ session_init \in SessionInits /\ entries \in Threads
             /\ nth \in 0 .. Len(entries) /\ stack \in Seq(Activations)
             /\ had_too_many_connections \in BOOLEAN /\ have_connected \in BOOLEAN
             /\ connect_errors \in BOOLEAN /\ error \in BOOLEAN /\ exited \in BOOLEAN
             /\ unnoticed \in BOOLEAN /\ was_connected \in BOOLEAN
             /\ ever_connected \in BOOLEAN
             /\ num_tries \in Nat /\ inits \in Nat /\ applied \in Nat
             /\ open_handles \in Int /\ failures \in 0 .. MaxFailures
BY Zenon DEF TypeOK

(* The two halves of TypeOK.                                               *)
Booleans ==
  {had_too_many_connections, have_connected, connect_errors, error, exited, unnoticed,
   was_connected, ever_connected} \subseteq BOOLEAN

OthersOK ==
  /\ session_init \in SessionInits /\ entries \in Threads
  /\ nth \in 0 .. Len(entries) /\ stack \in Seq(Activations)
  /\ num_tries \in Nat /\ inits \in Nat /\ applied \in Nat
  /\ open_handles \in Int /\ failures \in 0 .. MaxFailures

(* A thread is given queries and quits, or the FinishEntry.                *)
LEMMA EntriesType ==
  ASSUME TypeOK
  PROVE  /\ Len(entries) \in Nat
         /\ \A n \in 1 .. Len(entries) : entries[n] \in {"query", "quit", "finish"}
<1>1. CASE entries \in Seq({"query", "quit"})
  BY <1>1
<1>2. CASE entries = <<"finish">>
  BY <1>2
<1> QED
  BY <1>1, <1>2, ThreadsAssumption DEF TypeOK

-----------------------------------------------------------------------------
(* The stack of activations.                                               *)

(* Whenever there is an activation, the innermost one is well-typed.       *)
LEMMA TopType ==
  ASSUME TypeOK
  PROVE  /\ depth \in Nat
         /\ stack # << >> <=> depth > 0
         /\ depth > 0 => /\ top \in Activations /\ top.i \in 0 .. MaxRetries + 1
                         /\ top.query \in {"query", "init", "quit", "finish"}
<1>1. stack \in Seq(Activations)
  BY DEF TypeOK
<1>2. depth \in Nat /\ (stack # << >> <=> depth > 0)
  BY <1>1 DEF depth
<1>3. depth > 0 => top \in Activations
  BY <1>1, <1>2 DEF top, depth
<1> QED
  BY <1>2, <1>3 DEF Activations

(* The innermost activation goes on, with another try or without,          *)
LEMMA GoOn ==
  ASSUME TypeOK, depth > 0, NEW i \in 0 .. MaxRetries + 1, NEW pc \in {"connect", "send"},
         NEW s, s = [stack EXCEPT ![depth] = [query |-> top.query, i |-> i, pc |-> pc]]
  PROVE  /\ s \in Seq(Activations) /\ Len(s) = depth
         /\ s[depth] = [query |-> top.query, i |-> i, pc |-> pc]
         /\ \A k \in 1 .. depth - 1 : s[k] = stack[k]
<1>1. [query |-> top.query, i |-> i, pc |-> pc] \in Activations
  BY TopType DEF Activations
<1> QED
  BY <1>1 DEF TypeOK, depth

(* with the session that it now has,                                       *)
LEMMA ConnectedStack ==
  ASSUME TypeOK, depth > 0
  PROVE  /\ Connected \in Seq(Activations) /\ Len(Connected) = depth
         /\ Connected[depth] = [query |-> top.query, i |-> top.i, pc |-> "send"]
         /\ \A k \in 1 .. depth - 1 : Connected[k] = stack[k]
<1>1. [top EXCEPT !.pc = "send"] = [query |-> top.query, i |-> top.i, pc |-> "send"]
  BY TopType DEF Activations
<1>2. Connected = [stack EXCEPT ![depth] = [query |-> top.query, i |-> top.i, pc |-> "send"]]
  BY <1>1 DEF Connected, top
<1> QED
  BY <1>2, GoOn, TopType, ZenonT(60)

(* in its next try,                                                        *)
LEMMA NextTryStack ==
  ASSUME TypeOK, depth > 0, TryLeft
  PROVE  /\ NextTry \in Seq(Activations) /\ Len(NextTry) = depth
         /\ NextTry[depth] = [query |-> top.query, i |-> top.i + 1, pc |-> "connect"]
         /\ \A k \in 1 .. depth - 1 : NextTry[k] = stack[k]
<1>1. [top EXCEPT !.i = @ + 1, !.pc = "connect"]
        = [query |-> top.query, i |-> top.i + 1, pc |-> "connect"]
  <2>1. top \in Activations /\ top.i \in Int
    BY TopType, MySQLClientAssumption
  <2> DEFINE j == top.i + 1
  <2>2. [top EXCEPT !.i = j, !.pc = "connect"] = [query |-> top.query, i |-> j, pc |-> "connect"]
    <3> HIDE DEF j
    <3> DEFINE b == [top EXCEPT !.i = j]
    <3>1. b \in [query : {top.query}, i : {j}, pc : {top.pc}]
      BY <2>1 DEF Activations
    <3>2. [top EXCEPT !.i = j, !.pc = "connect"] = [b EXCEPT !.pc = "connect"]
      BY <2>1 DEF Activations
    <3> HIDE DEF b
    <3>3. [b EXCEPT !.pc = "connect"] = [query |-> b.query, i |-> b.i, pc |-> "connect"]
      BY <3>1
    <3> QED
      BY <3>1, <3>2, <3>3
  <2> QED
    BY <2>2
<1>2. NextTry
        = [stack EXCEPT ![depth] = [query |-> top.query, i |-> top.i + 1, pc |-> "connect"]]
  BY <1>1 DEF NextTry, top
<1>3. top.i + 1 \in 0 .. MaxRetries + 1
  BY TopType, MySQLClientAssumption DEF TryLeft
<1> QED
  BY <1>2, <1>3, GoOn

(* or returns to the one around it.                                        *)
LEMMA ReturnStack ==
  ASSUME TypeOK, depth > 0
  PROVE  /\ ReturnTo \in Seq(Activations) /\ Len(ReturnTo) = depth - 1
         /\ ReturnTo = << >> <=> depth = 1
         /\ \A k \in 1 .. depth - 1 : ReturnTo[k] = stack[k]
<1>1. stack \in Seq(Activations) /\ Len(stack) = depth /\ depth - 1 \in 0 .. Len(stack)
  BY TopType DEF TypeOK, depth
<1>2. /\ ReturnTo \in Seq(Activations) /\ Len(ReturnTo) = depth - 1
      /\ \A k \in 1 .. depth - 1 : ReturnTo[k] = stack[k]
  BY <1>1 DEF ReturnTo
<1> QED
  BY <1>1, <1>2

(* The outermost activation is that of the latest entry, and the innermost *)
(* that of the session-init query if it is another one.                    *)
LEMMA Innermost ==
  ASSUME TypeOK, StackInv, depth > 0
  PROVE  /\ ~exited /\ nth \in 1 .. Len(entries) /\ entries[nth] = stack[1].query
         /\ depth = 1 => top = stack[1] /\ top.query = entries[nth]
         /\ depth > 1 => top.query = "init"
         /\ entries[nth] # "init"
         /\ top.query = "query" => depth = 1
<1>1. depth \in Nat /\ stack # << >> /\ Len(entries) \in Nat
  BY TopType, EntriesType
<1>2. ~exited /\ nth \in 1 .. Len(entries) /\ entries[nth] = stack[1].query
  BY <1>1 DEF TypeOK, StackInv
<1>3. entries[nth] # "init"
  BY <1>2, EntriesType
<1>4. depth > 1 => top.query = "init"
  BY <1>1 DEF StackInv, top
<1> QED
  BY <1>1, <1>2, <1>3, <1>4 DEF top

(* What a step on the stack may do to it.                                  *)
LEMMA StackKept ==
  ASSUME TypeOK, StackInv, depth > 0, UNCHANGED <<entries, nth, exited>>,
         stack' \in Seq(Activations), depth' \in depth - 1 .. depth + 1,
         \A k \in 1 .. depth - 1 : stack'[k] = stack[k],
         depth' >= depth => stack'[depth].query = top.query,
         depth' > depth => stack'[depth].pc = "send" /\ stack'[depth + 1].query = "init"
  PROVE  StackInv'
<1>1. depth \in Nat /\ ~exited /\ nth > 0 /\ stack[1].query = entries[nth]
  BY TopType, Innermost DEF TypeOK
<1>2. depth' = Len(stack') /\ top = stack[depth]
  BY DEF depth, top
<1>3. stack' # << >> => stack'[1].query = entries[nth]
  <2>1. CASE depth = 1
    BY <1>1, <1>2, <2>1
  <2>2. CASE depth > 1
    BY <1>1, <2>2
  <2> QED
    BY <1>1, <2>1, <2>2
<1>4. ASSUME NEW k \in 2 .. depth' PROVE stack'[k].query = "init"
  <2>1. CASE k < depth
    BY <1>1, <1>2, <2>1 DEF StackInv
  <2>2. CASE k = depth
    BY <1>1, <2>2, Innermost
  <2>3. CASE k = depth + 1
    BY <1>1, <2>3
  <2> QED
    BY <1>1, <1>2, <2>1, <2>2, <2>3
<1>5. ASSUME NEW k \in 1 .. depth' - 1 PROVE stack'[k].pc = "send"
  <2>1. CASE k < depth
    BY <1>1, <1>2, <2>1 DEF StackInv
  <2>2. CASE k = depth
    BY <1>1, <1>2, <2>2
  <2> QED
    BY <1>1, <1>2, <2>1, <2>2
<1> QED
  BY <1>1, <1>3, <1>4, <1>5 DEF StackInv

-----------------------------------------------------------------------------
(* The steps of a thread keep the invariant.                               *)

(* There is no activation initially.                                       *)
LEMMA InitCallInv == Init => CallInv
<1> SUFFICES ASSUME Init PROVE CallInv
  OBVIOUS
<1> USE DEF Init
<1>1. Len(entries) \in Nat
  <2>1. CASE entries \in Seq({"query", "quit"})
    BY <2>1
  <2>2. CASE entries = <<"finish">>
    BY <2>2
  <2> QED
    BY <2>1, <2>2, ThreadsAssumption
<1>2. TypeOK
  <2>1. stack \in Seq(Activations) /\ nth \in 0 .. Len(entries) /\ failures \in 0 .. MaxFailures
    BY <1>1, MySQLClientAssumption
  <2>2. {had_too_many_connections, have_connected, connect_errors, error, exited, unnoticed,
         was_connected, ever_connected} \subseteq BOOLEAN
    OBVIOUS
  <2> QED
    BY <2>1, <2>2 DEF TypeOK, Booleans, OthersOK
<1>3. Len(<< >>) = 0
  OBVIOUS
<1>4. depth = 0
  BY <1>3 DEF depth
<1> QED
  BY <1>2, <1>4 DEF CallInv, StackInv, SessionInv, OneHandle, Connecting, ResultInv, FinishInv

(* An entry is popped.                                                     *)
LEMMA StartCallInv ==
  ASSUME CallInv, Start
  PROVE  CallInv'
<1> DEFINE a == Call(entries[nth'], \/ entries[nth'] = "quit"
                                    \/ entries[nth'] = "query" /\ ~have_connected)
<1>1. /\ stack = << >> /\ ~LoopEnded /\ nth' = nth + 1 /\ stack' = <<a>>
      /\ UNCHANGED <<session_init, entries, exited, connect_errors, ever_connected, failures>>
      /\ num_tries' = 0 /\ had_too_many_connections' = FALSE
      /\ error' = FALSE /\ applied' = 0 /\ unnoticed' = FALSE
      /\ was_connected' = have_connected
  BY DEF Start, StartConnect, given, connections
<1>2. /\ nth' \in 1 .. Len(entries) /\ Len(entries) \in Nat
      /\ entries[nth'] \in {"query", "quit", "finish"}
  BY <1>1, EntriesType DEF CallInv, TypeOK, LoopEnded
<1>3. /\ a \in Activations /\ a.query = entries[nth'] /\ a.i = 0
      /\ a.pc = "connect" => \/ entries[nth'] = "quit"
                             \/ entries[nth'] = "query" /\ ~have_connected
  BY <1>2, MySQLClientAssumption DEF Call, Activations
<1> HIDE DEF a
<1>4. /\ stack' \in Seq(Activations) /\ stack' # << >>
      /\ depth' = 1 /\ top' = a /\ stack'[1] = a
  <2>1. <<a>> \in Seq(Activations) /\ Len(<<a>>) = 1 /\ <<a>>[1] = a /\ <<a>> # << >>
    BY <1>3
  <2> QED
    BY <1>1, <2>1 DEF depth, top
<1>5. /\ have_connected' \in BOOLEAN /\ inits' \in Nat /\ open_handles' \in Int
      /\ open_handles' = IF have_connected' THEN 1 ELSE 0
      /\ entries[nth'] = "quit" => ~have_connected'
      /\ entries[nth'] # "quit" => UNCHANGED <<have_connected, inits>>
  <2>1. CASE entries[nth'] = "quit"
    <3>1. have_connected' = FALSE /\ have_connected' \in BOOLEAN
      BY <2>1, Zenon DEF Start, disconnect
    <3>2. open_handles' = 0 /\ inits' = 0
      BY <2>1, Types DEF Start, disconnect, CallInv, SessionInv, OneHandle
    <3> QED
      BY <2>1, <3>1, <3>2
  <2>2. CASE entries[nth'] # "quit"
    BY <2>2, Types DEF Start, session, CallInv, SessionInv, OneHandle
  <2> QED
    BY <2>1, <2>2
<1>6. TypeOK'
  <2>1. Booleans'
    BY <1>1, <1>2, <1>4, <1>5, Zenon, Types DEF CallInv, Booleans
  <2>2. OthersOK'
    BY <1>1, <1>2, <1>4, <1>5, Types DEF CallInv, OthersOK
  <2> QED
    BY <2>1, <2>2 DEF TypeOK, Booleans, OthersOK
<1>7. StackInv'
  BY <1>1, <1>2, <1>3, <1>4 DEF CallInv, StackInv, LoopEnded
<1>8. SessionInv'
  <2>1. OneHandle'
    BY <1>1, <1>2, <1>5, <1>7 DEF OneHandle, CallInv, StackInv, LoopEnded
  <2>2. (Connecting => ~have_connected)'
    BY <1>3, <1>4, <1>5 DEF Connecting
  <2>3. (have_connected /\ session_init => inits # 0)'
    BY <1>1, <1>2, <1>5, TopType DEF CallInv, SessionInv, Sending
  <2> QED
    BY <2>1, <2>2, <2>3 DEF SessionInv
<1>9. ResultInv'
  BY <1>1, <1>3, <1>4 DEF ResultInv
<1>10. FinishInv'
  <2>1. entries = <<"finish">> => entries[nth'] = "finish" /\ ~have_connected
    BY <1>2, <1>1 DEF CallInv, FinishInv
  <2> QED
    BY <1>1, <1>3, <1>4, <1>5, <2>1 DEF FinishInv, Connecting
<1> QED
  BY <1>6, <1>7, <1>8, <1>9, <1>10 DEF CallInv

(* run ends, and with it the session.                                      *)
LEMMA ExitCallInv ==
  ASSUME CallInv, Exit
  PROVE  CallInv'
<1> USE DEF CallInv, Exit, disconnect, given, connectVars, result, connections
<1>1. TypeOK'
  <2>1. Booleans'
    BY Zenon, Types DEF Booleans
  <2>2. OthersOK'
    BY Types DEF OthersOK
  <2> QED
    BY <2>1, <2>2 DEF TypeOK, Booleans, OthersOK
<1>2. StackInv'
  BY TopType DEF StackInv, depth, LoopEnded
<1>3. SessionInv'
  BY TopType DEF SessionInv, OneHandle, Connecting, depth, top
<1>4. ResultInv'
  BY DEF ResultInv
<1>5. FinishInv'
  BY TopType DEF FinishInv, depth, Connecting, top
<1> QED
  BY <1>1, <1>2, <1>3, <1>4, <1>5

(* What failed is counted.                                                 *)
LEMMA FailType ==
  ASSUME TypeOK, Fail \/ UNCHANGED failures
  PROVE  failures' \in 0 .. MaxFailures
BY MySQLClientAssumption DEF TypeOK, Fail

(* A connection is made, and the session to be initialised.                *)
LEMMA ConnectOKCallInv ==
  ASSUME CallInv, ConnectOK
  PROVE  CallInv'
<1> USE DEF CallInv
<1>1. /\ depth \in Nat /\ depth > 0 /\ top.pc = "connect" /\ ~have_connected /\ open_handles = 0
      /\ num_tries' = num_tries + 1 /\ had_too_many_connections' = FALSE
      /\ open_handles' = 1 /\ have_connected' = TRUE /\ inits' = 0 /\ ever_connected' = TRUE
      /\ UNCHANGED <<session_init, entries, nth, exited, was_connected, error, applied, unnoticed,
                     connect_errors, failures>>
  BY TopType DEF ConnectOK, Connecting, SessionInv, OneHandle, given, runVars, result
<1> DEFINE c == Call("init", FALSE)
<1>2. /\ stack' \in Seq(Activations) /\ depth' = Len(stack')
      /\ \A k \in 1 .. depth - 1 : stack'[k] = stack[k]
      /\ stack'[depth].query = top.query /\ stack'[depth].i = top.i
      /\ stack'[depth].pc = "send"
      /\ ~session_init => depth' = depth
      /\ session_init => /\ depth' = depth + 1 /\ stack'[depth + 1].query = "init"
                         /\ stack'[depth + 1].pc = "send" /\ stack'[depth + 1].i = 0
  <2>1. c \in Activations /\ c.query = "init" /\ c.pc = "send" /\ c.i = 0
    BY MySQLClientAssumption DEF Call, Activations
  <2> HIDE DEF c
  <2>2. \/ session_init /\ stack' = Append(Connected, c)
        \/ ~session_init /\ stack' = Connected
    BY DEF ConnectOK, InitSession, c
  <2> DEFINE s == Connected
  <2>3. /\ s \in Seq(Activations) /\ Len(s) = depth
        /\ s[depth] = [query |-> top.query, i |-> top.i, pc |-> "send"]
        /\ \A k \in 1 .. depth - 1 : s[k] = stack[k]
    BY <1>1, ConnectedStack
  <2> HIDE DEF s
  <2>4. /\ Append(s, c) \in Seq(Activations) /\ Len(Append(s, c)) = depth + 1
        /\ \A k \in 1 .. depth : Append(s, c)[k] = s[k]
        /\ Append(s, c)[depth + 1] = c
    BY <1>1, <2>1, <2>3
  <2>5. depth' = Len(stack')
    BY DEF depth
  <2>6. CASE session_init
    BY <1>1, <2>1, <2>2, <2>3, <2>4, <2>5, <2>6 DEF s
  <2>7. CASE ~session_init
    BY <1>1, <2>2, <2>3, <2>5, <2>7 DEF s
  <2> QED
    BY <2>6, <2>7
<1>3. TypeOK'
  <2>1. Booleans'
    BY <1>1, <1>2, Zenon, Types DEF Booleans
  <2>2. OthersOK'
    BY <1>1, <1>2, Types DEF OthersOK
  <2> QED
    BY <2>1, <2>2 DEF TypeOK, Booleans, OthersOK
<1>4. StackInv'
  BY <1>1, <1>2, StackKept
<1>5. SessionInv'
  <2>1. top' = stack'[depth'] /\ top'.pc = "send" /\ (session_init => top'.query = "init" /\ top'.i = 0)
    BY <1>1, <1>2 DEF top, depth
  <2>2. ~exited
    BY <1>1, Innermost
  <2> QED
    BY <1>1, <1>2, <2>1, <2>2 DEF SessionInv, OneHandle, Connecting, Sending
<1>6. ResultInv'
  <2>1. stack # << >> /\ stack'[1].query = stack[1].query /\ stack'[1].i = stack[1].i
    BY <1>1, <1>2, TopType DEF top
  <2> QED
    BY <1>1, <2>1 DEF ResultInv
<1>7. FinishInv'
  BY <1>1 DEF FinishInv, Connecting
<1> QED
  BY <1>3, <1>4, <1>5, <1>6, <1>7

(* One is refused, and connect tries again.                                *)
LEMMA ConnectAgainCallInv ==
  ASSUME CallInv, ConnectAgain
  PROVE  CallInv'
<1> USE DEF CallInv
<1>1. /\ depth \in Nat /\ depth > 0
      /\ num_tries' = num_tries + 1 /\ had_too_many_connections' = TRUE /\ connect_errors' = TRUE
      /\ UNCHANGED <<session_init, entries, nth, exited, was_connected, stack, have_connected,
                     open_handles, inits, error, applied, unnoticed, ever_connected>>
  BY TopType DEF ConnectAgain, ConnectFail, Connecting, given, runVars, result
<1>2. failures' \in 0 .. MaxFailures
  BY FailType DEF ConnectAgain, ConnectFail
<1>3. TypeOK'
  <2>1. Booleans'
    BY <1>1, Zenon, Types DEF Booleans
  <2>2. OthersOK'
    BY <1>1, <1>2, Types DEF OthersOK
  <2> QED
    BY <2>1, <2>2 DEF TypeOK, Booleans, OthersOK
<1>4. StackInv'
  BY <1>1 DEF StackInv, depth, LoopEnded
<1>5. SessionInv'
  BY <1>1 DEF SessionInv, OneHandle, Connecting, Sending, top, depth
<1>6. ResultInv'
  BY <1>1 DEF ResultInv
<1>7. FinishInv'
  BY <1>1 DEF FinishInv, ConnectAgain, ConnectFail
<1> QED
  BY <1>3, <1>4, <1>5, <1>6, <1>7

(* One is refused, and connect returns false.                              *)
LEMMA GiveUpCallInv ==
  ASSUME CallInv, GiveUp
  PROVE  CallInv'
<1> USE DEF CallInv
<1>1. PICK too_many \in BOOLEAN : ConnectFail(too_many)
  BY DEF GiveUp
<1>2. /\ depth \in Nat /\ depth > 0 /\ top.pc = "connect" /\ ~have_connected /\ open_handles = 0
      /\ num_tries' = num_tries + 1 /\ had_too_many_connections' = too_many
      /\ connect_errors' = TRUE /\ have_connected' = FALSE
      /\ UNCHANGED <<session_init, entries, nth, exited, was_connected,
                     open_handles, inits, error, applied, unnoticed, ever_connected>>
  BY <1>1, TopType
     DEF GiveUp, ConnectFail, Connecting, SessionInv, OneHandle, given, runVars, result
<1>3. failures' \in 0 .. MaxFailures
  BY <1>1, FailType DEF ConnectFail
<1>4. /\ stack' \in Seq(Activations) /\ depth' = depth /\ depth' = Len(stack')
      /\ stack'[depth] = [query |-> top.query, i |-> top.i, pc |-> "send"]
      /\ \A k \in 1 .. depth - 1 : stack'[k] = stack[k]
  BY <1>2, ConnectedStack DEF GiveUp, depth
<1>5. TypeOK'
  <2>1. Booleans'
    BY <1>1, <1>2, Zenon, Types DEF Booleans
  <2>2. OthersOK'
    BY <1>2, <1>3, <1>4, Types DEF OthersOK
  <2> QED
    BY <2>1, <2>2 DEF TypeOK, Booleans, OthersOK
<1>6. StackInv'
  BY <1>2, <1>4, StackKept
<1>7. SessionInv'
  BY <1>2, <1>4 DEF SessionInv, OneHandle, Connecting, top, depth
<1>8. ResultInv'
  <2>1. stack # << >> /\ stack'[1].query = stack[1].query /\ stack'[1].i = stack[1].i
    BY <1>2, <1>4, TopType DEF top
  <2> QED
    BY <1>2, <2>1 DEF ResultInv
<1>9. FinishInv'
  BY <1>2 DEF FinishInv, Connecting
<1> QED
  BY <1>5, <1>6, <1>7, <1>8, <1>9

(* A query succeeds, and its activation returns.                           *)
LEMMA QueryOKCallInv ==
  ASSUME CallInv, QueryOK
  PROVE  CallInv'
<1> USE DEF CallInv
<1>1. /\ depth \in Nat /\ depth > 0 /\ have_connected /\ stack' = ReturnTo
      /\ UNCHANGED <<session_init, entries, nth, exited, was_connected, have_connected, num_tries,
                     had_too_many_connections, open_handles, connect_errors, ever_connected,
                     failures>>
  BY TopType DEF QueryOK, Sending, given, runVars, connectVars, connections
<1>2. /\ stack' \in Seq(Activations) /\ depth' = depth - 1 /\ depth' = Len(stack')
      /\ \A k \in 1 .. depth - 1 : stack'[k] = stack[k]
  BY <1>1, ReturnStack DEF depth
<1>3. \/ /\ top.query = "query" /\ applied' = applied + 1 /\ inits' = inits /\ depth = 1
         /\ unnoticed' \in BOOLEAN /\ error' = FALSE
      \/ /\ top.query # "query" /\ inits' = inits + 1 /\ depth > 1
         /\ UNCHANGED <<applied, unnoticed, error>>
  <2>1. top.query = "query" => depth = 1
    BY <1>1, Innermost
  <2>2. top.query # "query" => top.query = "init" /\ depth > 1
    BY <1>1, Innermost DEF QueryOK, TryLeft
  <2>3. CASE top.query = "query"
    BY <2>1, <2>3 DEF QueryOK, setError
  <2>4. CASE top.query # "query"
    BY <2>2, <2>4 DEF QueryOK, setError
  <2> QED
    BY <2>3, <2>4
<1>4. TypeOK'
  <2>1. Booleans'
    BY <1>1, <1>3, Zenon, Types DEF Booleans
  <2>2. OthersOK'
    BY <1>1, <1>2, <1>3, Types DEF OthersOK
  <2> QED
    BY <2>1, <2>2 DEF TypeOK, Booleans, OthersOK
<1>5. StackInv'
  BY <1>1, <1>2, StackKept
<1>6. SessionInv'
  <2>1. ~Connecting'
    BY <1>1, <1>2 DEF Connecting, top, StackInv, depth
  <2>2. session_init => inits' # 0
    <3>1. inits \in Nat
      BY Types
    <3>2. top.query = "query" /\ session_init => inits # 0
      BY <1>1 DEF SessionInv
    <3> QED
      BY <1>3, <3>1, <3>2
  <2> QED
    BY <1>1, <2>1, <2>2 DEF SessionInv, OneHandle
<1>7. ResultInv'
  <2>1. CASE depth = 1
    BY <1>1, <2>1, ReturnStack DEF ResultInv
  <2>2. CASE depth > 1
    BY <1>1, <1>2, <1>3, <2>2, TopType DEF ResultInv
  <2> QED
    BY <1>1, <2>1, <2>2
<1>8. FinishInv'
  BY <1>1 DEF FinishInv
<1> QED
  BY <1>4, <1>5, <1>6, <1>7, <1>8

(* A query fails, and its activation connects anew.                        *)
LEMMA QueryFailCallInv ==
  ASSUME CallInv, QueryFail
  PROVE  CallInv'
<1> USE DEF CallInv
<1>1. /\ depth \in Nat /\ depth > 0 /\ TryLeft /\ stack' = NextTry
      /\ num_tries' = 0 /\ had_too_many_connections' = FALSE
      /\ have_connected' = FALSE /\ open_handles' = 0 /\ inits' = 0
      /\ UNCHANGED <<session_init, entries, nth, exited, was_connected, unnoticed,
                     connect_errors, ever_connected>>
  BY TopType DEF QueryFail, Sending, StartConnect, disconnect, SessionInv, OneHandle, given,
     runVars, connections
<1>2. /\ stack' \in Seq(Activations) /\ depth' = depth /\ depth' = Len(stack')
      /\ stack'[depth] = [query |-> top.query, i |-> top.i + 1, pc |-> "connect"]
      /\ \A k \in 1 .. depth - 1 : stack'[k] = stack[k]
  BY <1>1, NextTryStack DEF depth
<1>3. \/ top.query = "query" /\ error' = TRUE /\ applied' \in applied .. applied + 1 /\ depth = 1
      \/ top.query # "query" /\ error' = error /\ applied' = applied /\ depth > 1
  <2>1. top.query # "query" => depth > 1
    BY <1>1, Innermost DEF TryLeft
  <2>2. applied \in Nat
    BY Types
  <2> QED
    <3>1. CASE top.query = "query"
      BY <1>1, <2>2, <3>1, Innermost DEF QueryFail, setError
    <3>2. CASE top.query # "query"
      BY <2>1, <2>2, <3>2 DEF QueryFail, setError
    <3> QED
      BY <3>1, <3>2
<1>4. failures' \in 0 .. MaxFailures
  BY FailType DEF QueryFail
<1>5. TypeOK'
  <2>1. Booleans'
    BY <1>1, <1>3, Zenon, Types DEF Booleans
  <2>2. OthersOK'
    BY <1>1, <1>2, <1>3, <1>4, Types DEF OthersOK
  <2> QED
    BY <2>1, <2>2 DEF TypeOK, Booleans, OthersOK
<1>6. StackInv'
  BY <1>1, <1>2, StackKept
<1>7. SessionInv'
  BY <1>1 DEF SessionInv, OneHandle, Connecting
<1>8. ResultInv'
  <2>1. CASE depth = 1
    <3>1. /\ top = stack[1] /\ stack # << >> /\ applied \in Nat
          /\ stack[1].i \in 0 .. MaxRetries + 1 /\ MaxRetries \in Nat
      BY <1>1, <2>1, TopType, Types, MySQLClientAssumption DEF top
    <3> QED
      BY <1>2, <1>3, <2>1, <3>1 DEF ResultInv
  <2>2. CASE depth > 1
    BY <1>1, <1>2, <1>3, <2>2, TopType DEF ResultInv
  <2> QED
    BY <1>1, <2>1, <2>2
<1>9. FinishInv'
  <2>1. entries = <<"finish">> => depth = 1 /\ entries[nth] = "finish" /\ TryLeft
    BY <1>1, Innermost DEF FinishInv
  <2> QED
    BY <1>1, <2>1, Innermost DEF FinishInv, TryLeft
<1> QED
  BY <1>5, <1>6, <1>7, <1>8, <1>9

(* An activation has run out of tries, or has nothing to send.             *)
LEMMA ReturnCallInv ==
  ASSUME CallInv, Return
  PROVE  CallInv'
<1> USE DEF CallInv
<1>1. /\ depth \in Nat /\ depth > 0 /\ top.pc = "send" /\ ~TryLeft /\ stack' = ReturnTo
      /\ UNCHANGED <<session_init, entries, nth, exited, was_connected, num_tries,
                     had_too_many_connections, have_connected, open_handles, inits, error, applied,
                     unnoticed, connect_errors, ever_connected, failures>>
  BY TopType DEF Return, Sending, given, runVars, connectVars, session, result, connections
<1>2. /\ stack' \in Seq(Activations) /\ depth' = depth - 1 /\ depth' = Len(stack')
      /\ \A k \in 1 .. depth - 1 : stack'[k] = stack[k]
  BY <1>1, ReturnStack DEF depth
<1>3. TypeOK'
  BY <1>1, <1>2 DEF TypeOK
<1>4. StackInv'
  BY <1>1, <1>2, StackKept
<1>5. SessionInv'
  <2>1. ~Connecting'
    BY <1>1, <1>2 DEF Connecting, top, StackInv, depth
  <2>2. have_connected /\ session_init => inits # 0
    BY <1>1, MySQLClientAssumption DEF SessionInv, TryLeft
  <2> QED
    BY <1>1, <2>1, <2>2 DEF SessionInv, OneHandle
<1>6. ResultInv'
  <2>1. CASE depth = 1
    BY <1>1, <2>1, ReturnStack DEF ResultInv
  <2>2. CASE depth > 1
    BY <1>1, <1>2, <2>2, TopType DEF ResultInv
  <2> QED
    BY <1>1, <2>1, <2>2
<1>7. FinishInv'
  <2>1. entries = <<"finish">> => depth' = 0
    BY <1>1, <1>2 DEF FinishInv
  <2> QED
    BY <1>1, <2>1 DEF FinishInv, Connecting
<1> QED
  BY <1>3, <1>4, <1>5, <1>6, <1>7

(* So it holds after every step,                                           *)
LEMMA NextCallInv == CallInv /\ [Next]_vars => CallInv'
<1> SUFFICES ASSUME CallInv, [Next]_vars PROVE CallInv'
  OBVIOUS
<1>1. CASE Thread
  BY <1>1, StartCallInv, ExitCallInv, ConnectOKCallInv, ConnectAgainCallInv, GiveUpCallInv, QueryOKCallInv,
     QueryFailCallInv, ReturnCallInv DEF Thread
<1>2. CASE UNCHANGED vars
  <2>1. UNCHANGED <<session_init, entries, nth, exited, was_connected, stack, num_tries,
                    had_too_many_connections, have_connected, open_handles, inits, error, applied,
                    unnoticed, connect_errors, ever_connected, failures>>
    BY <1>2 DEF vars, given, runVars, connectVars, session, result, connections
  <2> QED
    BY <2>1 DEF CallInv, TypeOK, StackInv, SessionInv, OneHandle, ResultInv, FinishInv,
       Connecting, Sending, top, depth, LoopEnded
<1> QED
  BY <1>1, <1>2 DEF Next, Terminated

(* and in every state: which activations nest, that connect finds nothing  *)
(* to close, that a session not yet initialised is about to be, and that   *)
(* no query was applied more often than it was tried.                      *)
LEMMA Calls == SafeSpec => []CallInv
BY InitCallInv, NextCallInv, PTL DEF SafeSpec

-----------------------------------------------------------------------------
(* Theorems                                                                *)

(* Every variable has its type: the tries are counted no further than      *)
(* MaxRetries + 1.                                                         *)
THEOREM TypeCorrect == SafeSpec => []TypeOK
<1>1. CallInv => TypeOK
  BY DEF CallInv
<1> QED
  BY <1>1, Calls, PTL

(* However execute_query, disconnect and connect_and_init_session nest,    *)
(* there is one handle at most, have_connected tells whether there is, and *)
(* none is left when the thread has ended.                                 *)
THEOREM NoHandleLeaked == SafeSpec => []OneHandle
<1>1. CallInv => OneHandle
  BY DEF CallInv, SessionInv
<1> QED
  BY <1>1, Calls, PTL

(* No query of the log is sent in a session in which the session-init      *)
(* query has not succeeded.                                                *)
THEOREM AlwaysInitialised == SafeSpec => []SentInInitialisedSession
<1>1. CallInv => SentInInitialisedSession
  BY Types DEF CallInv, SessionInv, SentInInitialisedSession
<1> QED
  BY <1>1, Calls, PTL

(* The last activation returns with the answer, or for want of a try.      *)
LEMMA Ending ==
  ASSUME CallInv, Next, stack # << >>, stack' = << >>
  PROVE  (QueryOK \/ Return) /\ depth = 1
<1>1. depth \in Nat /\ depth > 0 /\ Len(<< >>) = 0
  BY TopType DEF CallInv
<1>2. ~Start /\ ~Exit /\ ~ConnectAgain /\ ~UNCHANGED vars
  BY DEF Start, Exit, ConnectAgain, vars
<1>3. /\ Connected \in Seq(Activations) /\ Len(Connected) = depth
  BY <1>1, ConnectedStack DEF CallInv
<1>4. ~ConnectOK
  <2> SUFFICES ASSUME ConnectOK PROVE FALSE
    OBVIOUS
  <2> DEFINE c == Call("init", FALSE)
  <2> HIDE DEF c
  <2>1. stack' = Append(Connected, c) \/ stack' = Connected
    BY DEF ConnectOK, InitSession, c
  <2>2. Append(Connected, c) # << >>
    BY <1>3
  <2> QED
    BY <1>1, <1>3, <2>1, <2>2
<1>5. ~GiveUp
  BY <1>1, <1>3 DEF GiveUp
<1>6. ~QueryFail
  <2> SUFFICES ASSUME QueryFail PROVE FALSE
    OBVIOUS
  <2>1. stack' = NextTry /\ TryLeft
    BY DEF QueryFail
  <2>2. Len(NextTry) = depth
    BY <1>1, <2>1, NextTryStack DEF CallInv
  <2> QED
    BY <1>1, <2>1, <2>2
<1>7. QueryOK \/ Return
  BY <1>2, <1>4, <1>5, <1>6 DEF Next, Thread, Terminated
<1>8. depth = 1
  BY <1>1, <1>7, ReturnStack DEF QueryOK, Return, CallInv
<1> QED
  BY <1>7, <1>8

(* A query that is reported without an error was applied, and no query is  *)
(* applied more often than it may be tried.                                *)
THEOREM ResultOfLastTry == SafeSpec => ReportedAsApplied
<1> DEFINE Reported == depth = 1 /\ top.query = "query" /\ stack' = << >> =>
                         /\ ~error' => applied' > 0
                         /\ applied' <= MaxRetries + 1
<1>1. CallInv /\ [Next]_vars => [Reported]_vars
  <2> SUFFICES ASSUME CallInv, Next, depth = 1, top.query = "query", stack' = << >>
               PROVE  (~error' => applied' > 0) /\ applied' <= MaxRetries + 1
    BY DEF vars
  <2>1. /\ stack # << >> /\ top = stack[1] /\ applied \in Nat /\ applied <= top.i
        /\ top.i > 0 => error
        /\ top.i \in 0 .. MaxRetries + 1 /\ MaxRetries \in Nat
    BY TopType, Types, MySQLClientAssumption DEF CallInv, ResultInv, top
  <2>2. QueryOK \/ Return
    BY <2>1, Ending
  <2>3. CASE QueryOK
    BY <2>1, <2>3 DEF QueryOK, TryLeft
  <2>4. CASE Return
    BY <2>1, <2>4 DEF Return, TryLeft, result
  <2> QED
    BY <2>2, <2>3, <2>4
<1> QED
  BY <1>1, Calls, PTL DEF SafeSpec, ReportedAsApplied

-----------------------------------------------------------------------------
(* MySQLClient implements DBThread.                                        *)

(* Only the thread of test_connect is given a FinishEntry.                 *)
LEMMA FinishOnly ==
  ASSUME TypeOK, NEW n \in 1 .. Len(entries)
  PROVE  /\ entries[n] = "finish" <=> entries = <<"finish">>
         /\ InLog \in Nat
         /\ entries[n] # "finish" => n \in 1 .. InLog
<1>1. Len(entries) \in Nat
  BY EntriesType
<1>2. CASE entries \in Seq({"query", "quit"})
  <2>1. entries[n] \in {"query", "quit"} /\ entries # <<"finish">>
    BY <1>1, <1>2
  <2> QED
    BY <1>1, <2>1 DEF InLog
<1>3. CASE entries = <<"finish">>
  BY <1>1, <1>3 DEF InLog
<1> QED
  BY <1>2, <1>3, ThreadsAssumption DEF TypeOK

(* The entries from n on; the first of them, and the others.               *)
From(n) == [k \in 1 .. Len(entries) - n |-> AsEntry(n + k)]

LEMMA FromType ==
  ASSUME TypeOK, NEW n \in 0 .. Len(entries) - 1
  PROVE  /\ From(n) # << >>
         /\ Head(From(n)) = AsEntry(n + 1)
         /\ Tail(From(n)) = From(n + 1)
<1>1. Len(entries) \in Nat
  BY EntriesType
<1>2. DEFINE E == {AsEntry(k) : k \in 1 .. Len(entries)}
<1>3. From(n) \in Seq(E) /\ Len(From(n)) = Len(entries) - n
  BY <1>1 DEF From
<1>4. From(n + 1) \in Seq(E) /\ Len(From(n + 1)) = Len(entries) - (n + 1)
  BY <1>1 DEF From
<1>5. Head(From(n)) = AsEntry(n + 1) /\ From(n) # << >>
  <2>1. 1 \in 1 .. Len(entries) - n
    BY <1>1
  <2>2. From(n)[1] = AsEntry(n + 1)
    BY <2>1 DEF From
  <2>3. From(n) # << >> /\ Head(From(n)) = From(n)[1]
    BY <1>1, <1>3
  <2> QED
    BY <2>2, <2>3
<1>6. Tail(From(n)) = From(n + 1)
  <2>1. Tail(From(n)) \in Seq(E) /\ Len(Tail(From(n))) = Len(entries) - (n + 1)
    BY <1>1, <1>3
  <2>2. ASSUME NEW k \in 1 .. Len(entries) - (n + 1)
        PROVE  Tail(From(n))[k] = From(n + 1)[k]
    BY <1>1, <1>3, <2>1, <2>2 DEF From
  <2> QED
    BY <1>4, <2>1, <2>2, SeqEqual
<1> QED
  BY <1>5, <1>6

(* Changing a function of a single argument.                               *)
LEMMA Single ==
  ASSUME NEW x, NEW y
  PROVE  [[w \in {1} |-> x] EXCEPT ![1] = y] = [w \in {1} |-> y]
OBVIOUS

(* Popping an entry is DBThread's Pop.                                     *)
LEMMA StartRefines ==
  ASSUME CallInv, Start
  PROVE  D!Pop(1)
<1>1. /\ stack = << >> /\ nth' = nth + 1 /\ stack' # << >> /\ UNCHANGED <<entries, exited>>
      /\ ~LoopEnded /\ was_connected' = have_connected
  BY DEF Start, given
<1>2. /\ nth \in 0 .. Len(entries) - 1 /\ Len(entries) \in Nat /\ ~exited
  BY <1>1, EntriesType DEF CallInv, TypeOK, StackInv, LoopEnded
<1>3. From(nth) # << >> /\ Head(From(nth)) = AsEntry(nth') /\ Tail(From(nth)) = From(nth')
  BY <1>1, <1>2, FromType DEF CallInv
<1> QED
  BY <1>1, <1>2, <1>3, Single DEF D!Pop, From, AsEntry, InLog

(* The end of run is DBThread's Leave.                                     *)
LEMMA ExitRefines ==
  ASSUME CallInv, Exit
  PROVE  D!Leave(1)
<1>1. /\ stack = << >> /\ LoopEnded /\ ~exited /\ exited' = TRUE /\ have_connected' = FALSE
      /\ UNCHANGED <<entries, nth, stack, was_connected>>
  BY DEF Exit, disconnect, given
<1> QED
  BY <1>1, Single DEF D!Leave, AsEntry, InLog, LoopEnded

(* The last activation's return is the end of the entry: of a quit, of a   *)
(* query, or of the FinishEntry.                                           *)
LEMMA EndRefines ==
  ASSUME CallInv, Next, stack # << >>, stack' = << >>
  PROVE  D!Quit(1) \/ D!Execute(1) \/ D!ExecuteFinish(1)
<1>1. /\ UNCHANGED <<entries, nth, exited, was_connected>> /\ ~exited
      /\ have_connected' \in BOOLEAN /\ have_connected' = have_connected
      /\ nth \in 1 .. Len(entries) /\ Len(entries) \in Nat
  <2>1. UNCHANGED <<entries, nth, exited, was_connected, have_connected>>
    BY Ending DEF QueryOK, Return, given, runVars, session
  <2>2. ~exited /\ nth \in 1 .. Len(entries)
    BY TopType, Innermost DEF CallInv
  <2>3. have_connected' \in BOOLEAN
    BY <2>1, Types, Zenon DEF CallInv
  <2> QED
    BY <2>1, <2>2, <2>3, EntriesType DEF CallInv
<1> DEFINE P == [n \in 1 .. InLog |-> IF n < nth \/ (n = nth /\ stack = << >>) THEN 1 ELSE 0]
           L == [n \in 1 .. InLog |-> [thread_id |-> 1, quit |-> entries[n] = "quit"]]
           e == AsEntry(nth)
<1>2. e.shutdown <=> nth = Len(entries)
  BY DEF AsEntry
<1>3. UNCHANGED InLog /\ InLog \in Nat
  BY <1>1, FinishOnly DEF InLog, CallInv
<1>4. D!LoopOrLeave(1)
  BY <1>1, <1>2, Single DEF D!LoopOrLeave, D!NoEntry, AsEntry, InLog
<1>5. UNCHANGED [w \in {1} |-> [n \in 1 .. Len(entries) - nth |-> AsEntry(nth + n)]]
  BY <1>1 DEF AsEntry, InLog
<1>6. CASE entries[nth] = "finish"
  <2>1. entries = <<"finish">> /\ InLog = 0 /\ e.pos = 0 /\ ~was_connected /\ ~have_connected
    BY <1>1, <1>6, FinishOnly DEF AsEntry, InLog, CallInv, FinishInv
  <2>2. UNCHANGED P
    BY <1>3, <2>1
  <2> QED
    <3>1. [w \in {1} |-> have_connected'] = [w \in {1} |-> was_connected]
      <4>1. was_connected \in BOOLEAN /\ have_connected \in BOOLEAN
        BY Types DEF CallInv
      <4>2. was_connected = FALSE /\ have_connected = FALSE
        BY <2>1, <4>1, Zenon
      <4> QED
        BY <1>1, <4>2
    <3> QED
      BY <1>1, <1>4, <1>5, <2>1, <2>2, <3>1 DEF D!ExecuteFinish
<1>7. CASE entries[nth] # "finish"
  <2>1. nth \in 1 .. InLog /\ e.pos = nth /\ nth # 0
    BY <1>1, <1>7, FinishOnly DEF AsEntry, CallInv
  <2>2. P' = [P EXCEPT ![e.pos] = @ + 1]
    <3>1. P[nth] = 0
      BY <1>1, <2>1
    <3>2. P' = [n \in 1 .. InLog |-> IF n < nth \/ n = nth THEN 1 ELSE 0]
      BY <1>1, <1>3
    <3>3. P' = [P EXCEPT ![nth] = 1]
      BY <1>1, <3>2
    <3> QED
      <4> HIDE DEF P, e
      <4>1. [P EXCEPT ![e.pos] = @ + 1] = [P EXCEPT ![nth] = P[nth] + 1]
        BY <2>1
      <4>2. P[nth] + 1 = 1
        BY <3>1
      <4> QED
        BY <3>3, <4>1, <4>2
  <2>3. [w \in {1} |-> have_connected'] = [[w \in {1} |-> was_connected] EXCEPT ![1] = have_connected']
    BY Single
  <2> QED
    BY <1>1, <1>4, <1>5, <2>1, <2>2, <2>3 DEF D!Quit, D!Execute, D!is_quit
<1> QED
  BY <1>6, <1>7

(* Any other step of an activation is none of DBThread's.                  *)
LEMMA NestedRefines ==
  ASSUME CallInv, Next, stack # << >>, stack' # << >>
  PROVE  UNCHANGED D!workerVars
<1>1. UNCHANGED <<entries, nth, exited, was_connected>>
  BY DEF Next, Thread, Start, Exit, Terminated, ConnectOK, ConnectAgain, ConnectFail, GiveUp, QueryOK,
     QueryFail, Return, given, runVars, vars
<1> QED
  BY <1>1 DEF D!workerVars, AsEntry, InLog

(* However execute_query nests and retries, a thread with this client does *)
(* what DBThread has it do: every step of it is one of DBThread::run there *)
(* or none.                                                                *)
THEOREM Refinement == SafeSpec => ImplementsDBThread
<1>1. CallInv /\ [Next]_vars => [D!Run(1)]_(D!workerVars)
  <2> SUFFICES ASSUME CallInv, [Next]_vars
               PROVE  D!Run(1) \/ UNCHANGED D!workerVars
    OBVIOUS
  <2>1. CASE UNCHANGED vars
    BY <2>1 DEF vars, given, runVars, session, D!workerVars, AsEntry, InLog
  <2>2. CASE Next /\ stack = << >>
    <3>1. ~(depth > 0)
      BY <2>2, TopType DEF CallInv
    <3>2. Start \/ Exit \/ UNCHANGED vars
      BY <2>2, <3>1 DEF Next, Thread, Terminated, ConnectOK, ConnectAgain, GiveUp, ConnectFail,
         Connecting, QueryOK, QueryFail, Return, Sending
    <3> QED
      BY <2>1, <3>2, StartRefines, ExitRefines DEF D!Run
  <2>3. CASE Next /\ stack # << >> /\ stack' = << >>
    BY <2>3, EndRefines DEF D!Run
  <2>4. CASE Next /\ stack # << >> /\ stack' # << >>
    BY <2>4, NestedRefines
  <2> QED
    BY <2>1, <2>2, <2>3, <2>4
<1> QED
  BY <1>1, Calls, PTL DEF SafeSpec, ImplementsDBThread

-----------------------------------------------------------------------------
(* How the steps change the stack: the innermost activation has its        *)
(* session, or was refused one,                                            *)
LEMMA ConnectedShape ==
  ASSUME CallInv, depth > 0, stack' = Connected
  PROVE  depth' = depth /\ ~Connecting' /\ top'.i = top.i
<1>1. depth' = Len(stack') /\ top' = stack'[depth']
  BY DEF depth, top
<1> QED
  BY <1>1, ConnectedStack DEF CallInv, Connecting

(* or has one that is to be initialised by another activation;             *)
LEMMA InitShape ==
  ASSUME CallInv, depth > 0, stack' = Append(Connected, Call("init", FALSE))
  PROVE  ~Connecting'
<1> DEFINE c == Call("init", FALSE)
<1>1. c.pc = "send" /\ c \in Activations
  BY MySQLClientAssumption DEF Call, Activations
<1> HIDE DEF c
<1>2. depth' = Len(stack') /\ top' = stack'[depth'] /\ stack' = Append(Connected, c)
  BY DEF depth, top, c
<1>3. Connected \in Seq(Activations) /\ Len(Connected) = depth /\ depth \in Nat
  BY ConnectedStack, TopType DEF CallInv
<1>4. depth' = depth + 1 /\ stack'[depth + 1] = c
  <2> DEFINE s == Connected
             n == depth
  <2> HIDE DEF s, n
  <2>1. s \in Seq(Activations) /\ Len(s) = n /\ n \in Nat
    BY <1>3 DEF s, n
  <2>2. Len(Append(s, c)) = n + 1 /\ Append(s, c)[n + 1] = c
    BY <1>1, <2>1
  <2> QED
    BY <1>2, <2>2 DEF s, n
<1> QED
  BY <1>1, <1>2, <1>4 DEF Connecting

(* it starts its next try with connecting again;                           *)
LEMMA NextTryShape ==
  ASSUME CallInv, depth > 0, TryLeft, stack' = NextTry
  PROVE  depth' = depth /\ top'.i = top.i + 1
<1>1. depth' = Len(stack') /\ top' = stack'[depth']
  BY DEF depth, top
<1> QED
  BY <1>1, NextTryStack DEF CallInv

(* or it returns to one that is sending.                                   *)
LEMMA ReturnShape ==
  ASSUME CallInv, depth > 0, stack' = ReturnTo
  PROVE  depth' = depth - 1 /\ ~Connecting'
<1>1. depth' = Len(stack') /\ top' = stack'[depth']
  BY DEF depth, top
<1>2. /\ Len(ReturnTo) = depth - 1 /\ depth \in Nat
      /\ \A k \in 1 .. depth - 1 : ReturnTo[k] = stack[k] /\ stack[k].pc = "send"
  BY ReturnStack, TopType DEF CallInv, StackInv
<1> QED
  BY <1>1, <1>2 DEF Connecting

-----------------------------------------------------------------------------
(* BoundInv holds at first, and after every step.                          *)
LEMMA InitBoundInv == Init => BoundInv
BY DEF Init, BoundInv, Connecting, depth

LEMMA NextBoundInv ==
  ASSUME CallInv, BoundInv, [Next]_vars
  PROVE  BoundInv'
<1>1. depth \in Nat /\ num_tries \in Nat /\ MaxRetries \in Nat
  BY TopType, MySQLClientAssumption DEF CallInv, TypeOK
<1>2. CASE Start
  <2>1. num_tries' = 0 /\ stack' # << >> /\ Len(stack') = 1
    BY <1>2 DEF Start, StartConnect
  <2> QED
    BY <1>1, <2>1 DEF BoundInv, depth
<1>3. CASE ConnectOK
  <2>1. depth > 0 /\ UNCHANGED session_init
    BY <1>3 DEF ConnectOK, Connecting, given
  <2>2. CASE session_init
    BY <1>3, <2>1, <2>2, InitShape DEF ConnectOK, InitSession, BoundInv
  <2>3. CASE ~session_init
    BY <1>3, <2>1, <2>3, ConnectedShape DEF ConnectOK, InitSession, BoundInv
  <2> QED
    BY <2>2, <2>3
<1>4. CASE ConnectAgain
  <2>1. /\ UNCHANGED <<stack, session_init>>
        /\ num_tries' = num_tries + 1 /\ num_tries' < MaxRetries
    BY <1>4 DEF ConnectAgain, ConnectFail, TryAgain, given
  <2> QED
    BY <1>1, <2>1 DEF BoundInv, Connecting, top, depth
<1>5. CASE GiveUp
  BY <1>5, ConnectedShape DEF GiveUp, ConnectFail, Connecting, given, BoundInv
<1>6. CASE QueryOK \/ Return
  <2>1. depth > 0 /\ stack' = ReturnTo /\ UNCHANGED session_init
    BY <1>6 DEF QueryOK, Return, Sending, given
  <2> QED
    BY <1>1, <2>1, ReturnShape DEF BoundInv
<1>7. CASE QueryFail
  <2>1. /\ depth > 0 /\ TryLeft /\ stack' = NextTry /\ num_tries' = 0
        /\ UNCHANGED session_init
    BY <1>7 DEF QueryFail, Sending, StartConnect, given
  <2> QED
    BY <1>1, <2>1, NextTryShape DEF BoundInv
<1>8. CASE Exit \/ UNCHANGED vars
  <2>1. UNCHANGED <<stack, session_init, num_tries>>
    BY <1>8 DEF Exit, vars, given, connectVars
  <2> QED
    BY <2>1 DEF BoundInv, Connecting, top, depth
<1> QED
  BY <1>2, <1>3, <1>4, <1>5, <1>6, <1>7, <1>8 DEF Next, Thread, Terminated

(* All parts of the inductive invariant together.                          *)
THEOREM Invariance == SafeSpec => []IInv
<1>1. Init => IInv
  BY InitCallInv, InitBoundInv DEF IInv
<1>2. IInv /\ [Next]_vars => IInv'
  BY NextCallInv, NextBoundInv DEF IInv
<1> QED
  BY <1>1, <1>2, PTL DEF SafeSpec

-----------------------------------------------------------------------------
(* How much is left to do.                                                 *)

(* What the steps of the thread use up, the most significant first: the    *)
(* failures that the server may have, if there is a session-init query;    *)
(* the entries, and the end of the thread; whether such a query has to     *)
(* wait for a session; the activations; the tries of the innermost one;    *)
(* whether it connects; and the tries of connect.                          *)
EntriesLeft == Len(entries) - nth + (IF exited THEN 0 ELSE 1)
ToConnect   == IF session_init /\ ~have_connected THEN 1 ELSE 0
TriesLeft   == IF depth > 0 THEN MaxRetries + 1 - top.i ELSE 0
ToSend      == IF Connecting THEN 1 ELSE 0
TimesToCall == IF Connecting THEN MaxRetries - num_tries ELSE 0

Left ==
  <<MaxFailures - failures, EntriesLeft, ToConnect, depth, TriesLeft, ToSend, TimesToCall>>

(* The order of the dictionary.                                            *)
Lower(a, b) == \E k \in 1 .. 7 : a[k] < b[k] /\ \A j \in 1 .. k - 1 : a[j] = b[j]

LessToDo == Left \in [1 .. 7 -> Nat] /\ Lower(Left', Left)

(* The natural numbers have a least one in every set of them.              *)
LEMMA LeastNumber ==
  ASSUME NEW N, N \subseteq Nat, N # {}
  PROVE  \E n \in N : \A m \in N : n <= m
<1>1. PICK n \in N : \A m \in N : <<m, n>> \notin OpToRel(<, Nat)
  BY NatLessThanWellFounded, WFMin
<1>2. \A m \in N : ~ m < n
  BY <1>1 DEF OpToRel
<1> QED
  BY <1>2

(* The lowest element in the order of the dictionary is found place by     *)
(* place.                                                                  *)
LowestUpTo(k, F) ==
  \E a \in F : \A b \in F : \A i \in 1 .. k : ~(b[i] < a[i] /\ \A j \in 1 .. i - 1 : b[j] = a[j])

(* Of those that are lowest up to a place, one is lowest up to the next.   *)
LEMMA NextPlace ==
  ASSUME NEW F, F \subseteq [1 .. 7 -> Nat], NEW k \in 0 .. 6, LowestUpTo(k, F)
  PROVE  LowestUpTo(k + 1, F)
<1>1. PICK a \in F : \A b \in F : \A i \in 1 .. k :
                       ~(b[i] < a[i] /\ \A j \in 1 .. i - 1 : b[j] = a[j])
  BY DEF LowestUpTo
<1> DEFINE G == {b \in F : \A j \in 1 .. k : b[j] = a[j]}
           N == {b[k + 1] : b \in G}
<1>2. PICK c \in G : \A b \in G : c[k + 1] <= b[k + 1]
  <2>1. N \subseteq Nat /\ a[k + 1] \in N
    OBVIOUS
  <2>2. PICK n \in N : \A m \in N : n <= m
    <3> HIDE DEF N
    <3> QED
      BY <2>1, LeastNumber
  <2> QED
    BY <2>2
<1>3. ASSUME NEW b \in F, NEW i \in 1 .. k + 1, b[i] < c[i], \A j \in 1 .. i - 1 : b[j] = c[j]
      PROVE  FALSE
  <2>1. CASE i \in 1 .. k
    BY <1>1, <1>2, <1>3, <2>1
  <2>2. CASE i = k + 1
    <3>1. b \in G
      BY <1>2, <1>3, <2>2
    <3>2. b[k + 1] \in Nat /\ c[k + 1] \in Nat
      BY <1>2
    <3> QED
      BY <1>2, <1>3, <2>2, <3>1, <3>2
  <2> QED
    BY <2>1, <2>2
<1> QED
  BY <1>2, <1>3 DEF LowestUpTo

(* A descent of what is left of the tries, the failures and the entries of *)
(* a thread comes to an end: every set of what may be left has an element  *)
(* than which none in it is lower.                                         *)
LEMMA Descent ==
  ASSUME NEW F, F \subseteq [1 .. 7 -> Nat], F # {}
  PROVE  \E a \in F : \A b \in F : ~Lower(b, a)
<1>1. LowestUpTo(0, F)
  BY DEF LowestUpTo
<1>2. LowestUpTo(1, F) /\ LowestUpTo(2, F) /\ LowestUpTo(3, F)
  BY <1>1, NextPlace, 0 + 1 = 1, 1 + 1 = 2, 2 + 1 = 3
<1>3. LowestUpTo(4, F) /\ LowestUpTo(5, F) /\ LowestUpTo(6, F)
  BY <1>2, NextPlace, 3 + 1 = 4, 4 + 1 = 5, 5 + 1 = 6
<1>4. LowestUpTo(7, F)
  BY <1>3, NextPlace, 6 + 1 = 7
<1> QED
  BY <1>4 DEF LowestUpTo, Lower

(* What is counted, before and after a step.                               *)
LEMMA LeftIs ==
  /\ Left[1] = MaxFailures - failures /\ Left[2] = EntriesLeft /\ Left[3] = ToConnect
  /\ Left[4] = depth /\ Left[5] = TriesLeft /\ Left[6] = ToSend /\ Left[7] = TimesToCall
  /\ Left'[1] = MaxFailures - failures' /\ Left'[2] = EntriesLeft' /\ Left'[3] = ToConnect'
  /\ Left'[4] = depth' /\ Left'[5] = TriesLeft' /\ Left'[6] = ToSend' /\ Left'[7] = TimesToCall'
BY DEF Left

(* Everything that is counted is a natural number.                         *)
LEMMA LeftType ==
  ASSUME IInv
  PROVE  Left \in [1 .. 7 -> Nat]
<1>1. MaxFailures - failures \in Nat
  BY MySQLClientAssumption DEF IInv, CallInv, TypeOK
<1>2. EntriesLeft \in Nat
  BY EntriesType DEF IInv, CallInv, TypeOK, EntriesLeft
<1>3. depth \in Nat /\ TriesLeft \in Nat
  BY TopType, MySQLClientAssumption DEF IInv, CallInv, TriesLeft
<1>4. TimesToCall \in Nat
  BY MySQLClientAssumption DEF IInv, CallInv, BoundInv, TypeOK, TimesToCall
<1>5. ToConnect \in Nat /\ ToSend \in Nat
  BY DEF ToConnect, ToSend
<1> HIDE DEF EntriesLeft, ToConnect, depth, TriesLeft, ToSend, TimesToCall
<1> QED
  BY <1>1, <1>2, <1>3, <1>4, <1>5 DEF Left

(* A step that uses up any of these, and leaves those before it alone.     *)
LEMMA LowerIf ==
  ASSUME NEW k \in 1 .. 7, Left'[k] < Left[k], \A j \in 1 .. k - 1 : Left'[j] = Left[j]
  PROVE  Lower(Left', Left)
BY DEF Lower

(* The next entry, or the end of the thread.                               *)
LEMMA RunLowers ==
  ASSUME IInv, Start \/ Exit
  PROVE  Lower(Left', Left)
<1>1. /\ nth \in Nat /\ Len(entries) \in Nat
  BY EntriesType DEF IInv, CallInv, TypeOK
<1>2. /\ entries' = entries
      /\ \/ nth' = nth + 1 /\ exited' = exited
         \/ nth' = nth /\ ~exited /\ exited'
  BY DEF Start, Exit, given
<1>3. EntriesLeft' < EntriesLeft
  BY <1>1, <1>2 DEF EntriesLeft
<1>4. failures' = failures
  BY DEF Start, Exit
<1> QED
  BY <1>3, <1>4, LeftIs, LowerIf

(* A failure that is counted.                                              *)
LEMMA FailureLowers ==
  ASSUME IInv, session_init, Fail
  PROVE  Lower(Left', Left)
<1>1. MaxFailures - failures' < MaxFailures - failures
  BY MySQLClientAssumption DEF IInv, CallInv, TypeOK, Fail
<1> QED
  BY <1>1, LeftIs, LowerIf

(* The innermost activation returns.                                       *)
LEMMA ReturnLowers ==
  ASSUME IInv, QueryOK \/ Return
  PROVE  Lower(Left', Left)
<1>1. /\ depth > 0 /\ stack' = ReturnTo
      /\ UNCHANGED <<failures, entries, nth, exited, session_init, have_connected>>
  BY DEF QueryOK, Return, Sending, given, runVars, session
<1>2. depth' < depth
  BY <1>1, ReturnShape, TopType DEF IInv, CallInv
<1>3. EntriesLeft' = EntriesLeft /\ ToConnect' = ToConnect
  BY <1>1 DEF EntriesLeft, ToConnect
<1> QED
  BY <1>1, <1>2, <1>3, LeftIs, LowerIf

(* Without a session-init query: connect returns, with or without a        *)
(* session,                                                                *)
LEMMA ConnectLowers ==
  ASSUME IInv, ~session_init, ConnectOK \/ GiveUp
  PROVE  Lower(Left', Left)
<1>1. /\ Connecting /\ depth > 0 /\ stack' = Connected
      /\ UNCHANGED <<failures, entries, nth, exited, session_init>>
  BY DEF ConnectOK, GiveUp, ConnectFail, Fail, InitSession, Connecting, given, runVars
<1>2. depth' = depth /\ ~Connecting' /\ top'.i = top.i
  BY <1>1, ConnectedShape DEF IInv
<1>3. /\ EntriesLeft' = EntriesLeft /\ ToConnect' = ToConnect /\ TriesLeft' = TriesLeft
      /\ ToSend' < ToSend
  BY <1>1, <1>2 DEF EntriesLeft, ToConnect, TriesLeft, ToSend
<1> QED
  BY <1>1, <1>2, <1>3, LeftIs, LowerIf

(* or tries again.                                                         *)
LEMMA AgainLowers ==
  ASSUME IInv, ~session_init, ConnectAgain
  PROVE  Lower(Left', Left)
<1>1. /\ Connecting
      /\ UNCHANGED <<failures, entries, nth, exited, session_init, stack, have_connected>>
      /\ num_tries' = num_tries + 1 /\ num_tries \in Nat
  BY DEF ConnectAgain, ConnectFail, Fail, given, runVars, IInv, CallInv, TypeOK
<1>2. depth' = depth /\ top' = top /\ Connecting' = Connecting
  BY <1>1 DEF depth, top, Connecting
<1>3. /\ EntriesLeft' = EntriesLeft /\ ToConnect' = ToConnect /\ TriesLeft' = TriesLeft
      /\ ToSend' = ToSend /\ TimesToCall' < TimesToCall
  BY <1>1, <1>2, MySQLClientAssumption
     DEF EntriesLeft, ToConnect, TriesLeft, ToSend, TimesToCall
<1> QED
  BY <1>1, <1>2, <1>3, LeftIs, LowerIf

(* With one, there is a session now that there was not.                    *)
LEMMA SessionLowers ==
  ASSUME IInv, session_init, ConnectOK
  PROVE  Lower(Left', Left)
<1>1. /\ ~have_connected /\ have_connected'
      /\ UNCHANGED <<failures, entries, nth, exited, session_init>>
  BY DEF ConnectOK, given, runVars, IInv, CallInv, SessionInv
<1>2. EntriesLeft' = EntriesLeft /\ ToConnect' < ToConnect
  BY <1>1 DEF EntriesLeft, ToConnect
<1> QED
  BY <1>1, <1>2, LeftIs, LowerIf

(* A try fails: a failure is counted, or there was no session to count it  *)
(* in, or there is no session-init query.                                  *)
LEMMA TryLowers ==
  ASSUME IInv, QueryFail
  PROVE  Lower(Left', Left)
<1>1. CASE session_init /\ have_connected
  BY <1>1, FailureLowers DEF QueryFail
<1>2. CASE ~(session_init /\ have_connected)
  <2>1. /\ depth > 0 /\ TryLeft /\ stack' = NextTry
        /\ UNCHANGED <<failures, entries, nth, exited, session_init>>
        /\ have_connected' = FALSE
    BY <1>2 DEF QueryFail, Sending, Fail, disconnect, given, runVars
  <2>2. depth' = depth /\ top'.i = top.i + 1
    BY <2>1, NextTryShape DEF IInv
  <2>3. EntriesLeft' = EntriesLeft /\ ToConnect' = ToConnect
    BY <1>2, <2>1 DEF EntriesLeft, ToConnect
  <2>4. TriesLeft' < TriesLeft
    BY <2>1, <2>2, TopType, MySQLClientAssumption DEF IInv, CallInv, TriesLeft
  <2> QED
    BY <2>1, <2>2, <2>3, <2>4, LeftIs, LowerIf
<1> QED
  BY <1>1, <1>2

(* Every step uses up some of what is left: however the calls nest, the    *)
(* retries of connect, of execute_query and of the session-init query come *)
(* to an end, the last for a server that fails finitely often.             *)
THEOREM Progress == SafeSpec => [][LessToDo]_vars
<1>1. IInv /\ Next => LessToDo \/ UNCHANGED vars
  <2> SUFFICES ASSUME IInv, Next PROVE LessToDo \/ UNCHANGED vars
    OBVIOUS
  <2>1. CASE ConnectAgain \/ GiveUp
    <3>1. Fail
      BY <2>1 DEF ConnectAgain, GiveUp, ConnectFail
    <3> QED
      BY <2>1, <3>1, LeftType, FailureLowers, ConnectLowers, AgainLowers DEF LessToDo
  <2>2. CASE ConnectOK
    BY <2>2, LeftType, SessionLowers, ConnectLowers DEF LessToDo
  <2> QED
    BY <2>1, <2>2, LeftType, RunLowers, ReturnLowers, TryLowers
       DEF LessToDo, Next, Thread, Terminated
<1> QED
  BY <1>1, Invariance, PTL DEF SafeSpec
=============================================================================
