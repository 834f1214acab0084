---------------------------- MODULE MCMySQLClient ----------------------------
(***************************************************************************)
(* MySQLClient for threads of at most MaxQueue queries and quits, and for  *)
(* the thread of test_connect.                                             *)
(***************************************************************************)
EXTENDS MySQLClientProofs

CONSTANT MaxQueue

PlaybackThreads == UNION {[1 .. n -> {"query", "quit"}] : n \in 1 .. MaxQueue}
TestThreads     == {<<"finish">>}
AllThreads      == PlaybackThreads \cup TestThreads
=============================================================================
