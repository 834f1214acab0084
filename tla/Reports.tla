------------------------------- MODULE Reports -------------------------------
(***************************************************************************)
(* The report plugins (percona_playback/simple_report/simple_report.cc,    *)
(* full_report/full_report.cc, error_report/error_report.cc): what their   *)
(* query_execution does with the expected and the actual result of a query *)
(* (percona_playback/query_result.h).  That of query-log-report does       *)
(* nothing: it prints the delay of accurate mode (see QueryLogExecute).    *)
(*                                                                         *)
(* Every database thread calls them.  The counters are atomic and only     *)
(* added to, and they are read by print_report when the threads have been  *)
(* joined; so the additions of one call are one step here.                 *)
(***************************************************************************)
EXTENDS Integers, Sequences, FiniteSets, Functions

CONSTANT Threads  \* the thread ids of the connections, one to a thread

VARIABLES simple_report, full_report, error_report  \* the plugins' counters

reports == <<simple_report, full_report, error_report>>

(* A query is the set of those of these words that it has, in any place;   *)
(* full_report looks for them in this order.                               *)
Keywords == <<"SELECT", "UPDATE", "INSERT", "DELETE", "REPLACE", "DROP">>
Words    == {Keywords[k] : k \in DOMAIN Keywords}

QueryResult == [rows_sent : Nat, error : BOOLEAN, duration : Nat]

ReportsTypeOK ==
  /\ simple_report \in
       [nr_queries_executed : Nat, nr_error_queries : Nat,
        nr_expected_rows_sent : Nat, nr_actual_rows_sent : Nat, nr_queries_rows_differ : Nat,
        total_execution_time : Nat, expected_total_execution_time : Nat,
        nr_quicker_queries : Nat, nr_slower_queries : Nat,
        connection_query_counts : [Threads -> Nat]]
  /\ full_report \in
       [total_execution_time : Nat, expected_total_execution_time : Nat,
        nr : [Words -> Nat], nr_faster : [Words -> Nat], nr_slower : [Words -> Nat]]
  /\ error_report \in
       [total_execution_time : Nat, expected_total_execution_time : Nat, printed : Nat]

ReportsInit ==
  LET zeros == [w \in Words |-> 0]
  IN  /\ simple_report =
           [nr_queries_executed |-> 0, nr_error_queries |-> 0,
            nr_expected_rows_sent |-> 0, nr_actual_rows_sent |-> 0,
            nr_queries_rows_differ |-> 0,
            total_execution_time |-> 0, expected_total_execution_time |-> 0,
            nr_quicker_queries |-> 0, nr_slower_queries |-> 0,
            connection_query_counts |-> [t \in Threads |-> 0]]
      /\ full_report = [total_execution_time |-> 0, expected_total_execution_time |-> 0,
                        nr |-> zeros, nr_faster |-> zeros, nr_slower |-> zeros]
      /\ error_report = [total_execution_time |-> 0, expected_total_execution_time |-> 0,
                         printed |-> 0]

-----------------------------------------------------------------------------
One(condition) == IF condition THEN 1 ELSE 0

(* The time of a query that the log has none of is not compared; one that  *)
(* took as long as in the log was slower.                                  *)
Quicker(expected, actual) == expected.duration # 0 /\ actual.duration < expected.duration
Slower(expected, actual)  == expected.duration # 0 /\ actual.duration >= expected.duration

(* The times are added, that of the log even to no effect when it is 0.    *)
AddTimes(report, expected, actual) ==
  [report EXCEPT !.total_execution_time = @ + actual.duration,
                 !.expected_total_execution_time = @ + expected.duration]

SimpleReport(thread_id, ignore_row_result_diffs, expected, actual) ==
  [AddTimes(simple_report, expected, actual) EXCEPT
     !.nr_queries_executed = @ + 1,
     !.connection_query_counts[thread_id] = @ + 1,
     !.nr_error_queries = @ + One(actual.error),
     !.nr_queries_rows_differ =
       @ + One(~ignore_row_result_diffs /\ actual.rows_sent # expected.rows_sent),
     !.nr_expected_rows_sent = @ + expected.rows_sent,
     !.nr_actual_rows_sent = @ + actual.rows_sent,
     !.nr_quicker_queries = @ + One(Quicker(expected, actual)),
     !.nr_slower_queries = @ + One(Slower(expected, actual))]

(* The first of the words that the query has, if it has any, is counted.   *)
(* A mutant: each of them is.                                              *)
EachWord(query) == query
CountedAs(query) ==
  {Keywords[k] : k \in {k \in DOMAIN Keywords :
     Keywords[k] \in query /\ \A j \in 1 .. k - 1 : Keywords[j] \notin query}}

FullReport(query, expected, actual) ==
  LET Add(counts, n) == [w \in Words |-> counts[w] + (IF w \in CountedAs(query) THEN n ELSE 0)]
  IN  [AddTimes(full_report, expected, actual) EXCEPT
         !.nr = Add(@, 1),
         !.nr_faster = Add(@, One(Quicker(expected, actual))),
         !.nr_slower = Add(@, One(Slower(expected, actual)))]

(* It prints the queries that were slower, and not those as slow as in the *)
(* log.                                                                    *)
ErrorReport(expected, actual) ==
  [AddTimes(error_report, expected, actual) EXCEPT
     !.printed = @ + One(Slower(expected, actual) /\ actual.duration # expected.duration)]

(* query_execution of the reports that are active.                         *)
query_execution(active, ignore_row_result_diffs, thread_id, query, expected, actual) ==
  /\ simple_report' = IF "simple_report" \in active
                      THEN SimpleReport(thread_id, ignore_row_result_diffs, expected, actual)
                      ELSE simple_report
  /\ full_report' = IF "full_report" \in active
                    THEN FullReport(query, expected, actual) ELSE full_report
  /\ error_report' = IF "error_report" \in active
                     THEN ErrorReport(expected, actual) ELSE error_report
=============================================================================
