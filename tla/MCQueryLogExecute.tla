-------------------------- MODULE MCQueryLogExecute --------------------------
(***************************************************************************)
(* QueryLogExecute for threads with the queries below, and the program     *)
(* called in the ways below.  The inductive invariant of the proofs is one *)
(* of the invariants to check.                                             *)
(***************************************************************************)
EXTENDS QueryLogExecuteProofs

CONSTANT t1

(* rows is what the log has of the query, and got what the server answers; *)
(* -1 stands for an error.                                                 *)
Q(start_time, query_time, words, rows, got) ==
  [start_time |-> start_time, query_time |-> query_time, words |-> words, rows_sent |-> rows,
   answer |-> [rows_sent |-> IF got = -1 THEN 0 ELSE got, error |-> got = -1]]

(* As the log has been sorted, the queries of a thread are in the order of *)
(* their start times.  A query time of 2 or 3 is more than usleep counts.  *)
Pairs  == {<<Q(0, 1, {"SELECT"}, 1, 1), Q(2, 0, {}, 0, -1)>>,
           <<Q(0, 2, {"UPDATE"}, 0, 0), Q(1, 1, {"INSERT", "SELECT"}, 0, 0)>>}
Single == {<<Q(1, 3, {"SELECT"}, 2, 1)>>, <<Q(3, 0, {}, 0, 1)>>}

MCWork == {[t \in Threads |-> IF t = t1 THEN a ELSE b] : a \in Pairs, b \in Single}

AllReports == {"simple_report", "full_report", "error_report", "query-log-report"}

Called(input, dbclient, accurate, preserve, ignore, active) ==
  [input |-> input, dbclient |-> dbclient, accurate_mode |-> accurate,
   preserve_query_time |-> preserve, ignore_row_result_diffs |-> ignore, active |-> active]

(* A preserved query time only makes a thread late, which in accurate mode *)
(* the clock does too: the two modes are not combined.                     *)
MCConfigs ==
  {Called("query-log", "libmysqlclient", TRUE, FALSE, FALSE, AllReports),
   Called("query-log", "libmysqlclient", FALSE, TRUE, FALSE, AllReports),
   Called("query-log", "libmysqlclient", FALSE, FALSE, TRUE, {"simple_report"}),
   Called("query-log", "null", FALSE, FALSE, FALSE, AllReports \ {"error_report"}),
   Called("general-log", "libmysqlclient", TRUE, TRUE, FALSE, AllReports),
   Called("general-log", "null", FALSE, FALSE, FALSE, AllReports)}
=============================================================================
