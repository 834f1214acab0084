--------------------------- MODULE QueryLogExecute ---------------------------
(***************************************************************************)
(* QueryLogData::execute (percona_playback/query_log/query_log.cc) and     *)
(* GeneralLogEntry::execute (general_log/general_log_entry.cc): what the   *)
(* database threads do, concurrently, with each query of a log, and what   *)
(* the reports are told of it.                                             *)
(*                                                                         *)
(* In accurate mode a query of a slow query log is held back until its     *)
(* start time in the log, moved by an offset that the first thread to get  *)
(* here determines; and the largest delay is kept in an atomic variable,   *)
(* by a compare-exchange loop.  With --query-log-preserve-query-time a     *)
(* thread that has executed a query sleeps until it has taken as long as   *)
(* it did in the log, if usleep can count that far: its argument is of 32  *)
(* bits.  A query of a general log is sent at once.                        *)
(*                                                                         *)
(* Each thread here serves one connection, as thread-per-connection has    *)
(* it.  Time is counted in units of the log; the clocks of the program all *)
(* read now, and it goes on at any moment.                                 *)
(***************************************************************************)
EXTENDS Reports

CONSTANTS
  Configs,   (* how the program may have been called                       *)
  Work,      (* the queries each thread may get, in order                  *)
  UsecondsRange,  (* the number of values of a useconds_t: 2^32 us, in     *)
                  (* the unit of the clock                                 *)
  MaxNow     (* bounds the clock, while no thread waits for it             *)

Config == [input : {"query-log", "general-log"}, dbclient : {"libmysqlclient", "null"},
           accurate_mode : BOOLEAN, preserve_query_time : BOOLEAN,
           ignore_row_result_diffs : BOOLEAN, active : SUBSET STRING]

(* start_time, query_time and rows_sent are those of the log, and answer   *)
(* is what a MySQL server says to the query.                               *)
Query == [start_time : Int, query_time : Nat, rows_sent : Nat, words : SUBSET Words,
          answer : [rows_sent : Nat, error : BOOLEAN]]

ASSUME WorkAssumption ==
  /\ IsFiniteSet(Threads)
  /\ Configs \subseteq Config
  /\ Work \subseteq [Threads -> Seq(Query)]

ASSUME UsecondsAssumption == UsecondsRange \in Nat \ {0}

VARIABLES  \* the locals are 0 outside their scopes
  config,                   (* the options                                 *)
  work,                     (* the queries each thread gets                *)
  now,
  first_query_exec_offset,  (* the static local: uninitialised, or {n}     *)
  g_max_behind_ns,
  nth,                      (* the query each thread is at                 *)
  time_diff,                (* the locals of each thread                   *)
  current_val,
  wake,                     (* when the sleep of a thread may end          *)
  start,                    (* start_time of the query                     *)
  end,                      (* its end_time                                *)
  pc

options == <<config, work>>
locals  == <<time_diff, current_val, wake, start, end>>
vars    == <<options, now, first_query_exec_offset, g_max_behind_ns, nth, locals, pc, reports>>

Finished(w) == nth[w] > Len(work[w])
query(w)    == work[w][nth[w]]

(* GeneralLogEntry::execute knows neither of these modes.                  *)
g_accurate_mode       == config.accurate_mode /\ config.input = "query-log"
g_preserve_query_time == config.preserve_query_time /\ config.input = "query-log"

TypeOK ==
  /\ config \in Configs /\ work \in Work
  /\ now \in Nat
  /\ first_query_exec_offset \subseteq Int
  /\ Cardinality(first_query_exec_offset) <= 1
  /\ g_max_behind_ns \in Nat
  /\ nth \in [Threads -> Nat]
  /\ \A w \in Threads : nth[w] \in 1 .. Len(work[w]) + 1
  /\ {time_diff, current_val, wake} \subseteq [Threads -> Int]
  /\ {start, end} \subseteq [Threads -> Nat]
  /\ pc \in [Threads -> {"pop", "measure", "cas", "sleep", "send", "preserve"}]
  /\ ReportsTypeOK

Init ==
  /\ config \in Configs /\ work \in Work
  /\ now = 0
  /\ first_query_exec_offset = {}
  /\ g_max_behind_ns = 0
  /\ nth = [w \in Threads |-> 1]
  /\ time_diff = [w \in Threads |-> 0]
  /\ current_val = time_diff /\ wake = time_diff /\ start = time_diff /\ end = time_diff
  /\ pc = [w \in Threads |-> "pop"]
  /\ ReportsInit

-----------------------------------------------------------------------------
(* Time passes.                                                            *)
Tick ==
  /\ now < MaxNow \/ \E w \in Threads : pc[w] \in {"sleep", "preserve"} /\ wake[w] > now
  /\ now' = now + 1
  /\ UNCHANGED <<options, first_query_exec_offset, g_max_behind_ns, nth, locals, pc, reports>>

-----------------------------------------------------------------------------
(* Accurate mode                                                           *)

(* The first thread that gets here initialises the static variable; any    *)
(* other waits for it, or finds it initialised.  A mutant: each of them    *)
(* initialises it.                                                         *)
OffsetOfEach(w) == {now - query(w).start_time}
Offset(w) ==
  IF first_query_exec_offset = {} THEN {now - query(w).start_time} ELSE first_query_exec_offset

Enter(w) ==
  /\ pc[w] = "pop" /\ ~Finished(w)
  /\ g_accurate_mode
  /\ first_query_exec_offset' = Offset(w)
  /\ pc' = [pc EXCEPT ![w] = "measure"]
  /\ UNCHANGED <<options, now, g_max_behind_ns, nth, locals, reports>>

DueTime(w) == query(w).start_time + CHOOSE n \in first_query_exec_offset : TRUE

Measure(w) ==
  /\ pc[w] = "measure"
  /\ time_diff' = [time_diff EXCEPT ![w] = DueTime(w) - now]
  /\ current_val' = [current_val EXCEPT ![w] = g_max_behind_ns]
  /\ pc' = [pc EXCEPT ![w] = "cas"]
  /\ UNCHANGED <<options, now, first_query_exec_offset, g_max_behind_ns, nth, wake, start,
                 end, reports>>

(* The loop has ended: sleep_for, which returns at once if time_diff is    *)
(* not positive.                                                           *)
SleepFor(w) ==
  /\ wake' = [wake EXCEPT ![w] = now + time_diff[w]]
  /\ current_val' = [current_val EXCEPT ![w] = 0]
  /\ pc' = [pc EXCEPT ![w] = "sleep"]

(* The conditions of the loop and of the exchange, and what a failed       *)
(* exchange does.  Mutants: the delay is stored whether it is larger or    *)
(* not, or whether the variable has changed or not; a thread whose         *)
(* exchange fails gives up, or tries again with the value it had.          *)
AlwaysBehind(w) == TRUE
Behind(w)       == current_val[w] < -time_diff[w]

Blindly(w) == TRUE
Matches(w) == g_max_behind_ns = current_val[w]

GiveUp(w)   == SleepFor(w)
NoReload(w) == UNCHANGED <<current_val, wake, pc>>
Reload(w)   == current_val' = [current_val EXCEPT ![w] = g_max_behind_ns] /\ UNCHANGED <<wake, pc>>

casOthers ==
  <<options, now, first_query_exec_offset, nth, time_diff, start, end, reports>>

CasOK(w) ==
  /\ pc[w] = "cas" /\ Behind(w) /\ Matches(w)
  /\ g_max_behind_ns' = -time_diff[w]
  /\ SleepFor(w)
  /\ UNCHANGED casOthers

(* Another thread was first, or compare_exchange_weak failed for no reason *)
CasFail(w) ==
  /\ pc[w] = "cas" /\ Behind(w)
  /\ Reload(w)
  /\ UNCHANGED <<g_max_behind_ns, casOthers>>

NotBehind(w) ==
  /\ pc[w] = "cas" /\ ~Behind(w)
  /\ SleepFor(w)
  /\ UNCHANGED <<g_max_behind_ns, casOthers>>

-----------------------------------------------------------------------------
sendOthers ==
  <<options, now, first_query_exec_offset, g_max_behind_ns, nth, time_diff, current_val, reports>>

(* The query is sent; sleep_for may return later than asked.               *)
Send(w) ==
  /\ \/ pc[w] = "pop" /\ ~Finished(w) /\ ~g_accurate_mode
     \/ pc[w] = "sleep" /\ now >= wake[w]
  /\ start' = [start EXCEPT ![w] = now]
  /\ wake' = [wake EXCEPT ![w] = 0]
  /\ pc' = [pc EXCEPT ![w] = "send"]
  /\ UNCHANGED <<end, sendOthers>>

(* How long to sleep so that the time of the query is preserved; usleep   *)
(* takes what is left of it when the upper bits are cut off.  A mutant:    *)
(* the comparison of the two durations is the wrong way round.             *)
LongerSleep(w, length) ==
  IF g_preserve_query_time /\ query(w).query_time < length
  THEN (length - query(w).query_time) % UsecondsRange ELSE 0

us_sleep_time(w, length) ==
  IF g_preserve_query_time /\ query(w).query_time > length
  THEN (query(w).query_time - length) % UsecondsRange ELSE 0

(* The answer; then the usleep.                                            *)
Answer(w) ==
  /\ pc[w] = "send"
  /\ end' = [end EXCEPT ![w] = now]
  /\ wake' = [wake EXCEPT ![w] = now + us_sleep_time(w, now - start[w])]
  /\ pc' = [pc EXCEPT ![w] = "preserve"]
  /\ UNCHANGED <<start, sendOthers>>

-----------------------------------------------------------------------------
(* A general log has neither the times nor the rows of its queries.        *)
expected_result(q) ==
  IF config.input = "query-log"
  THEN [rows_sent |-> q.rows_sent, error |-> FALSE, duration |-> q.query_time]
  ELSE [rows_sent |-> 0, error |-> FALSE, duration |-> 0]

(* The null client answers what is expected.                               *)
execute_query(q) ==
  IF config.dbclient = "null"
  THEN [rows_sent |-> expected_result(q).rows_sent, error |-> FALSE] ELSE q.answer

result(q, length) ==
  [rows_sent |-> execute_query(q).rows_sent, error |-> execute_query(q).error,
   duration |-> length]

(* The length of the time_period, known before the sleep.                  *)
duration(w) == end[w] - start[w]

Report(w) ==
  /\ pc[w] = "preserve" /\ now >= wake[w]
  /\ query_execution(config.active, config.ignore_row_result_diffs, w, query(w).words,
                     expected_result(query(w)), result(query(w), duration(w)))
  /\ nth' = [nth EXCEPT ![w] = @ + 1]
  /\ time_diff' = [time_diff EXCEPT ![w] = 0]
  /\ wake' = [wake EXCEPT ![w] = 0]
  /\ start' = [start EXCEPT ![w] = 0]
  /\ end' = [end EXCEPT ![w] = 0]
  /\ pc' = [pc EXCEPT ![w] = "pop"]
  /\ UNCHANGED <<options, now, first_query_exec_offset, g_max_behind_ns, current_val>>

-----------------------------------------------------------------------------
execute(w) ==
  \/ Enter(w) \/ Measure(w) \/ CasOK(w) \/ CasFail(w) \/ NotBehind(w)
  \/ Send(w) \/ Answer(w) \/ Report(w)

AllFinished == \A w \in Threads : Finished(w)

Done == AllFinished /\ UNCHANGED vars

Next == (\E w \in Threads : execute(w)) \/ Tick \/ Done

(* Every thread is scheduled, time passes, and compare_exchange_weak does  *)
(* not fail for no reason forever.                                         *)
Spec ==
  /\ Init /\ [][Next]_vars
  /\ WF_vars(Tick)
  /\ \A w \in Threads : WF_vars(execute(w)) /\ SF_vars(CasOK(w))

-----------------------------------------------------------------------------
(* Accurate mode never sends a query before it is due: before its start   *)
(* time in the log, moved by the offset that one thread determined,        *)
(* whichever came first, and however late the others took notice of it.    *)
NeverEarly ==
  \A w \in Threads : g_accurate_mode /\ pc[w] = "send" => start[w] >= DueTime(w)

(* The delay that the report shows covers what each thread has measured,   *)
(* as soon as it is out of the compare-exchange loop.                      *)
DelayCovered ==
  \A w \in Threads : pc[w] # "cas" => g_max_behind_ns >= -time_diff[w]

(* The loop is an atomic maximum: the step in which a thread leaves it     *)
(* makes the delay the larger of what it was and of what the thread has    *)
(* measured, whatever the other threads have stored since the thread read  *)
(* it; and nothing else ever changes it.                                   *)
Leaves(w) == pc[w] = "cas" /\ pc'[w] # "cas"
LargerDelay(w) ==
  IF -time_diff[w] > g_max_behind_ns THEN -time_diff[w] ELSE g_max_behind_ns

DelayIsMaximum ==
  [][/\ \A w \in Threads : Leaves(w) => g_max_behind_ns' = LargerDelay(w)
     /\ g_max_behind_ns' # g_max_behind_ns => \E w \in Threads : Leaves(w)]_vars

(* --query-log-preserve-query-time: a thread is done with a query, and may *)
(* go on to the next, no sooner than the query's time in the log, if       *)
(* usleep can count what was left of it when the answer came.  But what is *)
(* reported of the query is how long the answer took: the sleep, which is  *)
(* over by then, is no part of it.                                         *)
Countable(w) == query(w).query_time - duration(w) < UsecondsRange

TimeAdded == simple_report'.total_execution_time - simple_report.total_execution_time

QueryTimePreserved ==
  [][\A w \in Threads : nth'[w] # nth[w] =>
       /\ g_preserve_query_time /\ Countable(w) => now - start[w] >= query(w).query_time
       /\ "simple_report" \in config.active => TimeAdded = duration(w)]_vars

(* What has been reported, and which queries of it the log has a time of.  *)
reported == UNION {{<<w, n>> : n \in 1 .. nth[w] - 1} : w \in Threads}
q(x)     == work[x[1]][x[2]]
timed    == {x \in reported : config.input = "query-log" /\ q(x).query_time # 0}

(* What simple_report prints agrees with the log: each connection has its  *)
(* queries; those that were quicker or slower are all that the log has a   *)
(* time of, none of a general log; when all of them were quicker the time  *)
(* spent is less than the expected time; and queries whose rows all agree  *)
(* have as many rows as expected.                                          *)
SimpleReportAgrees ==
  LET r == simple_report
  IN  /\ \A w \in Threads : r.connection_query_counts[w] = nth[w] - 1
      /\ r.nr_queries_executed = SumFunction(r.connection_query_counts)
      /\ r.nr_quicker_queries + r.nr_slower_queries = Cardinality(timed)
      /\ r.nr_quicker_queries = r.nr_queries_executed /\ r.nr_queries_executed > 0 =>
           r.total_execution_time < r.expected_total_execution_time
      /\ r.nr_queries_rows_differ = 0 /\ ~config.ignore_row_result_diffs =>
           r.nr_expected_rows_sent = r.nr_actual_rows_sent
      /\ r.nr_error_queries > 0 => \E x \in reported : q(x).answer.error
      /\ config.dbclient = "null" => r.nr_error_queries = 0 /\ r.nr_queries_rows_differ = 0

(* And the other reports agree with it: full_report counts every query     *)
(* that has one of its keywords once, under one that it has, and splits    *)
(* them as simple_report does; error_report shows no query that            *)
(* simple_report does not count as slower; the times are the same.         *)
ReportsAgree ==
  LET with(words) == {x \in reported : q(x).words \cap words # {}}
      times(r)    == <<r.total_execution_time, r.expected_total_execution_time>>
      f           == full_report
  IN  /\ "simple_report" \in config.active => SimpleReportAgrees
      /\ "full_report" \in config.active =>
           /\ \A k \in Words : /\ f.nr[k] <= Cardinality(with({k}))
                               /\ f.nr_faster[k] + f.nr_slower[k] <= f.nr[k]
           /\ SumFunction(f.nr) = Cardinality(with(Words))
           /\ SumFunction(f.nr_faster) + SumFunction(f.nr_slower) =
                Cardinality(with(Words) \cap timed)
      /\ {"simple_report", "full_report"} \subseteq config.active =>
           /\ times(full_report) = times(simple_report)
           /\ SumFunction(f.nr_faster) <= simple_report.nr_quicker_queries
           /\ SumFunction(f.nr_slower) <= simple_report.nr_slower_queries
      /\ {"simple_report", "error_report"} \subseteq config.active =>
           /\ times(error_report) = times(simple_report)
           /\ error_report.printed <= simple_report.nr_slower_queries

(* Every query is executed and reported.                                   *)
Termination == <>AllFinished
=============================================================================
