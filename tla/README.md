# percona-playback: a verification development

`percona-playback` reads a MySQL query log (a slow query log or a general log)
and plays its queries back against a server, with one thread per recorded
connection or with a pool of threads, and reports how they performed.

This directory holds TLA+ modules translated from its source, TLC
configurations that check them on small instances, and modules of theorems
that TLAPS proves for every instance. Paths below are relative to the root of the
repository; `pp/` stands for `src/percona_playback/`.

1. [The system](#1-the-system)
2. [Modules](#2-modules)
3. [Runs: what is checked, with which bounds](#3-runs)
4. [Fairness](#4-fairness)
5. [Theorems](#5-theorems)
6. [What is only model-checked](#6-what-is-only-model-checked)
7. [What is not modelled](#7-what-is-not-modelled)
8. [Disagreements with comments and documents](#8-disagreements-with-comments-and-documents)
9. [Plan](#9-plan)

To check everything:

    tlc -workers 2 -config TPC.cfg MCThreadPerConnection.tla    # and the others of section 3
    for m in *Proofs.tla; do tlapm $m; done

## 1. The system

### Components

| component | source | state | operations |
|---|---|---|---|
| driver | `pp/percona_playback.cc`, `src/bin/percona_playback.cc` | the selected plugin of each kind, the plugins' active flags, the exit status | `percona_playback_argv` (load, parse, select, disable, `processOptions` of every plugin), `percona_playback_run` |
| input plugin: slow query log | `pp/query_log/query_log.cc` | the mapped text, the deque of entries, the options of sorting, accuracy and query times; at execution, the offset of the first query and the maximal delay, shared by all threads | `getEntries`, `QueryLogData::execute`, `LogReaderThread`, `QueryLogPlugin::run` |
| input plugin: general log | `pp/general_log/` | the open file, the vector of entries and the position in it | `ParseGeneralLog::getEntries`, `setShutdownOnLastQueryOfConn`, `popEntry`, `GeneralLogEntry::execute`, `GeneralLogPlugin::run` |
| entries | `pp/query_entry.h`, `pp/query_log/query_log.h` | thread id, shutdown mark, text | `popEntry`, `setShutdownOnLastQueryOfConn`, `is_quit`, `FinishEntry` |
| dispatcher: thread per connection | `pp/thread_per_connection/` | table from thread id to database thread, number of running threads | `dispatch`, `finish_some_and_go`, `finish_all_and_wait` |
| dispatcher: thread pool | `pp/thread_pool/` | vector of database threads | `run`, `dispatch`, `finish_all_and_wait` |
| database threads | `pp/db_thread.{h,cc}` | a bounded queue of entries, the entry in hand | `run`, `start_thread`, `join`, `nonblocking_join` |
| database plugin: libmysqlclient | `pp/mysql_client/` | the handle, whether it is connected, the shared count of connection errors | `connect`, `disconnect`, `execute_query`, `init_session`, `run`, `test_connect` |
| database plugin: null | `pp/null_dbclient/` | none | answer what the log expects |
| reports | `pp/simple_report/`, `pp/full_report/`, `pp/error_report/`, `pp/query_result.h` | atomic counters and sums | `query_execution`, `print_report` |
| plugin registry | `pp/plugin.{h,cc}`, `pp/tokenize.h` | maps of plugins by name | `load_plugin`, `add` |

### How they interact

    driver --run--> dispatcher            (thread pool: starts its workers)
    driver --run--> input plugin --> log reader thread:
        getEntries(text)  -> entries, sorted
        dispatcher.dispatch(entries) --push--> queue of a database thread   (blocks if full)
        dispatcher.finish_all_and_wait() --join--> database threads
    database thread: pop -> disconnect and reconnect (a quit)
                         -> entry.execute -> execute_query -> server
                                          -> query_execution of each report
    driver joins all that, unmaps the text, prints the reports

Between the log reader thread and the database threads there are the queues
(push blocks when full, pop when empty), the shutdown mark that an entry carries,
and the join. Between database threads there are only atomics: the maximal delay, a
static local that the first to reach it initialises, the counters of the
reports, and the count of connection errors.

### What is hard, and what makes each part correct

* **Dispatching.** Entries of one connection must be performed exactly once
  and in order, although they go through a queue to a thread that ends itself
  after the entry with the shutdown mark; the thread must still be there for
  every entry pushed to it; the table is swept and shrinks in the middle of
  `dispatch`, while `dispatch` holds a reference into it; when
  `finish_all_and_wait` returns, the text of the log is unmapped, so that nothing may
  be left running. The limit of 10000 threads can block for ever, and it should be known when.
* **The database client.** `execute_query`, `connect`, `disconnect` and
  `init_session` call each other recursively and each step may fail. There must
  never be two handles nor a forgotten one, a query must not be sent in a
  session that was not initialised, what is reported must be what happened, the retries must
  be bounded, and the thread around all that must perform each entry once.
* **Reading the log.** A line is read ahead and belongs to the next block;
  start times are moved so that a sort of all queries by them keeps each
  connection's order; accurate mode may switch itself off in the middle; the text
  that is sent is cut out of the lines of a block. In a general log an entry is one
  line, whose last character is taken for its newline.
* **Executing.** The first thread decides the offset for all; the maximal
  delay is updated by a compare-exchange loop; durations are measured between
  two sleeps, of which the second is limited by the width of `usleep`'s argument; all threads add to the counters of three reports, which each compare
  expected and actual results in a way of their own.
* **The driver.** Every loaded plugin checks the options against whether it
  was selected; whatever is misspelt, missing in the build or fails to load must end
  the program before anything is replayed; the text's life must cover the replay.

`PROJECT.json` lists the hazards line by line, with the properties that cover
each, and says why where there is none.

## 2. Modules

    QueryEntry ---+--- Replay                       (the abstract specification)
                  |       ^ implemented by
                  +--- DBThread --+-- ThreadPerConnection
                  |               +-- ThreadPool
                  |               +-- MySQLClient    (an instance: one thread implements DBThread)
                  +--- Playback    (the driver, over Replay)
                  +--- GeneralLog  (an instance: what a general log hands to a dispatcher)
    QueryLog         (text -> sorted entries, the text of each)
    Reports ------ QueryLogExecute  (inside the database threads: what DBThread's "execute" abstracts)

Each of the seven that has runs is accompanied by two more modules, here with the names of `ThreadPool`'s:

    ThreadPool --- ThreadPoolProofs --- MCThreadPool
                   (IInv, theorems for  (values of the constants, for TLC)
                    all constants)

`DBThreadProofs` holds the lemmas on database threads that both dispatchers' proofs use.

The properties are stated in the module that they are about, and the inductive
invariant `IInv` in the `Proofs` module, which the `MC` module extends, so that TLC checks the one the proofs use. Mutated
versions of some operators stand before them, with "A mutant" in their comment:
the bug that the property named in `PROJECT.json` would catch. They are not part of any specification.

**QueryEntry** – the log is a sequence of `[thread_id, quit]`, and an entry is
its position in it plus the shutdown mark. `LastQueries` is
`setShutdownOnLastQueryOfConn`; `FinishEntry` is an entry outside the log.

**Replay** – what any dispatcher promises: each entry is performed once, after the
earlier ones of its connection, and it returns when all have been. Nothing is
said of the order between connections, as `docs/source/known_issues.rst` warns.

**DBThread** – the state of all database threads, as functions of the thread:
`queries` (bounded by `QueueDepth`), `query` in hand, where the thread is, `connected`,
and the history variable `performed`. `Pop`, `Quit`, `Execute`,
`ExecuteFinish` and `Leave` are the steps of `DBThread::run`; `PushQuery`,
`StartThread` and `JoinThread` are what a dispatcher does to a thread.
`LoopOrLeave` is the loop's condition, which the `continue` of the quit branch
also evaluates. Whether a connection is there after an entry is left open.

**ThreadPerConnection** – `dispatch` step by step: `PopEntry` (with the null pointer
that `executors[thread_id]` inserts), `Sleep`, the sweep one key at a time
(`TryJoin` erases and counts down, `SkipJoin`, `EndSweep`), `Create`, `Push`;
then `Join` for each key, and `Return`. The table maps an id to `"absent"`,
`"null"` or `"thread"`; `unvisited` is what the iterator has still to visit, in any
order, since the table is hashed. `nonblocking_join` waits 1 ms, so that it fails only while the thread
runs.

**ThreadPool** – `StartWorker` for each worker before there is any entry,
`PopEntry` and `Push` to `WorkerOf[thread_id]` (any function: the crc32 modulo the
number of workers), then `PushFinish` to each, `Join` each, and `Clear`, which deletes them.

**MySQLClient** – one `MySQLDBThread` from its start to its end, against a server that may
refuse a connection or fail a query at any moment, having applied it or not. `stack` is
the C++ call stack of `execute_query` activations: connecting with a session-init query
pushes one, and after every failed try `execute_query` disconnects and connects again. The
result of `usleep` is part of the condition of `connect`'s loop, as in the code: 0, or -1
for an interrupted sleep. `Start` takes the next entry as `DBThread::run` does, and the
instance `D` at the end of the module reads the thread as `DBThread` has it: an
entry is in its "perform" place while any activation is left, and `connected` is seen only
between entries, as `DBThread` leaves open what happens to it. `test_connect` is a thread whose
queue holds just the `FinishEntry`. `unnoticed` remembers that a statement of the query
after its first has failed: the loop over the results ends then as it does at their end.

**QueryLog** – `getEntries` on a text whose lines are given by their kind and
the numbers parsed from them. `SkipLine`, `TimeLine`, `StartBlock`, `BlockLine`
and `EndBlock` are its reading loop with the line read ahead; `Adjust` moves one start
time; `Sort` is `std::stable_sort`. `getQuery` gives the lines of an entry that are sent: administrator
commands, the server's and a client's SET timestamp, and banners are kinds of their own for its
sake. A number that a line does not have is `Absent`; one that is there counts even if it is 0, as in `parseThreadId` and
`parseQueryTime`. The reference definitions at the end (`Starts`, `BlockOf`, `TimeOf`,
`Queries`, `Leading`) say what the blocks of a text are without reading it line by line,
and the properties compare the two.

**GeneralLog** – the reader thread of the general-log plugin: `QueryLine` makes an entry of a line that
has the form of a query's, `Mark` is one step of the walk that sets the shutdown marks,
and `popEntry` is what a dispatcher calls. A line is what `getEntries` and the
regular expression see of it; a query's further lines do not have the form and are dropped. The
instance `Q` of `QueryEntry` has the same log as the dispatchers have it.

**Reports** – `query_execution` of `simple_report`, `full_report` and `error_report` with all they count and add
up. The keywords that `full_report` looks for are a set of words, as it finds them anywhere in a query,
and it counts the first of its own order. All that one call adds is one step, which is a reduction: in the code each addition is
an atomic operation of its own, but nothing reads a counter before the threads have been joined, and additions commute.

**QueryLogExecute** – `QueryLogData::execute` in several threads with a clock: the
static offset (`Enter`), the measurement, the compare-exchange loop on
`g_max_behind_ns` (with spurious failures), the sleep, the query, the sleep that
preserves the query time, and the reports. `UsecondsRange` is the number of values of a `useconds_t`, 2^32 microseconds: `us_sleep_time`
is what that sleep has left of the 64 bits it is computed in. `GeneralLogEntry::execute` is the same without the two
modes, with an expected result of zeros; the null client is one that answers what is expected. How the program was called
(input, client, modes, active reports) is the variable `config`.

**Playback** – loading the libraries, one step each, any of which may abort the program; then the command line by
what `percona_playback_argv` and the plugins' `processOptions` look at. An option is known only if its
plugin is loaded; `count` and `defaulted` are those of
boost's `vm`, where an option with a default value counts as given. One option stands for
all that are treated alike. After it the
run: dispatcher, opening the log (which may fail), the replay (an instance of
`Replay`, hence either dispatcher), joining, unmapping, reports, exit.

## 3. Runs

| run | module, cfg | checks | shows |
|---|---|---|---|
| `tpc` | MCThreadPerConnection, TPC.cfg | `IInv`, `NumRunningExact`, `PushReachesThread`, `ReferenceValid`, `NothingLeftRunning`, `ImplementsReplay`, `JoinedForGood`, `Termination`, `StuckOtherwise` | Thread-per-connection implements `Replay`; no push goes to a thread that is ending; the reference survives the sweeps; it terminates exactly if no more connections are open at the first query of another than the limit lets run. |
| `pool` | MCThreadPool, Pool.cfg | `IInv`, `NothingBehindFinish`, `WorkerInLogOrder`, `NothingLeftRunning`, `ImplementsReplay`, `Termination` | The pool implements `Replay` too, keeps the log's order in each worker, whichever connections share it, and always terminates. |
| `client` | MCMySQLClient, Client.cfg | `IInv`, `OneHandle`, `SentInInitialisedSession`, `ReportedAsApplied`, `ImplementsDBThread`, `Termination` | However the calls nest and fail, handles are neither leaked nor closed twice, queries are sent in initialised sessions, the reported result is the last try's, the thread performs its entries as `DBThread` has it, and it ends. |
| `query_log` | MCQueryLog, QueryLog.cfg | `IInv`, `EntriesExact`, `StartTimesAdjusted`, `ConnectionOrderKept`, `SortedAsAsked`, `LinesSentOnce` | The entries are exactly the log's queries, and so are the counts; the start times are moved no further than needed; sorting never swaps two queries of a connection; every line of a query is sent once, and no other line. |
| `general_log` | MCGeneralLog, GeneralLog.cfg | `IInv`, `HandsOverQueries` | The dispatcher pops exactly the lines of queries, in order, whole but for a last one without a newline, which loses a character; the marks are on the last of each connection. |
| `execute` | MCQueryLogExecute, Execute.cfg | `IInv`, `NeverEarly`, `DelayCovered`, `ReportsAgree`, `DelayIsMaximum`, `QueryTimePreserved`, `Termination` | No query is sent early; no racing update of the maximal delay is lost; a query takes its time in the log, if `usleep` can count what is left of it, and is reported without that sleep; the counters and sums of the reports agree with the log and each other, for either kind of log and either client. |
| `playback` | MCPlayback, Playback.cfg | `IInv`, `OneOfEach`, `OptionsUsed`, `ReportsComplete` | A run starts only with one plugin of each kind and with options that are used; the text outlives the replay, and reports follow a complete one; an error exit has replayed nothing. |
| `quit` | MCThreadPerConnection, TPCQuit.cfg | `QuitClosesConnection` | violated, section 8 |
| `connect_retry` | MCMySQLClient, ClientConnectRetry.cfg | `ConnectUntilExhausted` | violated |
| `multi_statement` | MCMySQLClient, ClientMultiStatement.cfg | `ErrorsReported` | violated |
| `test_connect` | MCMySQLClient, ClientTestConnect.cfg | `TestConnectConnects` | violated |
| `disable_report` | MCPlayback, PlaybackDisable.cfg | `CanBeDisabled` | violated |

`IInv` contains the module's `TypeOK`, and is the inductive invariant that section 5 proves: TLC checks it on the same
instances as the properties that follow from it.

### Bounds, and why they are enough

* `tpc`: every log of up to `MaxLog = 4` entries of three connections, quits
  included for one of them, and the nine logs `c1 c2 c3 x y` of five. `MaxRunning` is 1,
  so that two threads may run and a third must wait: three connections are the
  fewest that make `dispatch` sleep, and the logs of five contain those where it is
  woken by one thread or the other (`x`, `y` leave one connection closed)
  and those where it never is (`c1 c2 c3 c1 c2`, where both are still open). `QueueDepth = 2` lets
  a push block, as well as find the queue partly filled.
* `pool`: two workers, the first of which serves two of the three connections;
  `QueueDepth = 1`, so that nearly every push blocks, that of `FinishEntry` too.
* `client`: every thread of up to `MaxQueue = 3` queries and quits, and that of `test_connect`;
  `MaxRetries = 2`. Without a session-init query
  failures are unlimited. With one, the calls nest as often as the server fails,
  and `MaxFailures = 5` bounds that: enough for one activation to use up its
  tries within another that then goes on.
* `query_log`: every text of up to `MaxParts = 4` parts, a part being a group of lines
  that logs have together (see `MCQueryLog`), with two connections, times in and out of
  order, unparsable times, quits and other commands, blocks without a query, a log that starts in the middle of
  an entry, and a restarted server's banner. A block of several parts may have a second `Thread_id` or `Query_time` behind one of 0.
* `general_log`: every text of up to `MaxLines = 4` lines of two connections, other lines, banners and comments,
  with and without a newline at its end, for a dispatcher that sets the marks and for one that does not. Three lines
  make a connection whose last query lies between those of another.
* `execute`: two threads, one with two queries, with several start and query times, keywords, rows and errors;
  six ways of calling the program; the clock is bounded by `MaxNow = 3` unless a thread waits for it to advance. With `UsecondsRange = 2`
  the query times of 2 and 3 lose all or a part of their sleep if the answer comes at once, and none of it if it comes later; the query time of 1 never does.
* `playback`: four builds (all libraries, no MySQL client, no client at all, neither the slow query log nor the
  pool), three values for
  each selection (absent, valid, unknown or of another kind), every set of at most two options of plugins, reports to
  disable, help and version. Two options are enough for a plugin's own conflict and for one between two plugins. Two
  logs: an empty one, and one of two connections.

Deadlock is checked in every run: each specification has a step
(`Terminated`, `Done`, `Exited`) for its proper end only. No symmetry is used,
as the liveness properties exclude it.

## 4. Fairness

* Weak fairness of the dispatcher and of each database thread: they are
  operating system threads that nothing suspends. A thread in `execute_query` is taken to
  get an answer eventually: libmysqlclient has its timeouts, and a server
  that never answers would hold the playback up for ever, in the code as well. `push` and `pop` block as
  long as the queue is full or empty; that is the actions' guards.
* `QueryLogExecute`: weak fairness of time and of each thread, and strong fairness of the successful
  compare-exchange. `compare_exchange_weak` may fail spuriously, but not for ever
  on any hardware; interference by other threads needs no assumption, since
  the delay grows with each success.
* `MySQLClient`: weak fairness of the thread; the server's answers are part of its
  steps and any sequence of failures is allowed. `Termination` needs no assumption on the server without a session-init
  query; with one it holds for a server that fails finitely often (section 8).
* `QueryLog`, `GeneralLog` and `Playback` are sequential, with weak fairness so that they go on at all; their
  properties are safety properties.

## 5. Theorems

Every safety property of the passing runs is a theorem: it holds for every
value of the constants that the named assumptions of the modules allow. TLC evaluates each assumption in the runs of its
module. Few of these properties are inductive as they stand, and each module's theorems follow from one
inductive invariant, `IInv`, by the same three steps: `InitIInv`, a lemma for each action or group of
similar actions (`PopIInv`, `PushIInv`, ... with a step for each conjunct that the action can disturb), put together in
`NextIInv`; then `IInv` implies the property, or an action property of the step that `IInv` holds before and after.

### Dispatchers: ThreadPerConnectionProofs, ThreadPoolProofs

For every set of connections, every set of finite logs, every `QueueDepth` (a positive number), and every `MaxRunning` (a
natural number), or every number of workers and every function from connections to them.

| theorem (thread per connection) | says |
|---|---|
| `TypeCorrect` | `SafeSpec => []TypeOK` |
| `Invariance` | `SafeSpec => []IInv` |
| `PushSafe` | `SafeSpec => []PushReachesThread` |
| `ReferenceSafe` | `SafeSpec => []ReferenceValid` |
| `NothingLeft` | `SafeSpec => []NothingLeftRunning` |
| `JoinedStays` | `SafeSpec => JoinedForGood` |
| `CountSafe` | `SafeSpec => []NumRunningExact` |
| `StuckForever` | `SafeSpec => StuckOtherwise` |
| `Refinement` | `SafeSpec => ImplementsReplay` |
| `NoDeadlock` | `SafeSpec => []NobodyWaitsInVain` |
| `Progress` | `SafeSpec => [][LessToDo]_vars` |

| theorem (thread pool) | says |
|---|---|
| `TypeCorrect` | `SafeSpec => []TypeOK` |
| `Invariance` | `SafeSpec => []IInv` |
| `NothingBehind` | `SafeSpec => []NothingBehindFinish` |
| `NothingLeft` | `SafeSpec => []NothingLeftRunning` |
| `WorkerOrder` | `SafeSpec => []WorkerInLogOrder` |
| `Refinement` | `SafeSpec => ImplementsReplay` |
| `NoDeadlock` | `SafeSpec => []NobodyWaitsInVain` |
| `Progress` | `SafeSpec => [][LessToDo]_vars` |

**Thread per connection.** `PushReachesThread`, say, depends on
there being no shutdown entry in the thread's queue, thus on which
entries have been given to the thread, on the marks having been set from the whole log,
and on the thread not having ended, which depends on what it has performed. `IInv` therefore says where every entry is:

* `DispatchInv`: what the dispatcher holds, at each of its places; the marks are `LastQueries` once set.
* `QueueInv`, `QueryInv`: entries in a queue or in hand are `Given`, that is popped from
  the log, of the thread's connection, correctly marked, not performed, and before
  the one that `dispatch` holds; and they are in the order of the log.
* `PerformedInv`: nothing is performed twice, and nothing is lost: an entry popped and
  not performed is `Somewhere`.
* `EndedInv`: a thread that has left its loop has performed everything of its
  connection. This is the heart of it: a thread leaves its loop only after a
  marked entry, which is the last of its connection, and has performed all the earlier ones,
  since they are neither in its queue nor in its hands nor with the dispatcher.
* `TableInv`: how the table's content tells the states of the threads.

These are `PlaceInv`, which is inductive by itself (`Placement`). The other parts of `IInv` stand on it: `CountInv`, `BegunInv`,
`StuckInv` and `LastInv`.

From it, a connection whose entry `dispatch` holds has not ended
(`HeldThread`): that gives `PushSafe`, and, as the connection of a joined thread
never has another entry, `JoinedStays`. `AllPerformed` uses `PerformedInv` when
all threads have ended, for the last step of `Refinement`; the steps `Quit` and `Execute` map to
`Perform`, whose guard on the earlier entries follows from the order in the queue (`InHand`).
`CountInv` adds the cardinality of the table by the library's theorems on
finite sets, and needs no finiteness of `ThreadIds`: the table is finite since it
grows by one key at a time. `StuckForever` needs `BegunInv` and `StuckInv`: if an entry is the first of its connection
and more than `MaxRunning` connections are open there, `dispatch` never gets beyond it. By `OpenStarted` each open connection is in the
table, as its last entry has not been popped and so a sweep cannot join its thread; hence `num_running` stays above
the limit (`NoCreate`). With `Termination`, which TLC checks, the condition `EnoughThreads` is exact.

**Thread pool.** A worker serves several connections, so marks tell nothing, and what ends it is the `FinishEntry`.
Its first part, `PlaceInv`, is about what a worker has: `Held(w)` is the entry in its hands followed by its queue, which `Pop`
leaves as it is. `HeldInv` says that the queries in it are in the order of the log, that no query of the worker from the first of them on
has been performed, and that at most the last element is the `FinishEntry`, which is there only if the worker has been
`Told`. `ThreadInv` says that a worker that ends was told to, with nothing in its queue and all its queries performed.
Even `TypeOK` is not inductive by itself: that `workers` does not grow beyond
`threads_count` while workers are started is the first conjunct of `DispatchInv`. `WorkerOrder` follows since a worker's queries
are performed in the order of what it holds, whichever connections they belong to. The second part, `FinishInv`, is that a worker that was
told to finish holds the `FinishEntry` until it ends, and that a joined or deleted worker was so by `finish_all_and_wait`.

**Why a replay ends.** Liveness needs fairness, which stays with TLC, but what could prevent it is safety and is proved, for
both dispatchers. It is two theorems:

* `NoDeadlock`: nobody waits for one who waits. The dispatcher waits in a `push` to a full queue, in a join, and (thread per connection)
  in a `dispatch` at the limit. In each of these places the thread it waits for is `Moving`, that is it has an entry to pop or to perform
  or is leaving its loop, or it has ended; the cause for concern is a thread that is left in `pop` with an empty
  queue, which nobody would ever fill again. A worker of the pool is not, as the `FinishEntry` is still in front of it
  (`FinishInv`). A thread of a connection is not, if its last entry was pushed to it, since performing that one ends it (`LastInv`,
  `AllGiven`). For a `dispatch` at the limit this takes one of the `num_running` threads whose connection has been
  handed over entirely, and that one exists exactly under the condition `EnoughThreads`, which `Termination` assumes too.
* `Progress`: every step leaves less to do. `Todo` is the finite set of what is still to happen: threads to be created, to exit and to be
  joined, positions of the log to be read, pushed, taken and performed, loops of the dispatcher to be left. `StepsLeft`, its cardinality, is a natural number
  that every step of the pool decreases. Thread per connection has one exception, `SweepsInVain`: a `dispatch` at the limit that
  sweeps the table and finds no thread to join has changed nothing, and sleeps again. That loop is the only way a replay can run for ever, and by `NoDeadlock`
  there is then a thread that moves, or has ended and will be joined by the sweep after that, unless `EnoughThreads` is false.

### The database client: MySQLClientProofs

For every sequence of queries and quits that a thread may be given, every `MaxRetries`, with and without a session-init query, and
every bound on the failures of a server that has to run one.

| theorem | says |
|---|---|
| `TypeCorrect` | `SafeSpec => []TypeOK` |
| `Invariance` | `SafeSpec => []IInv` |
| `NoHandleLeaked` | `SafeSpec => []OneHandle` |
| `AlwaysInitialised` | `SafeSpec => []SentInInitialisedSession` |
| `ResultOfLastTry` | `SafeSpec => ReportedAsApplied` |
| `Refinement` | `SafeSpec => ImplementsDBThread` |
| `Progress` | `SafeSpec => [][LessToDo]_vars` |

`IInv` is `CallInv` and `BoundInv`. The stack may be of any depth, and the lemmas `ConnectedStack`, `NextTryStack`, `ReturnStack` say what each step does to it. What the
proofs need of it is little: `StackInv` has the entry of the log at the bottom, the session-init query in all other activations, and all but
the innermost waiting in "send". `SessionInv` has nothing to close while an activation connects, and
a session that is not initialised yet belongs to an activation of the session-init query *that has not tried yet* (`top.i = 0`):
without that, a nested activation that gives up could leave an uninitialised session to the one below. `ResultInv` counts tries against applications of
the query at the bottom. `FinishInv`, that the thread of `test_connect` never connects, was needed for the refinement: `DBThread`
disconnects no connection that the thread has not.

For `Refinement` an action maps to `Execute`, `ExecuteFinish` or `Quit` of `DBThread` if it ends the
bottom activation (`EndRefines`), and to a stutter while another is left (`NestedRefines`). With the dispatchers' theorems, on
`DBThread`, this links a recursive client that retries to `Replay`'s promise.

`Progress` bounds the retries. What is `Left` at any moment are seven numbers, the most significant first: the failures that the server may still
have (which only count with a session-init query), the entries, whether a session is missing for such a query, the depth of the stack, the tries that the innermost activation
has left, whether it is connecting, and the tries that its `connect` has left. Every step lowers one of them and leaves those before it as they are.
A failed try, for instance, makes `connect` start over, but has one try less left; without a session it costs no failure, but then the tries
go down without any nested call. With the lemma `Descent`, that the order is well-founded, no run has infinitely many steps. `BoundInv` is what this needs
beyond `CallInv`: that without a session-init query the calls do not nest, and that `connect` does not go beyond `MaxRetries`.

### Reading: QueryLogProofs, GeneralLogProofs

For every log of every length, all options, and (general log) both kinds of dispatcher.

| theorem (slow query log) | says |
|---|---|
| `TypeCorrect` | `Spec => []TypeOK` |
| `Invariance` | `Spec => []IInv` |
| `BlocksBecomeEntries` | `Spec => []EntriesExact` |
| `AdjustedToConnection` | `Spec => []StartTimesAdjusted` |
| `OrderOfConnections` | `Spec => []ConnectionOrderKept` |
| `Sorted` | `Spec => []SortedAsAsked` |
| `EachLineOnce` | `Spec => []LinesSentOnce` |

| theorem (general log) | says |
|---|---|
| `TypeCorrect` | `Spec => []TypeOK` |
| `Invariance` | `Spec => []IInv` |
| `QueriesHandedOver` | `Spec => []HandsOverQueries` |

**Slow query log.** `ReadInv` says what is known of the block being read: where it started, that nothing since
ends it, that the line read ahead is not skipped, and that the timestamp in force is `TimeOf` the place. `EntriesInv`: the entries are those blocks with a query that
lie before that place, with all their lines, and the counts are cardinalities of the sets of starts (`CountBlocks`: a block adds one).
`AdjustInv`: an entry before the iterator has the latest start of its connection so far, and the map of
connections remembers these. `OrderInv`: the order is that of the log until the sort, and that of start times, then of
the log, after it. `ConnectionOrderKept` follows from the last two: within a connection the adjusted times do not decrease.

The sort is given by a permutation that `CHOOSE` picks, and one has to exist: lemma `Ranks` shows that in a finite set with
a strict total order, an element's number of predecessors is a bijection to `0 .. n - 1`, from the library's theorem on
injections between finite sets of the same size, so that no induction is needed. It gives `StableSortIs`, that the result is the permutation that is
sorted, equal elements in their old order, and with it `Minimum` and `Extremes`, that a finite set of numbers has a least and a greatest one, which the `CHOOSE` of the
reference definitions stands on (`BlockEnds`, `TimeOfIs`). `LinesSentOnce` needs that blocks are disjoint intervals (`BlockInterval`, `BlocksDisjoint`), so that a line has one sender at most (`Senders`).

**General log.** `ReadInv` counts: the `n`-th entry is the `n`-th line of a query, `Nth(n)`, which is proved to be
the one line that has `n - 1` such lines before it (`NthIs`, from the cardinality of `LinesBefore`). `MarkInv`: the walk from the end has marked an entry if and only if it has
`Visited` it and it is the `LastOfConn`. `DispatchersLog` links the entries to `Q!LastQueries`, the marks as the dispatchers' models have them.

### Execution: QueryLogExecuteProofs

For any finite set of threads, any work, any configuration, every `MaxNow` and every `UsecondsRange` but 0.

| theorem | says |
|---|---|
| `TypeCorrect` | `Spec => []TypeOK` (the counters of the three reports included) |
| `Invariance` | `Spec => []IInv` |
| `ReportsRight` | `Spec => []ReportsAgree` |
| `NeverTooEarly` | `Spec => []NeverEarly` |
| `NoDelayLost` | `Spec => []DelayCovered` |
| `AtomicMaximum` | `Spec => DelayIsMaximum` |
| `TimePreserved` | `Spec => QueryTimePreserved` |

`OffsetInv`: the static local has one value at most, and has it before any thread measures. `DelayInvOf(w)`: a thread that is
not in the loop of the compare-exchange is covered by the maximum, and what it has read in the loop is no larger than the maximum, hence a
successful exchange only raises it, which keeps every other thread covered. `AtomicMaximum` follows from the same: the loop, in which other threads may store their delays
between any two of its reads and exchanges, does what one atomic step would that takes the maximum. `DueInvOf(w)`: while the thread is in that loop, time goes on and `now + time_diff` only gets
later, so that the sleep ends no earlier than the query is due. `SleepInvOf(w)` is the same for the sleep after the query, if it is `Countable`: if what was left of the query's time at its answer is
less than `UsecondsRange` (`Remainder`). Without that condition it is false, of the code as well.
`OtherThread` has what all these steps keep of the threads that do not move. These are `StateInv`.

`ReportsInv` is the rest of `IInv`: `ReportsAgree` and `QuickerInv`, without which it is not inductive (that
fewer queries than all have been quicker, and that as long as all have been, each of them has saved at least one unit of time). Only
`Report` changes any of it (`ReportsInv` is about `reported`, which is the same in every other step). It adds one query to `reported`, hence
one to the cardinalities of the queries with a time or a keyword, and one to one of the counters by connection or by
keyword. The sums over those counters are the fold of the community modules, which has a recursive definition. Its value is
not proved by induction over the data, for which no prover is at hand, but by a least counterexample: there is no least number of elements up to which
no function has the sums of a set's subsets (`LeastNumber`, `SumsExist`), and no minimal subset with a wrong one
(`MinimalSubset`, from the library's theorem that inclusion is well-founded on a finite set). `SumsOf` then says what the sum is, and `SumType`, `SumPlus` (one counter goes up by so much) and `SumZero` are
all that the other proofs use. This is what `Threads` has to be finite for.

### The driver: PlaybackProofs

For every command line, every build and every log.

| theorem | says |
|---|---|
| `TypeCorrect` | `Spec => []TypeOK` |
| `Invariance` | `Spec => []IInv` |
| `OneSelected` | `Spec => []OneOfEach` |
| `NoOptionIgnored` | `Spec => []OptionsUsed` |
| `ReportsWholeReplay` | `Spec => []ReportsComplete` |

`SelectInv` has one active plugin of each kind chosen so far, and no other; `ProcessInv` has
the plugins that have been asked accept the options (all, at the run, by `ArgvExits`: any refusal ends the program), and `ParseInv`
that each option given belongs to a loaded plugin, without which an option of a missing plugin would be accepted by nobody
and refused by nobody. `ReplayInv` ties the life of the text to that of the replay. No `processOptions` is followed in time: `Accepted` reads
off what follows from each plugin's having accepted.

## 6. What is only model-checked

* Liveness: the `Termination` of thread-per-connection (under its condition), of the pool, the client and the execution. Liveness under fairness is out of the
  prover's reach, as it takes `ENABLED`. Of `Termination` of the dispatchers and of the client that is all that is left to TLC: that as long as somebody can take a step one is
  taken. That somebody can (`NoDeadlock`) and that the steps run out (`Progress`) is proved (section 5). In the execution
  the clock and the spurious failures of `compare_exchange_weak` may have any number of steps, and there is no such theorem.
* The refuted properties of section 8, which are counterexamples.

## 7. What is not modelled

* Characters: `readline`, `parse_time`, `strtoull`, `strtod` and the regular expression of the general log are represented by what they
  yield for a line, and `getQuery` by the lines it sends. What a query says, and which error messages
  `--mysql-filter-error` leaves out of the output are not modelled; neither is what `print_report` does with the counters,
  which is formatting (its average divides by the number of connections, which is 0 for an empty log).
* `--loop`: the option is disabled in the source (`pp/percona_playback.cc:184`). There is one run.
* Values outside the assumptions: `--queue-depth=0`, a pool of no threads,
  `--mysql-max-retries=4294967295`. What happens then is among the hazards.
* Which session a worker of the pool sends a query in, and so whose temporary state it
  finds, nor what a session loses when a query fails and `execute_query` reconnects: `DBThread` and `MySQLClient` know only
  whether there is one and whether it is initialised.
* Memory: the sweep forgets joined threads without deleting them. The model has them as `"joined"`.
* Warnings and rows examined, which no report reads (`parseRowsExamined` looks for `Rows_Examined`, which MySQL does not write).
* The parsing of a command line by Boost, the text of `--help`, gettext, and the build system.

## 8. Disagreements with comments and documents

Each is a run that TLC refutes.

* `quit`: on a quit the code disconnects *and connects again*
  (`pp/db_thread.cc:52`), and the thread goes on unless the quit is its connection's
  last entry. `docs/source/known_issues.rst:14` says that it "closes the MySQL connection and terminates the
  thread".
* `connect_retry`: the loop of `connect` goes on if `usleep` returns
  non-zero (`pp/mysql_client/mysql_client.cc:86`), which it does when it fails: after
  a normal sleep there is no second try. The comment above it wants tries until
  `max_retries` is exceeded.
* `multi_statement`: a query is sent with all the statements of its block (a `use db;` that the server logged
  before it, or the SET timestamp with `--query-log-set-timestamp`). `mysql_real_query` reports on the first of them; the
  loop over the results of the others takes an error for their end (`pp/mysql_client/mysql_client.cc:151`). Such a
  query is neither retried nor among those that "had errors" (`pp/simple_report/simple_report.cc:177`).
* `test_connect`: the thread connects on demand, and is given nothing to
  demand it (`pp/mysql_client/mysql_client.cc:170`); the test always succeeds.
* `disable_report`: `simple_report`, once disabled, refuses its own options, which
  always count as given because they have defaults
  (`pp/simple_report/simple_report.cc:109`): `--disable-reporting-plugin simple_report` ends the
  program with an error.

One more disagreement is a condition of a property instead of a run: `--query-log-preserve-query-time` is said to "ensure that each
query takes at least Query_time" (`pp/query_log/query_log.cc:414`), but `usleep` takes 32 bits of microseconds
(`pp/query_log/query_log.cc:271`), and if 71.6 minutes or more are left of a query's time it sleeps for the remainder only.
`QueryTimePreserved` holds for what is shorter (`Countable`), and TLC refutes it without that condition.

Three more facts that the models have, and that no document contradicts:

* `execute_query` sends the session-init query too, and reconnects after each failed try, which
  sends the session-init query again in a nested call with tries of its own
  (`pp/mysql_client/mysql_client.cc:133`). A server that keeps rejecting it nests the calls without end; `MaxFailures`
  bounds that in `MySQLClient`.
* Lines that a restarted server writes are skipped between blocks,
  but a block ends only at a `# Time` or `# User@Host` line, so that a banner behind a query
  becomes part of it, and is sent with it (`pp/query_log/query_log.cc:173`).
* A log that cannot be opened is reported on like an empty one, with exit status 0 (`pp/query_log/query_log.cc:497`).

## 9. Plan

Modules were written in this order, the most important behaviour first, each so
that it can be proved about (constants with named assumptions, one action per
operation, no `RECURSIVE`). All are checked, and their safety properties proved:

1. `QueryEntry`, `Replay`, `DBThread`, `ThreadPerConnection`.
2. `ThreadPool`.
3. `MySQLClient`, with the refinement of `DBThread` for one thread.
4. `QueryLog`.
5. `QueryLogExecute` and `Reports`.
6. `Playback`.
7. `GeneralLog`.

What is left:

1. A composition of `QueryLogExecute` with `DBThread`, so that "perform" of the latter is implemented by `execute` step by step. Now both are
   checked and proved side by side, and `MySQLClient` is shown to implement `DBThread`.
2. A variant for `QueryLogExecute`, of its steps other than those of the clock and the failed exchanges.
