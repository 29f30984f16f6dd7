# nac-test in TLA+

A verification project for nac-test, the framework that tests network infrastructure with PyATS
and Robot Framework. It models the parts of the program in which several processes, threads or
coroutines share state or repeat what failed, from the controller a run chooses over its jobs and
the tests in them to its exit code and the files it leaves; checks them with TLC on small instances;
and proves with TLAPS, for every instance, every safety property those checks are about, and that
the broker implements the abstract device.

Source paths below are relative to `src/nac_test/`; `PROJECT.json` (`map`) names the lines each
definition stands for.

## The system

One `nac-test` run is a parent process and a tree of subprocesses:

    cli/main.py
      CombinedOrchestrator                  combined_orchestrator.py
        controller from the environment     core/controller.py
        pre-flight check -> AuthCache       core/controller_auth.py, core/auth_cache.py
        PyATSOrchestrator                   pyats_core/orchestrator.py
          API tests:  one PyATS job         pyats_core/execution/subprocess_runner.py
          D2D tests:  ConnectionBroker in the parent   pyats_core/broker/connection_broker.py
                      one PyATS job per device         pyats_core/execution/device/device_executor.py
                        test base class: setup, items, verdict    pyats_core/common/
                          API items -> retries -> httpx or a script
                          SSH items -> thread -> BrokerClient -> Unix socket -> broker -> Unicon
                        BatchingReporter -> PyATS reporter, ResultCollector
          job stdout (NAC_PROGRESS events) -> OutputProcessor -> test status
          archives -> reports -> PyATSResults
        RobotOrchestrator -> pabot          robot/orchestrator.py
        xunit merge, dashboard, exit code   utils/xunit_merger.py, core/types.py
        registered files -> CleanupManager  utils/cleanup.py (atexit, SIGTERM, SIGINT)

### Components

| Component | State | Operations | Interacts through | Hard behaviour | What makes it correct |
|---|---|---|---|---|---|
| **Connection broker** `pyats_core/broker/connection_broker.py`, `pyats_core/ssh/command_cache.py` | device sessions, one lock per device, semaphore, one command cache per device, client sockets, shutdown flag | execute, connect, disconnect, status, ping requests; shutdown | Unix socket; executor threads for the blocking Unicon calls | many clients; sessions that die; one retry; cache replaced under a waiter; shutdown with a timeout against requests in progress | one call per device; no stale teardown; caches and answers match sessions; permits conserved; every request and shutdown end |
| **Broker client** `pyats_core/broker/broker_client.py` | socket, connection lock, request lock | connect, disconnect, `_send_request` | socket to the broker; all coroutines of a subprocess | two locks taken in both orders, one re-entered; reconnection | frames paired; no socket leak; calls return |
| **Authentication cache** `core/auth_cache.py`, `core/controller_auth.py` | cache file, lock file | get or create, invalidate, pre-flight check | file system, shared by all runs on a machine | many processes, kills in the middle of a write, a lock file that is unlinked | one holder; one login; no error but a refusal; the check validates its own credentials |
| **Batching reporter** `pyats_core/reporting/batching_reporter.py`, `step_interceptor.py`, callbacks in `pyats_core/common/base_test.py` | batch, mode flags, bounded queue, memory estimate, worker thread, overflow and dump files | add, flush, burst, drain, shutdown | PyATS reporter, ResultCollector, files | two threads; a queue at its limit; partial acceptance; shutdown with timeouts | order; nothing lost or sent twice; shutdown processes all |
| **Job execution and progress** `pyats_core/execution/{subprocess_runner,output_processor}.py`, `pyats_core/progress/` | status by task, status by test name, pipe, return code | plugin hooks, read loop, event handling | the job's stdout pipe | lines lost or too long, tasks that end without an event, processes that outlive their job | the status shown is the one the task got; no job waits for one that waits for its reader |
| **PyATS orchestrator, device executor** `pyats_core/orchestrator.py`, `pyats_core/execution/device/` | status by test name, archives, results, job files and testbeds | API and D2D jobs side by side, devices admitted by a semaphore, aggregation, reports | subprocesses, archives on disk | one of several steps failing; archives of earlier runs | a job that has finished is reported; a failure shows in the results |
| **Combined orchestrator and results** `combined_orchestrator.py`, `core/types.py`, `cli/main.py` | results per framework, pre-flight failure | phases, exit code | calls | which of several failures decides the exit code | counts are this run's own; a failure that was reported reaches the exit code |
| **Robot execution** `robot/` | results | render, pabot, parse | subprocess, output.xml | interruption, missing output | as above |
| **Device connection manager** `pyats_core/ssh/connection_manager.py` | connections, locks, semaphore | get, execute, close, close all | Unicon | none in a run: device jobs create a manager, with one connection at a time, that their tests do not use | not modelled |
| **HTTP client, pool, retry, subprocess auth** `pyats_core/common/{retry_strategy,connection_pool,subprocess_auth}.py`, `pyats_core/http/`, the tracking client of `base_test.py` | attempts, recovery count and downtime, temporary files | login, request, two nested retries | httpx, or a child process and files | a retry around a retry; a failure between creating a file and the block that deletes it; a script that stops the event loop | no file with credentials outlives its call; the downtime shown was slept |
| **Test base class** `pyats_core/common/{base_test,ssh_base_test}.py`, `pyats_core/reporting/{collector,generator}.py` | results, JSONL file, verdict, command cache of the test | setup, items as coroutines, commands in threads, judging, cleanup, report | PyATS, controller, broker | coroutines that fail; a thread that gives up a request that goes on; two accounts of the same results | a failed call fails the test; verdict and report agree; no late answer is cached |
| **Cleanup** `utils/cleanup.py` | registered files | register, cleanup | signals, atexit | a signal between the creation and the registration of a file, or inside another cleanup | every registered file removed |
| **Discovery** `pyats_core/discovery/` | none | type resolution, tag matching, device inventory | files | boundary cases | each test has one type |
| **Reports, archives, xUnit** `pyats_core/reporting/`, `core/reporting/`, `utils/xunit_merger.py` | archives, `pyats_results/` | extract, aggregate, report, merge | files | a missing or broken part; what an earlier run left | a run reports its own results |
| **Controller detection** `core/controller.py`, `core/_env.py` | the environment, the context handed to tests | resolve, explain, look up again | environment, read by every process on its own | blank values, several or partial sets of credentials | the message's advice works; all processes choose the same |
| Configuration, command line, banners, logging | none | | | | no state of their own: not planned |

## Modules

| Module | What it is |
|---|---|
| `DeviceSession` | abstract: what the broker promises about each device |
| `ConnectionBroker` | the broker; implements `DeviceSession` (`DeviceSpec`) |
| `ConnectionBrokerProofs` | its safety and that it implements `DeviceSession`, for every value of its constants |
| `BrokerClient` | the client object shared by the coroutines of a test subprocess |
| `ControllerResolution` | the choice of the controller, the advice when it fails, and the lookups of a test |
| `AuthCache` | the token cache, the pre-flight check and the test processes of one or more runs |
| `BatchingReporter` | accumulator, overflow queue, worker thread, shutdown, and where the messages end up |
| `TestProcess` | one test: setup, items, verdict, JSONL file, line in the summary report |
| `ApiRequest` | its HTTP requests: retries, httpx or script, temporary files (`TestProcess` extends it) |
| `SshCommands` | its commands: cache, threads, timeouts (`TestProcess` instantiates it) |
| `JobRun` | the PyATS jobs of a run: processes, pipes, progress, return codes, archives, files |
| `CleanupManager` | registered files, signals and atexit (`JobRun` extends it) |
| `RunOutcome` | runs in one output directory: jobs, what they leave, results, xUnit files, exit code |
| `BrokerClientProofs`, `AuthCacheProofs`, `BatchingReporterProofs`, `ControllerProofs`, `TestProcessProofs`, `JobRunProofs`, `RunOutcomeProofs` | the safety of these modules, for every value of their constants (`ControllerProofs` is about `ControllerResolution`; `TestProcessProofs` also about `ApiRequest` and `SshCommands`, `JobRunProofs` about `CleanupManager`) |
| `MCBroker`, `MCClient`, `MCAuthCache`, `MCBatching`, `MCTestProcess`, `MCController`, `MCJobRun`, `MCRunOutcome` | instances for TLC |

Some definitions begin with the comment "Mutant". They are faulty versions of the definition that
follows, of the kind a plausible bug would produce. No specification uses them; putting one in the
place of its original shows that the property listed for it in `PROJECT.json` can fail.

### ConnectionBroker

The broker is an asyncio program, so a step is what a task does between two points where it can be
suspended: the wait for a device lock (`pc = "lock"`), for a permit of the semaphore (`"permit"`)
or for a blocking Unicon call in an executor thread (`"connecting"`, `"executing"`, and three that
disconnect: `"healing"` before the second try, `"failing"` after a failure that is not retried,
`"disconnecting"` for a disconnect request or shutdown). There is one task per client, and one,
`Closer`, for `shutdown()`.

- `_execute_command` is `ReceiveExecute` (first look into the cache, the lock), `AnswerFromCache`
  (second look), `Reuse` / `AskPermit`, `GetPermit`, `ConnectOk` / `ConnectFailed` / `UnknownHost`
  (`_get_connection`, `_create_connection`), `ExecuteOk` / `ExecuteRejected` / `ExecuteLost` /
  `ExecuteBroken` (`_run_and_cache` and `_is_transport_failure`) and `Disconnected`
  (`_disconnect_device_internal`). The connect and disconnect requests share these actions.
- An asyncio lock is an owner and a queue; a release names the next owner.
- The output of a command is the number of the session it came from, so the properties can compare
  it with sessions. A cache is a function from commands to outputs.
- `command_cache[h]` is an object that a request looks up before it waits and reads afterwards; a
  disconnect replaces it. `attached[t]` says whether the object task `t` holds is still the
  device's, and `kept[t]` what it would find there otherwise. Nobody writes to a dropped object,
  because `_run_and_cache` looks the object up again, so this is all there is to it.
- `wait_for` in `shutdown()` gives up at any time (`GiveUpWaiting`, `GiveUpDisconnect`). In the
  second case the Unicon call cannot be cancelled and runs on: `stray`.
- The environment kills sessions, expires cached outputs, and clients leave at any time.

Left out: the `status` and `ping` requests, statistics and malformed requests, which change
nothing; the start of the broker, which is over before the first request; a broker without testbed.

`DeviceSession` says what a test author relies on: one call at a time, commands only on open
sessions, every connect a new session. The refinement mapping of `DeviceSpec` reads the job of a
device off the control state of the task that owns its lock.

### BrokerClient

Coroutines call `_send_request`, `connect` and `disconnect` on one client. Steps are between awaits:
waits for the two locks, the opening of a socket, the read of a response, `wait_closed`. `local` and
`remote` are the sockets not closed by the client and by the broker, `wire` the unanswered requests
of each. The broker answers the requests of a socket in order (it is `ConnectionBroker`, of which
the client needs only that it answers: `RequestsEnd`) or closes the socket.

### AuthCache

Processes are a pre-flight check and test processes per run; the steps are operations on two files
and logins. `lockFile` is the file at the lock's path and who has locked *that* file: unlinking it
frees the path while its holder believes it has the lock, which is what the code does in
`invalidate()`. A write empties the file, then fills it; a kill between the two leaves it torn.
`invalidate()` is best effort: `InvalidationFails` is an operation of it that raises, which leaves the
cache as it is and lets the check go on (`gaveUp`), and `LockFileStays` a lock file it cannot remove.
The behaviour of `filelock` is external and modelled as the tests rely on it (acquire by creating or
finding the file unlocked, release by unlinking it).

### BatchingReporter

The test thread buffers messages (a `step_start` and a `step_stop` in turn), flushes, and shuts
the reporter down; the worker thread drains the queue. `Parts(b)` are the batches that remain if
the reporter refuses any of the messages of `b`, in their order. A message is its sequence number
and one unit of memory; the rate detector may report a burst, or its end, at any message, and a
batch may be old enough to flush at any message. `Send` is `_send_batch_to_pyats` with its three
paths: the reporter accepts some messages, or the batch is dumped; the collector gets the messages
whose type it recognises. `KeysOf` and `TypeOf` are translated from what the step interceptor
buffers.

Left out: the adaptive batch size (any batch may be flushed early), sampling of memory sizes,
failures to write a file, `emergency_shutdown` (nothing calls it), the restart of a worker that
crashed (no exception leaves the callback, so the loop does not crash).

### ControllerResolution

`Registry` is `CONTROLLER_REGISTRY`: the credential sets of each controller in the order in which
they are tried. The environment gives every variable of some of the controllers no value, a blank
one or a value. `Resolve` and `Refuse` are `resolve_controller()`; after a refusal the user follows
`format_resolution_error()` for one of the controllers it names (`UnsetOthers`, `SetMissing`,
`SetCredentials`) and starts again. `StartTest` is what the setup of a test looks up, with the
context the orchestrator hands over (`context`) or without (`OwnContext`): controller, method, URL,
credentials. Blank values, alternative sets and the choice among several are each treated in code of
their own there, which is why `TestsAgree` is not obvious.

### TestProcess, ApiRequest, SshCommands

One test is of one `kind`: an API test logs in and makes HTTP requests, an SSH test sends commands.
The items it verifies are coroutines with one call each.

- `ApiRequest` has, per call (`req[c]`), the attempts of `execute_with_retry()` in the tracking
  client inside the rounds of `SmartRetry`. An attempt goes through httpx (`HttpxAnswers`,
  `HttpxRaises`) or, on macOS and for the login, through a script: `CreateFile` three times,
  `RunScript`, `ReadAnswer`, any of which may fail. `busy` is the caller whose script stops the event
  loop: neither executor awaits anything meanwhile. `temp` is what is on disk.
- `SshCommands` has, per command, the coroutine that looks into the cache, the thread that takes it
  (`Work`), and with a broker the coroutine of the client that the thread schedules on the loop and
  waits for with a timeout. `TimeOut` leaves that coroutine running: nobody cancels it. A Genie parser
  gets its output in its thread; if it fails on it (`ParserFails`) the command returns nothing, but
  the output is in the cache. What broker and client do is in `ConnectionBroker` and
  `BrokerClient`; here the broker answers, refuses or does neither.
- `TestProcess` adds the phases: `SetupRefuses` before there is a collector, `OpenCollector`,
  `SetupSucceeds` / `SetupFails` or, with a broker, `AskBroker` and `BrokerEndsSetup` (the wait
  for its answers to a ping and a connect, which has no timeout), `GetItems`, `StartItem` (the
  semaphore), `EndItem` (what `gather()` makes of a coroutine), `Judge` (`process_results_smart`,
  `process_results_with_steps`), `Cleanup` (the summary record), `Report`
  (`generate_all_reports`).

`OverallResult` (the verdict) and `OverallStatus` (the report) are two computations on the same
results; `PlainResultsAgree` relates them. They may differ on the statuses its premise excludes:
an ERRORED result fails the report but not the verdict, a status that is a lower-case string the
reverse.

Left out: the order of results, formatted messages, metadata, what is tracked of each call in the
JSONL file besides the status, headers and bodies, redirects.

### JobRun, CleanupManager

`JobRun` starts where `RunOutcome`'s `StartJobs` does and shows what that module draws freely: which
statuses and archives a job leaves, and which tests are known.

- The process of a job runs its tasks in turn (`TaskStarts`, `TaskEnds`, `PostJob`, `Exits`); the
  plugin prints an event at each. `pipe[j]` is what the reader has not read; a full pipe stops the
  process. `Emit` may lose an event; `TaskLost` is a task for which PyATS calls no `post_task()`;
  `Crashes` a process that ends at any point, with an archive it may have been writing: `zip[j]`
  is `"torn"` for one that cannot be read or has no `results.json`; `held` says that a process the
  job started keeps the pipe open after it.
- `OutputProcessor` has `shown`, by task id; `ProgressReporter` and the orchestrator share
  `reported`, by test name. They are different dictionaries because `test_status or {}` makes a
  new one of the empty one that is passed. `Handle` is `_handle_progress_event`.
- A job's coroutine prepares its files (`CreateJobFile`, `CreateTestbed`, `RegisterFiles`), starts
  the process, reads (`Read`, `GiveUpReading`), and returns a path or none (`JobReturns`, `IsPath`).
  `Returned` jobs of devices are aggregated; missing statuses come from the archive if it can be read
  (`Filled`, `FilledFrom`).
- `Outcomes` are the results PyATS gives to tasks. Which exit code it makes of them is external:
  `ExitCodes` knows that failed and errored tests give 1 and passed ones 0, as the code relies on.
- `CleanupManager` has the files on disk and those registered; a signal may arrive between any two
  steps. The handler, which can run inside another cleanup, and `atexit` are `RunCleanup`.

Left out: the sections of a test (output only), the text of job files, testbeds and merged data, the
sentinel of the pipe: `readline()` returns nothing only at the end of the pipe, so that the drain
that looks for the sentinel finds nothing, with or without it.

### RunOutcome

The state has two parts: what is on disk, which outlives a run (`archives` by type and run;
`temp`, the JSONL files of tests; `reports`, the run whose archive is extracted in
`pyats_results/`; `zips`, the run that wrote the archive of each device, whose name is the same in
every run; `parts`, what each D2D archive was made of), and what a run knows. `phase` is where
`CombinedOrchestrator.run_tests` and, below it, `PyATSOrchestrator.run_tests` are:

- `Start` draws the plan (mode, which types of tests there are and the tags select) and deletes stale
  JSONL files (`cleanup_stale_test_artifacts`); `PreflightPasses` / `PreflightFails`.
- `StartJobs` starts one job for the API tests and one for each device; `ApiJobEnds` and
  `DeviceJobEnds` say what a job that ends leaves: for each test a status in a JSONL file, a file
  without summary or no file; and an archive or none (`execute_job` returns none for a return code
  above 1). A device's job returns the path of its archive by its return code only, and what is at
  the path may be of an earlier run. `wrote`, `archived` and `own` remember what this run left, for
  the properties.
- `CreateD2dArchive` makes the D2D archive of the devices' archives (`X` are those that could be read
  and whose directory was not overwritten by that of a device with a similar name), `Aggregate`
  deletes them but for `K`, where that fails; `AggregationFails` is an exception before or in between,
  which leaves them all.
- `BeginReport` (which archives are found), `ProcessArchive` (extraction and report of the newest of
  a type, concurrently for both types, either may fail) and `FinishReport` (`_collect_pyats_stats`,
  `_extract_pyats_stats`, and what is deleted).
- `Robot` with every outcome of `RobotOrchestrator.run_tests`; `Finish` merges the xUnit files and
  exits; `ExitCode` and `MainExit` are translated from `CombinedResults.exit_code` and `main`.
- `Stop` is Ctrl+C, an exception that only `main()` catches, or a kill at any step,
  `OrchestrationFails` an exception that `PyATSOrchestrator.run_tests` turns into an error. Jobs
  given up have left any part of their files; the archives of devices stay.

Abstractions: a device's job has one test; the batches of devices, the inventory and the broker only
decide which device jobs start; the API archive gets its name in the same step as its job ends; an
exception after an archive was extracted counts as a failed extraction; files can be deleted and
renamed, except for the archives of devices. `merged` has the PyATS parts of the merged xUnit file
only.

## Runs

All runs switch the deadlock check off: clients stop asking, tests and runs end, a shut-down server
is done. That nothing gets stuck before is a matter of the liveness properties.

Every module states a type invariant, `TypeOK`. It is proved for all but `TestProcess` and
`DeviceSession`, and a run checks that of `RunOutcome`; the others hold on the instances below, too
(add `TypeOK` to the configuration).

| Run | Result | Shows |
|---|---|---|
| `MCBroker` | pass | 3 clients with a request each, 1 device, commands, connects and disconnects, shutdown: one call per device, each on the session its task got; retries on a fresh one; what is cached, served and run again matches the sessions; and the refinement `DeviceSpec` |
| `MCBrokerLive` | pass | 2 clients, 3 hostnames, one unknown, 1 permit: no permit is lost, and under fairness every request and shutdown end |
| `MCClient` | pass | 3 coroutines, 4 calls, 3 sockets, failures and broker restarts: frames paired, no leak, and calls return unless the two locks are taken in a cycle |
| `MCClientErrors` | violation | that cycle: an error response and a concurrent `connect()` hang both coroutines |
| `MCAuthCache` | pass | 2 overlapping runs, kills: until a lock file is removed under its holder, one holder, shared logins, no file errors; a check passes on the old token only if its own invalidation failed; every call ends |
| `MCBatching` | pass | 5 messages, queue of 2: order, conservation, memory; shutdown returns, and leaves nothing unsent if it was in time |
| `MCTestProcess` | pass | one API or SSH test with two items, everything of which may fail: no file with credentials outlives its call unless it could not be written, the downtime shown was slept, a call that raises fails the test, verdict and report agree on documented statuses, no late answer is cached, and the test ends though a broker may never answer, unless it waits for the broker in its setup |
| `MCTestProcessShown` | violation | a test whose setup failed (device not reachable) is reported as skipped |
| `MCController` | pass | every environment of three controllers: the advice in an error message works, and tests agree with the orchestrator |
| `MCJobRun` | pass | an API job and two device jobs, one thing going wrong anywhere, and signals: statuses are true, an archive with results fills in lost events, finished jobs are reported, no registered file is left, the run ends |
| `MCRunOutcome` | pass | 2 runs of any plan, interrupted or killed anywhere: counts are those of the run's own tests or none; their failures reach the exit code if an archive is processed; an older xUnit file, be it from the archive of a device that has the same name in both runs, is merged only where this run left no archive |
| `MCRunOutcomeZero` | violation | a job that fails without an archive takes the failures of its tests with it: exit code 0 |

Each violation is a place where the code disagrees with its own documentation; `findings` in
`PROJECT.json` quotes both sides. The models show more. Four modules define a property that fails
and that no run is spent on; put it into the configuration to see a counterexample:

- `ExecutedOnce` (`ConnectionBroker`): a command runs again although its output is cached, because a
  waiter looks for it in a cache object that a disconnect has replaced.
- `OneHolder` (`AuthCache`): the pre-flight check removes a lock file that others hold or wait for,
  and two processes are inside the lock.
- `ResultsCollected` (`BatchingReporter`): results of steps never reach the collector, because the
  callback (`base_test.py:652`) looks for the message type where the interceptor does not put it.
- `NoStaleXunit` (`RunOutcome`): the archive of an interrupted run, or that of one of its devices, is
  reported with the results of the next.

Of the broker, its client, the cache and the batching reporter:

- A ping that fails inside `connect()` hangs its caller without anybody's help: the error path waits
  for `_connection_lock`, which `connect()` holds (`LockCycle` of one coroutine with itself).

- `connection_semaphore` is held while a connection is made, not while it exists, so
  `max_connections` ("Maximum concurrent connections to maintain") does not limit the connections
  held: `connected` grows with every device.
- With two runs the login that a pre-flight check makes after its invalidation may be a cache hit on
  a token another run stored in between, so it does not validate the credentials of its own run
  (`PreflightSeesNewToken` is what is left of the promise).
- An invalidation that fails is a line at debug level. The check then reads the token it was to get
  rid of, and passes without having tried the credentials (`InvalidationFails`).
- `BatchingReporter.shutdown` ("ensure all messages are processed") returns after its timeouts with
  messages in the queue (`GiveUpDraining`, `GiveUpJoining`); they are not written to disk either.
- A connection outlives the broker: a request in progress connects its device after `shutdown()` took
  its snapshot of the connected devices.
- After a burst the accumulator is back in normal mode, but nothing resets the reporter's
  `overflow_mode_active`, so every later batch goes through the queue. Order is kept (`InOrder`).
- `cleanup_stale_test_artifacts` leaves `pyats_results/` alone because reports "unconditionally"
  recreate it; without any archive `BeginReport` returns before that. It does no harm to the merged
  xUnit file, because then there are no PyATS results either (`Mergeable`).
- `pyats_archive_device_<hostname>.zip` is the archive of a device in every run, and no cleanup looks
  for it. It outlives a run that is stopped or whose aggregation fails. A job that returns 1 without
  having written one, because it was terminated, say, brings the old one into this run's D2D archive
  and its tests into the merged xUnit file (`DeviceJobEnds`, `CreateD2dArchive`). The counts and the
  exit code do not change, because they come from JSONL files.
- Two emergency dumps of one process in the same second have the same name (`overwritten`).

Of tests:

- A test that dies before it writes its summary record has no status in the report and is counted
  nowhere (`SummaryLine`).
- The tracking client never repeats a request because of a 5xx answer; `SmartRetry` does, for 502 to
  504, and after a 429 sleeps once more when no round is left (`Answers`). All 7 attempts wait
  at most 315 s and 30 s extra, not the "~10 minutes" of the comment at `base_test.py:941`.
- The setup of an SSH test waits for the broker without a timeout (`ssh_base_test.py:221-227`,
  `broker_client.py:131`): a broker that is alive and does not answer holds up the test until PyATS
  ends it (`AskBroker`).
- An output that its Genie parser could not use is in the cache all the same, for `parse_output()` and
  for commands that ask for the text (`ParserFails`).
- `os.system()` stops the event loop for as long as its script runs, retries of other items included
  (`busy`).
- Without a broker, commands of several items run in threads on one Unicon session
  (`DeviceAnswers`).
- A file that could not be written completely stays on disk, with the headers or the password in it
  (`FileFails`): the `try` that deletes files begins after they are written.

Of jobs:

- A line longer than the buffer limit raises `ValueError`; the handler for `LimitOverrunError` is
  never entered. The job is terminated and 1 is returned, which for a device counts as having passed
  although there may be no archive (`GiveUpReading`, `ReturnsOne`).
- A negative return code (a signal) is a success of an API job, not of a device job (`IsPath`).
- Orphaned tests are finalised by task id, which names no entry of the other dictionary: there they
  stay EXECUTING unless an archive fills them in. Tests of different devices share their names in it.
- The archive of an API job with a return code above 1 keeps its original name and is ignored if
  there is any other (`legacy`); a device job that died leaves no trace in the report.
- An archive torn by a kill is taken for that of the API job if the job's return code is 1 or
  negative; nothing is filled in from it, and tests whose end was lost stay EXECUTING (`FilledFrom`).
- A run waits for the last process that holds a job's pipe, not for the job (`held`).
- Files are registered after they are created: a signal in between leaves them, as does a testbed
  that cannot be generated, which leaves the job file; SIGTERM leaves the job file of the API tests
  (`Unregistered`). `broker_testbed.yaml` is never registered.

### Bounds, and why they are enough

- **Broker.** `MaxRequests` bounds requests per client, `OtherRequests` says which kinds they send
  besides commands. A waiter that finds an output in a cache object no longer in use takes three
  clients: one executes, the second waits to disconnect, the third behind it holds the object the
  first fills and the second drops. With three requests and the closer every pair of roles meets on
  a device (executing against healing, shutdown against both), and a session is replaced twice. A
  client that comes back is no different from another client, since a task at rest remembers nothing
  (`LocalInv`). Devices only meet at the semaphore, so one device is enough for all properties but
  the permits, which get two and an unknown one. The proofs need none of these bounds.
- **Client.** `MaxCalls` (of all coroutines together), `MaxSockets`: three coroutines fill the queue
  of each lock while one holds it, a fourth call meets what a call of the same coroutine left, and
  three sockets let a reconnection follow a reconnection.
- **AuthCache.** Two runs with a check and a test each: a holder, a waiter, a newcomer and a check
  that removes the lock file. `broken` records that removal, so that the properties of the lock
  can be stated up to it; in a single run it never happens, because the check is over before a
  test starts.
- **Batching.** Batch and queue of two and five messages fill the queue, spill to disk, and leave a
  third batch in flight. `MaxMessages` is the only bound that is not a parameter of the code.

- **TestProcess.** Two items, so that calls meet in the event loop, the pool and the cache; one
  thread and two commands make a command wait for a thread and another item use its output. Three
  attempts with an initial delay of 2 and a maximum of 3 seconds have a delay below the maximum
  and one at it, and one with and one without the extra delay; two rounds of `SmartRetry` have one
  that is repeated and a last one. All these are parameters of the code. An item makes one call:
  after it the item only evaluates, or starts a call in no other state than another item would.
- **ControllerResolution.** `Configured` names a controller with one credential set, one with two
  methods and one with two URLs; each of the other five has the shape of the first. One change of
  the environment (`MaxTries`): a second would start from a state that is also an initial one.
- **JobRun.** Two devices and one permit, so that one waits; one test for each job, as tasks of a
  job run one after the other; `PipeSize` 2 makes the process wait for the reader. `MaxFaults` is
  1 with three jobs; 3 faults with one device have been checked as well. Signals are not counted.
  `Outcomes` has `"errored"`, which is also what a task without an end is shown as, and one other
  result; no definition but `ExitCodes` tells results apart.
- **RunOutcome.** Two runs, so that the second meets all that the first can leave; a third would
  meet no more, since only the newest archive, no earlier JSONL file, and of each device one
  archive matters. One API test, one device and one Robot test with all four statuses;
  `FailureCap` is 2 rather than 250, so that three failures exceed it. Archives of devices meet
  only in the D2D archive, each in its own directory, so what becomes of one device's archive
  takes one device; two devices, whose old and new archives meet in one D2D archive, have been
  checked with tests that only pass. `MaxRuns` is the only bound that is not a parameter of the
  code; the proofs hold for any.

### Fairness

- Broker: weak fairness of every task and of shutdown's own steps. The event loop runs what is
  ready; asyncio locks and semaphores are first come, first served; a Unicon call ends by its
  own timeout. No fairness for clients, sessions, expiry or for the timeouts of `wait_for`: shutdown
  ends even if it never gives up.
- Client: weak fairness of every coroutine; the broker answers or closes.
- AuthCache: weak fairness of every process. `filelock` polls, so a process gets the lock only
  because the others make finitely many calls; this is so in a run, where each process asks once.
- Batching: weak fairness of each thread, not of the timeouts of shutdown.

- TestProcess: weak fairness of the phases, of each request and item, and of the part of a command
  and of the setup that does not depend on the broker (`OwnSetup`): httpx, scripts and Unicon have
  timeouts and the timeout of a command fires. The broker and its client may do nothing for ever; the
  setup then waits for ever, too, which is the one exception in `TestEnds`.
- JobRun: weak fairness of each job's process and coroutine, of aggregation and exit: PyATS
  ends tasks and jobs (`max_runtime`), what a job leaves behind ends some time, and the event loop
  serves every coroutine. None for faults and signals.
- ControllerResolution: none, it has no loop of its own.
- RunOutcome: none; a run may be stopped anywhere, and nothing is claimed of its end.

## Proofs

Every invariant and every refinement and action property that a passing run checks is a theorem, for
every value of the constants that satisfies the module's named assumptions. TLC evaluates these
assumptions in the runs. `MaxRequests`, `MaxCalls` and the other bounds are constants like any others:
the theorems hold however large they are.

Each module of proofs is laid out the same way. None of the properties is inductive, so it defines an
invariant `IInv` that adds what a task, process or thread knows in each of its states. Lemmas show
part by part that every action preserves it. The theorems follow; the sections below say what each
part is needed for.

### ConnectionBroker

`ConnectionBrokerProofs`, for any finite set of clients, any hostnames, commands and limits
(`TasksAssumption`, `HostsAssumption`, `LimitsAssumption`, `RequestsAssumption`, `FiniteAssumption`):

| Theorem | States |
|---|---|
| `TypeCorrect` | `Spec => []TypeOK` |
| `MutualExclusion` | `Spec => []OneCallPerDevice` |
| `SessionOwnership` | `Spec => []OwnSession` |
| `RetryFresh` | `Spec => RetryOnFreshSession` |
| `CacheFreshness` | `Spec => []CacheMatchesSession` |
| `AnswerFreshness` | `Spec => []AnswerNotOlderThanRequest` |
| `NoRedundancy` | `Spec => []NoRedundantExecution` |
| `PermitConservation` | `Spec => []PermitsConserved` |
| `Refinement` | `Spec => DeviceSpec` |

- `LockInv`: a task inside the critical section of a device is the owner of its lock, so there is
  only one. A release hands the lock over before the next owner goes on; for this nothing has to be
  known of the queues, because a task only enters once it finds itself the owner.
- `SessionInv`: per task, what its control state says of the device: registered or not, and on which
  session it works. It follows from `LockInv` that no other task's step disturbs it.
- `LocalInv`: what a task remembers (`since`, `used`) is not newer than the session in use or to
  be opened next, and a task at rest remembers nothing.
- `ShutdownInv`: a disconnect is only given up when no client has a socket any more; this is what
  keeps the exception in `CacheMatchesSession` from reaching a client's answer.
- `AgeInv`: not only the answers but what a waiting request would find is not older than the request.
- `MissInv`: from the miss under the lock until the command runs, the cache stays without its output.

The preservation of each part is split into the steps of tasks and the other steps. The frame lemmas
(`TaskFrame`, `OtherFrame`, `StepUnderLock`) say once what such a step leaves alone, so the parts
need only look at the task that moved. `PermitConservation` counts with the theorems on finite sets
and needs `TypeOK` only.

`Refinement` needs two invariants more. The abstract job of a device is read off the control state of
the owner of its lock, so a release that hands the lock to a task in the middle of anything would make
the job jump. `QueueInv` excludes it: who waits for a lock is at that device, waits there once and
owns nothing there, so the job is `"none"` when the next owner gets it. `StrayInv` says that only a
device which shutdown has turned to and left has a call that goes on without an owner, so a device
has never two such calls. `RefineInit`, `RefineTaskStep` and `RefineOtherStep` then map the initial
states, and every step to a step of `DeviceSession` on the device of the task that moved, or to none:
`MoveIsStep` turns a change of one device's job and session (`Moved`) into the abstract action, and
`JobStays`, `JobKept`, `JobFreed`, `JobJoined` say what becomes of the other devices.

### BrokerClient

`BrokerClientProofs`, for any coroutines, calls and sockets (`CallersAssumption`, `CallsAssumption`,
`BoundsAssumption`):

| Theorem | States |
|---|---|
| `TypeCorrect` | `Spec => []TypeOK` |
| `FramesArePaired` | `Spec => []FramesPaired` |
| `SocketsAreClosed` | `Spec => []NoSocketLeak` |

- `LockInv`: who has written owns the request lock, who opens, closes or pings the connection lock.
  A ping is a request inside `connect()`, so a coroutine may ask for the connection lock it owns; that
  it then waits in the queue for ever (`Waits`), and hence never closes the socket under its own
  `connect()`, is the only thing to be known of queues. It is also the hang that `LockCycle` names.
  A step that asks for a lock or owns it disturbs nobody (`Undisturbing`), so only the coroutine that
  moves has to be looked at (`LockKept`).
- `SocketInv`: nobody opens a socket while the client has one, and a client that is not connected has
  none: otherwise the next `connect()` would leak it.
- `FreshInv`: a socket to be opened has no requests, so none is answered there to somebody else.

### AuthCache

`AuthCacheProofs`, for any finite sets of runs and tests, with and without kills
(`PreflightAssumption`, `FiniteAssumption`, `FileAssumption`):

| Theorem | States |
|---|---|
| `TypeCorrect` | `Spec => []TypeOK` |
| `LockExcludes` | `Spec => []OneHolderUnlessBroken` |
| `LoginsAreShared` | `Spec => []NoNeedlessLogin` |
| `FilesAreSafe` | `Spec => []NoFileError` |
| `PreflightIsFresh` | `Spec => []PreflightSeesNewToken` |

- `LockInv`: a process inside the critical section has locked the file that is at the path, until
  somebody removes the lock file of another (`broken`).
- `FileInv`: what a process knows of the cache file while it has the lock: there is no valid token
  when it logs in, there is a file when it reads, the file is torn when it fills it.
- `NewTokenInv`: who has logged in does not hold the token of before the runs; this one is only in
  the cache while the check has not emptied it, or has failed to (`gaveUp`). It does not refer to
  the lock, which is why `PreflightIsFresh` holds with the lock broken, too.
- `IssuedInv`: the tokens issued and the processes that may still log in are no more than the
  processes, so that `Tokens` suffices: a counting argument, with finite sets.

### BatchingReporter

`BatchingReporterProofs`, for any sizes of batch and queue, any limit of memory and any number of
messages (`SizesAssumption`, `BoundAssumption`):

| Theorem | States |
|---|---|
| `TypeCorrect` | `Spec => []TypeOK` |
| `ReportedInOrder` | `Spec => []InOrder` |
| `NothingIsLost` | `Spec => []EachInOnePlace` |
| `MemoryIsRight` | `Spec => []MemoryIsAccounted` |
| `ShutdownIsComplete` | `Spec => []ShutdownProcessesAll` |

- `OrderInv`: what was sent comes before what the worker holds, that before the queue, and that
  before the buffer, each in order. `InOrder` alone says nothing of what is still to be sent.
- `PlaceInv`: each message that has been buffered is in exactly one of nine places (`At`), so that a
  step that moves messages has to say from which place to which.
- `ThreadInv`: there is a worker from the first burst on and no queue before, so the direct path of
  the test thread never overtakes the queue; and what is empty at each stage of a shutdown that does
  not give up.

The lemmas at the head of the module (`ToSetFacts`, `Appended`, `Split`, `Joined`, `PartFacts`) say
what the operations on sequences do to their sets of messages and to their order.

### ControllerResolution

`ControllerProofs`, for any subset of the registry's controllers and any number of changes to the
environment (`ConfiguredAssumption`):

| Theorem | States |
|---|---|
| `TypeCorrect` | `Spec => []TypeOK` |
| `AdviceHelps` | `Spec => []AdviceWorks` |
| `ProcessesAgree` | `Spec => []TestsAgree` |

The registry is a constant of the code, so what is needed of it is proved by cases: no two
controllers share a variable (`Disjoint`), and the sets of a controller with two of them differ in
their URL, or only in the other variables (`SetFacts`, `VarFacts`). A controller that shared a
variable with another would make both theorems false.

- `ErrorInv`: a refusal describes the environment as it is when the user reads it.
- `AdviceInv`: after the advice was followed, its controller is the only one with all its variables.
- `ContextInv`: what was resolved is the only complete controller, with its first matching set.

`LookupsAgree` shows that with one complete controller all lookups of a test return its data.

### TestProcess, ApiRequest, SshCommands

`TestProcessProofs`, for any items, commands, attempts, rounds and delays (`CallersAssumption`,
`RetriesAssumption`, `LimitsAssumption`). `Items` and `Commands` are not empty: without items there
is nothing to verify, and the command of a call is one of `Commands`.

| Theorem | States |
|---|---|
| `FilesAreDeleted` | `Spec => []NoTempFileLeft` |
| `DowntimeIsSlept` | `Spec => []DowntimeWasSlept` |
| `FailuresCount` | `Spec => []RaisedFails` |
| `AccountsAgree` | `Spec => []PlainResultsAgree` |
| `CacheIsHonest` | `Spec => []CachedWasAnswered` |

The invariant is that of the requests (`ApiInv`), that of the commands (`SshInv`) and that of the
test (`TestInv`); a step of one leaves the others alone (`ApiStays`, `SshStays`, `TestStays`).

- `SleptWell`: at each point of a call, what it has slept is the downtime of the attempts it has made
  and at most the extra seconds for them. `DowntimeWasSlept` speaks of the sums of all calls, of
  which one call knows nothing.
- `Tidy`: who works on its files is the one that holds up the loop, so no two do.
- `CachedWasAnswered` with the types of the commands is inductive.
- `StageInv`, `RaisedInv`: there are no results before the items are known, and a call that raised
  has left a failed result until the verdict is given.
- `JudgedInv`, `ShownInv`: verdict and records are computed from the results that are in; the summary
  takes the last record. `Agreement` compares the two computations by cases of the results.

`RecoveryDowntime` is a recursive function. That it exists for every number of attempts, and so has
the values its definition says, is shown without induction: `Sums(n)` are the functions that satisfy
the definition up to `n`, and a smallest `n` without one leads to a contradiction (`SumsExist`,
`DowntimeFacts`; `<` on the naturals is well-founded).

### JobRun, CleanupManager

`JobRunProofs`, for any finite set of devices, any tests, results, pipes and faults
(`JobsAssumption`, `NamesAssumption`, `OutcomesAssumption`, `FilesAssumption`).
`OutcomesAssumption` says that `"errored"` is a result and that results differ from the marks of
tasks that have none yet. `NamesAssumption` says that the names of tests are paths: those of API
tests differ from each other and from those of device tests. Names of device tests may be equal;
`ArchivesTell` is about API tests only.

| Theorem | States |
|---|---|
| `TypeCorrect` | `Spec => []TypeOK` |
| `StatusesAreTrue` | `Spec => []StatusIsTrue` |
| `ArchivesTell` | `Spec => []ArchiveTells` |
| `FinishedJobsCounted` | `Spec => []FinishedJobsCount` |
| `FilesAreRemoved` | `Spec => []LeftBehind` |

- `JobInv`: coroutine, process and what it leaves: no process before the job is started, no running
  test after it has ended, no archive of a process that is alive; the path of a job that ended well
  is returned.
- `LineInv`: every line in a pipe says what is so, and will be when it is read: a task whose end is
  in the pipe has its result, its start comes before its end, the end of the job is the last line.
- `SeenInv`: so does an event that has been handled.
- `ShownInv`, `ReportInv`: what is shown is a result or EXECUTING, the latter only before the end of
  the test was handled; what is reported of an API test is its result or may still be filled in.
- `FilesInv`: each file is registered, kept for debugging, or `Unregistered`, which is read off the
  states of the jobs.

`Monotone` says once that a result, an exit and an archive are never taken back.

### RunOutcome

`RunOutcomeProofs`, for any finite sets of tests and devices, any number of runs and any cap up
to 250 (`TestsAssumption`, `StatusesAssumption`, `BoundsAssumption`, `CapAssumption`):

| Theorem | States |
|---|---|
| `RunTypeCorrect` | `Spec => []TypeOK` |
| `CountsOwn` | `Spec => []CountsAreOwn` |
| `FailuresReachExitCode` | `Spec => []FailuresShow` |
| `OwnXunitFirst` | `Spec => []StaleXunitOnlyWithoutOwn` |

- `ShapeInv`: what a phase implies: jobs only run in `"jobs"`, nothing is collected, archived or
  merged before its time. Without it an interrupted run could leave anything to the next.
- `FilesInv`: while PyATS is under way, the JSONL files in `temp` and `gathered` together are exactly
  those of the tests that wrote in this run (`Own`), and the tests of jobs in progress have not
  written. It is what the deletion at the start of a run establishes.
- `FailedInv`: the results of a type whose archive was processed have all its failures. `CountsAreOwn`
  alone would allow a type to have no results.
- `ArchiveInv`: no archive is newer than the run, so the newest archive of a type is the run's own
  if there is one.
- `PartsInv`: the archives that devices' jobs have written in this run are on disk until they are
  aggregated, so the D2D archive holds none older of these devices, whatever lay there under their
  names. It needs that no D2D archive of the run exists before, which is `ArchiveInv`.

That counting files is counting tests (`CountOwn`) is a bijection between the two sets; that there is
a newest archive (`Greatest`) uses that inclusion of finite sets is well-founded.

### Only model-checked

- Liveness: `RequestsEnd`, `ShutdownEnds`, `CallsReturnUnlessLocked`, `CallsEnd`, `ShutdownReturns`,
  `TestEnds`, `RunEnds`. Fairness is about ENABLED, which the prover does not reason about.
- The type invariant of `TestProcess`. That delays are not negative needs that powers of two are
  positive, an induction the provers cannot do; the proofs only use that delays are integers.
- The violations, which are counterexamples on their instances.

## Plan

What is left, the most important first:

1. A composition of `BrokerClient` with a broker that fails as `ConnectionBroker` does; two accounts
   in `AuthCache`, whose key does not name the account.
2. The sums of the merged xUnit file, and the names of directories in the aggregation of device
   archives: those of devices whose names end in the same word after an underscore overwrite each
   other there (`archive_aggregator.py:65`); `CreateD2dArchive` draws freely which are left.
3. Proofs of what is true but not yet stated, such as the conditions under which `ExecutedOnce` and
   `OneHolder` do hold.

## Not modelled

- The device connection manager: only the text of device jobs creates one
  (`job_generator.py:144`), with one connection at a time, and the tests of such a job use the broker
  or their testbed device instead. Its locks and limits never meet two users.
- Discovery of tests and devices, tag matching, rendering of Robot templates, generation of testbeds
  and job files: sequential functions of files. What they find is drawn freely in `RunOutcome` and
  `JobRun`.
- `system_resources.py`: arithmetic on measurements; its result is `Parallel`.
- `cleanup_pyats_runtime` and `cleanup_old_test_outputs`, which delete by name and age before a run.
- HTML and dashboard generation, logging, banners, configuration and argument parsing: no state that
  a property could be about.

`PROJECT.json` (`components`) lists every part with its status.
