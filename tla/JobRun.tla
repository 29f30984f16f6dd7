------------------------------- MODULE JobRun -------------------------------
(***************************************************************************)
(* The PyATS jobs of a run, from the preparation of their files to the     *)
(* archives that are reported: pyats_core/orchestrator.py with             *)
(* execution/subprocess_runner.py, execution/output_processor.py,          *)
(* execution/device/device_executor.py, progress/plugin.py and             *)
(* progress/reporter.py.                                                   *)
(*                                                                         *)
(* The orchestrator starts a process for the API tests and, as far as the  *)
(* semaphore admits them, one for each device.  The plugin in the process  *)
(* prints progress events, which reach a coroutine of the orchestrator     *)
(* through a pipe, between the lines that the tests print.  A process      *)
(* leaves an archive; its return code decides what becomes of it.  The     *)
(* output directory holds no archive of an earlier run: those, and what    *)
(* is counted and merged from them, are in RunOutcome.                     *)
(*                                                                         *)
(* Progress is kept twice: OutputProcessor has a dictionary by task id,    *)
(* as "test_status or {}" drops the empty one it is given, which           *)
(* ProgressReporter and the orchestrator share, by test name.              *)
(*                                                                         *)
(* Definitions whose comment begins with "Mutant" are faulty versions of   *)
(* the definition after them; no specification uses them.                  *)
(***************************************************************************)
EXTENDS Sequences, SequencesExt, CleanupManager

CONSTANTS
    Devices,     \* the devices with D2D tests
    Outcomes,    \* the results PyATS gives to tasks
    ApiNames,    \* the names of the API tests, in the order of their job
    D2dNames,    \* the names of the D2D tests, in the order of each device's job
    Parallel,    \* permits of the semaphore
    PipeSize,    \* bound: lines the pipe and its StreamReader hold
    MaxFaults    \* bound on lost lines, overlong lines, lost tasks, processes that
                 \* die, processes that outlive the job, and failing steps

ASSUME JobsAssumption == /\ IsFiniteSet(Devices) /\ "api" \notin Devices
                         /\ Parallel \in Nat \ {0} /\ PipeSize \in Nat \ {0}
                         /\ MaxFaults \in Nat

\* There is a job only where there are tests.  The name of a test is the path of
\* its file (derive_test_name()), which holds API tests or D2D tests.
ASSUME NamesAssumption ==
    /\ ApiNames \in Seq(STRING) \ {<<>>} /\ D2dNames \in Seq(STRING) \ {<<>>}
    /\ IsInjective(ApiNames) /\ ToSet(ApiNames) \cap ToSet(D2dNames) = {}

\* PyATS also knows skipped, blocked, aborted and passx, and may know more.
ASSUME OutcomesAssumption == /\ "errored" \in Outcomes
                             /\ {"none", "running", "EXECUTING"} \cap Outcomes = {}

Jobs     == Devices \cup {"api"}
Names(j) == IF j = "api" THEN ApiNames ELSE D2dNames
Tasks    == UNION {{<<j, i>> : i \in DOMAIN Names(j)} : j \in Jobs}
TasksOf(j)  == {t \in Tasks : t[1] = j}
NameOf(t)   == Names(t[1])[t[2]]
TestNames   == {NameOf(t) : t \in Tasks}
JobFile(j)  == <<"job", j>>
Testbed(d)  == <<"testbed", d>>
RunFiles    == {<<"run", "merged">>, <<"run", "config">>}
DeviceFiles(d) == {JobFile(d), Testbed(d)}

ASSUME FilesAssumption == RunFiles \cup UNION {DeviceFiles(j) : j \in Jobs} \subseteq Files

VARIABLES
    job,       \* job[j]: the coroutine that runs the job
    proc,      \* proc[j]: the process of the job
    rc,        \* its return code
    zip,       \* zip[j]: the archive its process has written; "torn" is one that
               \* cannot be read or lacks the results
    held,      \* jobs whose pipe another process still holds open
    pipe,      \* pipe[j]: the lines that have not been read
    ran,       \* ran[t]: what became of the task in its process
    shown,     \* shown[t]: OutputProcessor.test_status
    reported,  \* reported[n]: ProgressReporter.test_status, also the orchestrator's
    seen,      \* history: the "end" and "job_end" events that have been handled
    own,       \* own[d]: the status DeviceExecutor gives the tests of the device
    paths,     \* jobs whose coroutine has returned a path
    archives,  \* the archives in the output directory, by type
    faults     \* what has gone wrong so far

processVars == <<proc, rc, zip, held, ran>>
statusVars  == <<shown, reported, seen>>
resultVars  == <<own, paths, archives>>
vars == <<job, processVars, pipe, statusVars, resultVars, faults, cleanupVars>>

Init ==
    /\ job = [j \in Jobs |-> "idle"]
    /\ proc = [j \in Jobs |-> "none"] /\ rc = [j \in Jobs |-> 0]
    /\ zip = [j \in Jobs |-> "none"] /\ held = {} /\ pipe = [j \in Jobs |-> <<>>]
    /\ ran = [t \in Tasks |-> "none"] /\ shown = [t \in Tasks |-> "none"]
    /\ reported = [n \in TestNames |-> "none"] /\ seen = {}
    /\ own = [d \in Devices |-> "none"] /\ paths = {} /\ archives = {} /\ faults = 0
    /\ CleanupInit(RunFiles, RunFiles)

Running == main = "running"
Become(j, state) == job' = [job EXCEPT ![j] = state]
Fault == faults < MaxFaults /\ faults' = faults + 1

(***************************************************************************)
(* The process of a job: PyATS with the plugin.  Its tasks run one after   *)
(* the other.                                                              *)
(***************************************************************************)
Line(kind, t) == [kind |-> kind, task |-> t]

PrintLine(j, line) == /\ Len(pipe[j]) < PipeSize
                      /\ pipe' = [pipe EXCEPT ![j] = Append(@, line)]

\* _emit_event(): an event may fail, or be glued to an unfinished line.
Emit(j, line) == \/ PrintLine(j, line) /\ UNCHANGED faults
                 \/ PrintLine(j, Line("output", line.task)) /\ Fault

Next1(j)  == {t \in TasksOf(j) : ran[t] = "none" /\ \A u \in TasksOf(j) : u[2] < t[2] => ran[u] # "none"}
Current(j) == {t \in TasksOf(j) : ran[t] = "running"}
ProcessOnly == UNCHANGED <<job, statusVars, resultVars, cleanupVars>>

\* pre_task()
TaskStarts(j) ==
    /\ proc[j] = "up" /\ Current(j) = {}
    /\ \E t \in Next1(j) : /\ Emit(j, Line("start", t))
                           /\ ran' = [ran EXCEPT ![t] = "running"]
    /\ ProcessOnly /\ UNCHANGED <<proc, rc, zip, held>>

\* post_task()
TaskEnds(j) ==
    /\ proc[j] = "up"
    /\ \E t \in Current(j), result \in Outcomes :
           /\ Emit(j, Line("end", t))
           /\ ran' = [ran EXCEPT ![t] = result]
    /\ ProcessOnly /\ UNCHANGED <<proc, rc, zip, held>>

Lost(t) == IF ran[t] = "running" THEN "errored" ELSE ran[t]

\* A task that fails in its setup or exceeds max_runtime: post_task() is not called.
TaskLost(j) ==
    /\ proc[j] = "up" /\ Current(j) # {} /\ Fault
    /\ ran' = [t \in Tasks |-> IF t \in TasksOf(j) THEN Lost(t) ELSE ran[t]]
    /\ ProcessOnly /\ UNCHANGED <<proc, rc, zip, held, pipe>>

\* A test prints a line longer than PYATS_OUTPUT_BUFFER_LIMIT.
PrintsOverlong(j) ==
    /\ proc[j] = "up" /\ Fault
    /\ \E t \in Current(j) : PrintLine(j, Line("overlong", t))
    /\ ProcessOnly /\ UNCHANGED processVars

\* post_job(): the sentinel after job_end is left out, see Returns.
PostJob(j) ==
    /\ proc[j] = "up" /\ Current(j) = {} /\ Next1(j) = {}
    /\ Emit(j, Line("job_end", <<j, 1>>))
    /\ proc' = [proc EXCEPT ![j] = "closing"]
    /\ ProcessOnly /\ UNCHANGED <<rc, zip, held, ran>>

\* PyATS fails a job for a test that failed or errored; what the other results
\* count for is up to it.
ExitCodes(R) == IF R \cap {"failed", "errored"} # {} THEN {1}
                ELSE IF R \subseteq {"passed"} THEN {0} ELSE {0, 1}

\* The process ends on its own; one that it has started may live on.
Exits(j) ==
    /\ proc[j] = "closing"
    /\ proc' = [proc EXCEPT ![j] = "exited"]
    /\ \E code \in ExitCodes({ran[t] : t \in TasksOf(j)}) : rc' = [rc EXCEPT ![j] = code]
    /\ zip' = [zip EXCEPT ![j] = "whole"]
    /\ \/ UNCHANGED <<held, faults>>
       \/ held' = held \cup {j} /\ Fault
    /\ ProcessOnly /\ UNCHANGED <<pipe, ran>>

Dies(j, code) ==
    /\ proc' = [proc EXCEPT ![j] = "exited"]
    /\ rc' = [rc EXCEPT ![j] = code]
    /\ ran' = [t \in Tasks |-> IF t \in TasksOf(j) THEN Lost(t) ELSE ran[t]]
    /\ \/ UNCHANGED zip
       \/ proc[j] = "closing" /\ \E z \in {"torn", "whole"} : zip' = [zip EXCEPT ![j] = z]

\* It crashes, with a code of its own or with that of failed tests, or a signal
\* ends it; it may have been writing its archive.
Crashes(j) ==
    /\ proc[j] \in {"up", "closing"} /\ Fault
    /\ \E code \in {1, 2, -9} : Dies(j, code)
    /\ ProcessOnly /\ UNCHANGED <<held, pipe>>

LetsGo(j) ==
    /\ j \in held /\ held' = held \ {j}
    /\ ProcessOnly /\ UNCHANGED <<proc, rc, zip, pipe, ran, faults>>

(***************************************************************************)
(* OutputProcessor and ProgressReporter.                                   *)
(***************************************************************************)
\* Mutant: job_end finishes the tasks of all jobs.
OrphansOfAll(j) == {t \in Tasks : shown[t] = "EXECUTING"}

\* _finalize_orphaned_tests(): those of the same worker.
Orphans(j) == {t \in TasksOf(j) : shown[t] = "EXECUTING"}

\* report_test_start(), report_test_end(): by test name.
Report(n, status) == reported' = [reported EXCEPT ![n] = status]

\* process_line(), _handle_progress_event().  Orphans are reported by their task
\* id, which names no entry of the reporter.
Handle(j, line) ==
    LET t == line.task
    IN  CASE line.kind = "start" ->
                /\ shown' = [shown EXCEPT ![t] = "EXECUTING"]
                /\ Report(NameOf(t), "EXECUTING") /\ UNCHANGED seen
          [] line.kind = "end" ->
                /\ shown' = [shown EXCEPT ![t] = IF @ = "none" THEN @ ELSE ran[t]]
                /\ reported' = [reported EXCEPT ![NameOf(t)] = IF @ = "none" THEN @ ELSE ran[t]]
                /\ seen' = seen \cup {line}
          [] line.kind = "job_end" ->
                /\ shown' = [u \in Tasks |-> IF u \in Orphans(j) THEN "errored" ELSE shown[u]]
                /\ seen' = seen \cup {line} /\ UNCHANGED reported
          [] OTHER -> UNCHANGED statusVars

(***************************************************************************)
(* The coroutine of a job.  Its files are prepared without a break, unless *)
(* a signal arrives.                                                       *)
(***************************************************************************)
CoroutineOnly == UNCHANGED <<processVars, pipe, statusVars>>

Admitted == Cardinality({d \in Devices : job[d] \notin {"idle", "returned"}})

\* run_device_job_with_semaphore(), _execute_api_tests_standard().
CreateJobFile(j) ==
    /\ Running /\ job[j] = "idle"
    /\ j \in Devices => Admitted < Parallel
    /\ Create(JobFile(j)) /\ Become(j, IF j = "api" THEN "ready" ELSE "job file")
    /\ CoroutineOnly /\ UNCHANGED <<resultVars, faults>>

CreateTestbed(d) ==
    /\ Running /\ job[d] = "job file"
    /\ Create(Testbed(d)) /\ Become(d, "testbed")
    /\ CoroutineOnly /\ UNCHANGED <<resultVars, faults>>

\* An exception in run_device_job_with_semaphore().
PreparationFails(d) ==
    /\ Running /\ job[d] = "job file" /\ Fault
    /\ Become(d, "returned")
    /\ CoroutineOnly /\ UNCHANGED <<resultVars, cleanupVars>>

RegisterFiles(d) ==
    /\ Running /\ job[d] = "testbed"
    /\ Register(DeviceFiles(d)) /\ Become(d, "ready")
    /\ own' = [own EXCEPT ![d] = "pending"]
    /\ CoroutineOnly /\ UNCHANGED <<paths, archives, faults>>

StartProcess(j) ==
    /\ Running /\ job[j] = "ready"
    /\ Become(j, "reading") /\ proc' = [proc EXCEPT ![j] = "up"]
    /\ UNCHANGED <<rc, zip, held, ran, pipe, statusVars, resultVars, faults, cleanupVars>>

Read(j) ==
    /\ Running /\ job[j] = "reading" /\ pipe[j] # <<>> /\ Head(pipe[j]).kind # "overlong"
    /\ Handle(j, Head(pipe[j]))
    /\ pipe' = [pipe EXCEPT ![j] = Tail(@)]
    /\ UNCHANGED <<job, processVars, resultVars, faults, cleanupVars>>

\* Mutant: the job is left to itself.
ReadNoMore(j) ==
    /\ Running /\ job[j] = "reading" /\ pipe[j] # <<>> /\ Head(pipe[j]).kind = "overlong"
    /\ Become(j, "terminating")
    /\ UNCHANGED <<processVars, pipe, statusVars, resultVars, faults, cleanupVars>>

\* readline() raises ValueError, which is not the LimitOverrunError that the
\* loop handles: the process is terminated, and nothing more is read.
GiveUpReading(j) ==
    /\ Running /\ job[j] = "reading" /\ pipe[j] # <<>> /\ Head(pipe[j]).kind = "overlong"
    /\ Become(j, "terminating")
    /\ IF proc[j] = "exited" THEN UNCHANGED <<proc, rc, zip, ran>> ELSE Dies(j, -15)
    /\ UNCHANGED <<held, pipe, statusVars, resultVars, faults, cleanupVars>>

\* Mutant: failed tests are an error of PyATS.
NonZero(j, code) == code = 0

\* execute_job(), execute_job_with_testbed(): is a path returned?
IsPath(j, code) == IF j = "api" THEN code <= 1 ELSE code \in {0, 1}

\* Mutant: a status is a status, EXECUTING as well.
FilledIfNew(R, old) == [n \in TestNames |->
    IF old[n] = "none" /\ n \in DOMAIN R THEN R[n] ELSE old[n]]

\* _populate_test_status_from_archive(): reported, filled in with the results R.
Filled(R, old) == [n \in TestNames |->
    IF old[n] \in {"none", "EXECUTING"} /\ n \in DOMAIN R THEN R[n] ELSE old[n]]

ResultsOf(j) == [n \in ToSet(Names(j)) |-> ran[CHOOSE t \in TasksOf(j) : NameOf(t) = n]]

\* An archive that cannot be read, or has no results.json, fills in nothing.
FilledFrom(j) == IF zip[j] = "whole" THEN Filled(ResultsOf(j), reported) ELSE reported

\* The rest of execute_job() and _execute_api_tests_standard().
ApiReturns(code) ==
    LET found == IsPath("api", code) /\ zip["api"] # "none"
    IN  /\ archives' = archives \cup (IF found THEN {"api"}
                                      ELSE IF zip["api"] # "none" THEN {"legacy"} ELSE {})
        /\ reported' = IF found THEN FilledFrom("api") ELSE reported
        /\ Unlink(JobFile("api"))
        /\ UNCHANGED own

DeviceReturns(d, code) ==
    /\ own' = [own EXCEPT ![d] = IF IsPath(d, code) THEN "passed" ELSE "failed"]
    /\ UNCHANGED <<archives, reported, cleanupVars>>

JobReturns(j, code) ==
    /\ Become(j, "returned")
    /\ paths' = IF IsPath(j, code) THEN paths \cup {j} ELSE paths
    /\ IF j = "api" THEN ApiReturns(code) ELSE DeviceReturns(j, code)
    /\ UNCHANGED <<processVars, pipe, shown, seen>>

\* create_subprocess_exec() raises.
StartFails(j) ==
    /\ Running /\ job[j] = "ready" /\ Fault
    /\ JobReturns(j, 2)

\* readline() has returned everything once the pipe is closed, so that
\* _drain_remaining_buffer_safe(), for want of the sentinel, finds nothing.
Returns(j) ==
    /\ Running /\ job[j] = "reading" /\ pipe[j] = <<>>
    /\ proc[j] = "exited" /\ j \notin held
    /\ JobReturns(j, rc[j]) /\ UNCHANGED faults

ReturnsOne(j) ==
    /\ Running /\ job[j] = "terminating" /\ proc[j] = "exited"
    /\ JobReturns(j, 1) /\ UNCHANGED faults

(***************************************************************************)
(* The end of the run.                                                     *)
(***************************************************************************)
Returned(J) == \A j \in J : job[j] = "returned"
Zipped == {d \in Devices \cap paths : zip[d] # "none"}

\* _execute_device_tests_with_broker(): aggregate_device_archives(), which may
\* fail in RunOutcome but not here, and the results.json of one of the devices
\* whose archive could be extracted.
Aggregate ==
    /\ Running /\ Returned(Devices) /\ Zipped # {} /\ "d2d" \notin archives
    /\ LET whole == {d \in Zipped : zip[d] = "whole"}
       IN  IF whole = {} THEN UNCHANGED reported
           ELSE \E d \in whole : reported' = FilledFrom(d)
    /\ archives' = archives \cup {"d2d"}
    /\ UNCHANGED <<job, processVars, pipe, shown, seen, own, paths, faults, cleanupVars>>

\* The archives ArchiveInspector and _generate_html_reports_async() choose.
Reported == IF archives \cap {"api", "d2d"} # {} THEN archives \ {"legacy"} ELSE archives

Done == Returned(Jobs) /\ (Zipped # {} => "d2d" \in archives)

\* The run ends, or the KeyboardInterrupt has passed through the finally blocks;
\* another SIGINT skips them.
Exit ==
    /\ \/ Running /\ Done /\ UNCHANGED job
       \/ main = "interrupted" /\ UNCHANGED job
    /\ AtExit
    /\ UNCHANGED <<processVars, pipe, statusVars, resultVars, faults>>

Unwind ==
    /\ main = "interrupted" /\ JobFile("api") \in disk
    /\ Unlink(JobFile("api"))
    /\ UNCHANGED <<job, processVars, pipe, statusVars, resultVars, faults>>

Signal == /\ Terminate \/ Interrupt \/ Kill
          /\ UNCHANGED <<job, processVars, pipe, statusVars, resultVars, faults>>

Process(j) == TaskStarts(j) \/ TaskEnds(j) \/ PostJob(j) \/ Exits(j) \/ LetsGo(j)
Coroutine(j) == \/ CreateJobFile(j) \/ StartProcess(j) \/ Read(j) \/ GiveUpReading(j)
                \/ Returns(j) \/ ReturnsOne(j)
                \/ j \in Devices /\ (CreateTestbed(j) \/ RegisterFiles(j))
Faulty(j) == \/ TaskLost(j) \/ PrintsOverlong(j) \/ Crashes(j) \/ StartFails(j)
             \/ j \in Devices /\ PreparationFails(j)

Next == \/ Running /\ \E j \in Jobs : Process(j) \/ Coroutine(j) \/ Faulty(j)
        \/ Aggregate \/ Exit \/ Unwind \/ Signal

Spec == Init /\ [][Next]_vars

\* PyATS ends its jobs and the tasks in them, and whatever a job leaves behind
\* ends some time; the event loop serves every coroutine that can go on.
FairSpec == /\ Spec
            /\ \A j \in Jobs : WF_vars(Running /\ Process(j)) /\ WF_vars(Running /\ Coroutine(j))
            /\ WF_vars(Aggregate) /\ WF_vars(Exit)

(***************************************************************************)
(* Properties.                                                             *)
(***************************************************************************)
Statuses == {"none", "EXECUTING"} \cup Outcomes

TypeOK ==
    /\ job \in [Jobs -> {"idle", "job file", "testbed", "ready", "reading", "terminating", "returned"}]
    /\ proc \in [Jobs -> {"none", "up", "closing", "exited"}]
    /\ rc \in [Jobs -> {0, 1, 2, -9, -15}]
    /\ zip \in [Jobs -> {"none", "torn", "whole"}] /\ held \subseteq Jobs /\ paths \subseteq Jobs
    /\ pipe \in [Jobs -> Seq([kind: {"start", "end", "job_end", "output", "overlong"},
                              task: Tasks])]
    /\ \A j \in Jobs : Len(pipe[j]) <= PipeSize /\ \A i \in DOMAIN pipe[j] : pipe[j][i].task[1] = j
    /\ ran \in [Tasks -> {"none", "running"} \cup Outcomes]
    /\ shown \in [Tasks -> Statuses] /\ reported \in [TestNames -> Statuses]
    /\ seen \subseteq [kind: {"end", "job_end"}, task: Tasks]
    /\ own \in [Devices -> {"none", "pending", "passed", "failed"}]
    /\ archives \subseteq {"api", "d2d", "legacy"} /\ faults \in 0 .. MaxFaults
    /\ disk \cup registered \subseteq Files
    /\ main \in {"running", "interrupted", "over"}
    /\ signal \in {"none", "SIGTERM", "SIGINT", "SIGKILL"}

JobEndSeen(j) == Line("job_end", <<j, 1>>) \in seen

\* A task whose end was reported is shown with the result it got.  Another one is
\* shown as errored, and not before the end of its own job: the end of another job
\* says nothing about it.  After the end of its job no task is shown as executing.
StatusIsTrue ==
    \A t \in Tasks :
        /\ shown[t] \in Outcomes =>
               IF Line("end", t) \in seen THEN shown[t] = ran[t]
               ELSE shown[t] = "errored" /\ JobEndSeen(t[1])
        /\ shown[t] = "EXECUTING" => ~JobEndSeen(t[1])

\* When the API job has left an archive with results, the orchestrator knows the
\* result of each of its tests, whichever progress events were lost.
ArchiveTells ==
    "api" \in archives /\ zip["api"] = "whole" =>
        \A t \in TasksOf("api") : reported[NameOf(t)] = ran[t]

\* Whatever goes wrong with other jobs, with events and with preparations, the
\* archive of a job that has ended on its own is among those the reports are made
\* from.
FinishedJobsCount ==
    Done => \A j \in Jobs : zip[j] = "whole" /\ rc[j] \in {0, 1} =>
                IF j = "api" THEN "api" \in Reported ELSE j \in Zipped /\ "d2d" \in Reported

\* Unless it is killed, a run leaves no file behind but those that are kept for
\* debugging and those that had not been registered yet, or never are: the files
\* of a device whose preparation did not come to its end, and the job file of API
\* tests that were given up.
Unregistered == (IF job["api"] = "returned" THEN {} ELSE {JobFile("api")})
                \cup UNION {DeviceFiles(d) : d \in {d \in Devices : own[d] = "none"}}

LeftBehind ==
    main = "over" /\ signal # "SIGKILL" =>
        disk \subseteq Unregistered \cup (IF Debug THEN KeepIfDebug ELSE {})

\* Every run ends: no job waits for a process that waits for its reader.
RunEnds == <>(main = "over")
=============================================================================
