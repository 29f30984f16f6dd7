----------------------------- MODULE RunOutcome -----------------------------
(***************************************************************************)
(* What a run of nac-test makes of its jobs: combined_orchestrator.py,     *)
(* pyats_core/orchestrator.py with its subprocess runner and the reports   *)
(* from archives, robot/orchestrator.py, core/types.py and cli/main.py.    *)
(*                                                                         *)
(* Runs follow each other in one output directory.  A run checks the       *)
(* controller, runs the PyATS jobs (one for the API tests and one for each *)
(* device), collects what they left on disk, runs the Robot tests, merges  *)
(* the xUnit files and exits.  A PyATS test leaves a JSONL file, whose     *)
(* last record is its summary; a job leaves an archive with its xUnit      *)
(* file.  Those of the devices have the same name in every run, and are    *)
(* aggregated into one.  A run may be interrupted or killed between any    *)
(* two steps.                                                              *)
(*                                                                         *)
(* The file system refuses nothing, except where the code handles it.      *)
(*                                                                         *)
(* Definitions whose comment begins with "Mutant" are faulty versions of   *)
(* the definition after them; no specification uses them.                  *)
(***************************************************************************)
EXTENDS Integers, FiniteSets

CONSTANTS
    ApiTests,    \* the PyATS tests of the API job
    Devices,     \* the devices of the data model; a device's job has one test
    Statuses,    \* the statuses that tests write
    RobotTests,  \* the number of Robot tests
    MaxRuns,     \* bound on the runs in the output directory
    FailureCap   \* EXIT_FAILURE_CAP

ASSUME TestsAssumption ==
    /\ IsFiniteSet(ApiTests) /\ IsFiniteSet(Devices) /\ ApiTests \cap Devices = {}
    /\ "api" \notin Devices
ASSUME BoundsAssumption == RobotTests \in Nat /\ MaxRuns \in Nat
ASSUME CapAssumption    == FailureCap \in 1 .. 250

Types == {"api", "d2d"}
Tests == ApiTests \cup Devices
TypeOf(x)  == IF x \in ApiTests THEN "api" ELSE "d2d"
TestsOf(t) == IF t = "api" THEN ApiTests ELSE Devices

Modes == {"execute", "dry_run", "render_only"}
Runs  == 1 .. MaxRuns

\* The status in the summary of a JSONL file; "unfinished" has no summary.
Written == {"passed", "failed", "skipped", "unfinished"}

ASSUME StatusesAssumption == Statuses \subseteq Written

(***************************************************************************)
(* TestResults: state and counts.  "absent" is None, and "interrupted" an  *)
(* error of that type.                                                     *)
(***************************************************************************)
States  == {"absent", "success", "empty", "skipped", "error", "interrupted"}
Results == [state: States, passed: Nat, failed: Nat, skipped: Nat]

NoCounts(state) == [state |-> state, passed |-> 0, failed |-> 0, skipped |-> 0]
None == NoCounts("absent")

Total(r)  == r.passed + r.failed + r.skipped
Failed(c) == c.api.failed + c.d2d.failed + c.robot.failed

HasErrors(c) == \E k \in DOMAIN c : c[k].state \in {"error", "interrupted"}
Interrupted(c) == \E k \in DOMAIN c : c[k].state = "interrupted"
WasNotRun(c) == /\ \E k \in DOMAIN c : c[k].state # "absent"
                /\ \A k \in DOMAIN c : c[k].state \in {"absent", "skipped"}
IsEmpty(c) == \A k \in DOMAIN c : Total(c[k]) = 0

PreflightFailure == 1
DataError        == 252
InterruptedCode  == 253
ErrorCode        == 255
Running          == -1
Killed           == -2
ExitCodes == {0, PreflightFailure, DataError, InterruptedCode, ErrorCode, Running, Killed}
             \cup 1 .. FailureCap

\* Mutant: failures are counted without a limit.
NoCap(c, preflight) ==
    IF preflight THEN PreflightFailure
    ELSE IF Interrupted(c) THEN InterruptedCode
    ELSE IF HasErrors(c) THEN ErrorCode
    ELSE IF Failed(c) > 0 THEN Failed(c)
    ELSE IF WasNotRun(c) THEN 0
    ELSE IF IsEmpty(c) THEN DataError ELSE 0

\* Mutant: what was not run is told from what failed first.
SkippedFirst(c, preflight) ==
    IF preflight THEN PreflightFailure
    ELSE IF Interrupted(c) THEN InterruptedCode
    ELSE IF HasErrors(c) THEN ErrorCode
    ELSE IF \E k \in DOMAIN c : c[k].state = "skipped" \/ c[k].skipped > 0 THEN 0
    ELSE IF IsEmpty(c) THEN DataError
    ELSE IF Failed(c) < FailureCap THEN Failed(c) ELSE FailureCap

ExitCode(c, preflight) ==
    IF preflight THEN PreflightFailure
    ELSE IF Interrupted(c) THEN InterruptedCode
    ELSE IF HasErrors(c) THEN ErrorCode
    ELSE IF Failed(c) > 0
         THEN IF Failed(c) < FailureCap THEN Failed(c) ELSE FailureCap
    ELSE IF WasNotRun(c) THEN 0
    ELSE IF IsEmpty(c) THEN DataError ELSE 0

\* Render-only runs exit with 0 unless the rendering failed; nothing else of
\* main() differs from exit_code, except that a dry run of PyATS alone is empty
\* there as well and exits with the code for it, 0.
MainExit(mode, c, preflight) ==
    IF mode = "render_only" /\ ~HasErrors(c) THEN 0 ELSE ExitCode(c, preflight)

VARIABLES
    archives,   \* archives[t]: the runs whose archive of type t is on disk
    temp,       \* temp[t]: the JSONL files in <t>/html_report_data_temp, each
                \* with its run, its test and the status it tells
    reports,    \* reports[t]: the run whose archive is extracted in
                \* pyats_results/<t>, 0 if none
    zips,       \* zips[d]: the run that wrote the archive of device d that is on
                \* disk, 0 if there is none
    parts,      \* parts[n]: the devices and runs whose results the D2D archive of
                \* run n holds
    run,        \* the number of the current run, or of the last one
    phase,      \* "over" when no run is in progress
    plan,       \* what the command line and the directory of tests ask for
    jobs,       \* PyATS jobs in progress: "api" and devices
    zipped,     \* devices whose job has returned the path of an archive, until
                \* they are aggregated
    outcome,    \* outcome[t]: how the archive of type t was processed
    gathered,   \* gathered[t]: the JSONL files in pyats_results/<t>
    results,    \* CombinedResults
    preflight,  \* has the pre-flight check failed?
    merged,     \* the xUnit files that have been merged: of the API job or of a
                \* device, and of which run
    exit,       \* the exit code of the run
    wrote,      \* history: what each test wrote in this run
    archived,   \* history: the types this run has made an archive of
    own         \* history: the devices whose archive this run has written

disk    == <<archives, temp, reports, zips, parts>>
control == <<run, phase, plan>>
history == <<wrote, archived, own>>
vars == <<disk, control, jobs, zipped, outcome, gathered, results, preflight, merged,
          exit, history>>

Phases   == {"over", "preflight", "pyats", "jobs", "report", "robot", "finish"}
Outcomes == {"none", "pending", "success", "no_results", "error"}
Files    == [run: Runs, test: Tests, status: Written]
Plans    == [mode: Modes, pyats: BOOLEAN, selected: SUBSET Types, robot: BOOLEAN]

TypeOK ==
    /\ archives \in [Types \cup {"legacy"} -> SUBSET Runs]
    /\ temp \in [Types -> SUBSET Files]
    /\ reports \in [Types -> 0 .. MaxRuns]
    /\ run \in 0 .. MaxRuns
    /\ phase \in Phases
    /\ plan \in Plans
    /\ jobs \subseteq {"api"} \cup Devices
    /\ zips \in [Devices -> 0 .. MaxRuns]
    /\ parts \in [Runs -> SUBSET (Devices \X Runs)]
    /\ zipped \subseteq Devices
    /\ outcome \in [Types -> Outcomes]
    /\ gathered \in [Types -> SUBSET Files]
    /\ results \in [{"api", "d2d", "robot"} -> Results]
    /\ preflight \in BOOLEAN
    /\ merged \subseteq ({"api"} \cup Devices) \X Runs
    /\ exit \in ExitCodes
    /\ wrote \in [Tests -> Written \cup {"nothing"}]
    /\ archived \subseteq Types
    /\ own \subseteq Devices

NoResults == [k \in {"api", "d2d", "robot"} |-> None]
NoFiles   == [t \in Types |-> {}]

Init ==
    /\ archives = [t \in Types \cup {"legacy"} |-> {}]
    /\ temp = NoFiles
    /\ reports = [t \in Types |-> 0]
    /\ run = 0
    /\ phase = "over"
    /\ plan = [mode |-> "execute", pyats |-> FALSE, selected |-> {}, robot |-> FALSE]
    /\ zips = [d \in Devices |-> 0]
    /\ parts = [n \in Runs |-> {}]
    /\ jobs = {} /\ zipped = {}
    /\ outcome = [t \in Types |-> "none"]
    /\ gathered = NoFiles
    /\ results = NoResults
    /\ preflight = FALSE
    /\ merged = {}
    /\ exit = 0
    /\ wrote = [x \in Tests |-> "nothing"]
    /\ archived = {} /\ own = {}

(***************************************************************************)
(* The start of a run                                                      *)
(***************************************************************************)
\* Mutant: the JSONL files of earlier runs are left where they are.
KeepTemp == UNCHANGED temp

\* cleanup_stale_test_artifacts
CleanTemp == temp' = NoFiles

\* What the run may find: PyATS tests or none, which of them the tags select,
\* and Robot tests or none.
Discoverable == {p \in Plans : p.pyats \/ p.selected = {}}

FirstPhase(p) ==
    IF ~p.pyats \/ p.mode = "render_only" THEN "robot"
    ELSE IF p.mode = "execute" THEN "preflight" ELSE "pyats"

Forget ==
    /\ outcome' = [t \in Types |-> "none"]
    /\ results' = NoResults
    /\ preflight' = FALSE
    /\ merged' = {}
    /\ wrote' = [x \in Tests |-> "nothing"]
    /\ archived' = {} /\ own' = {}

Start(p) ==
    /\ phase = "over" /\ run < MaxRuns
    /\ run' = run + 1
    /\ plan' = p
    /\ Forget
    /\ IF p.pyats \/ p.robot
       THEN /\ CleanTemp
            /\ phase' = FirstPhase(p)
            /\ exit' = Running
       ELSE /\ exit' = MainExit(p.mode, NoResults, FALSE)
            /\ UNCHANGED <<phase, temp>>
    /\ UNCHANGED <<archives, reports, zips, parts, jobs, zipped, gathered>>

PreflightPasses ==
    /\ phase = "preflight"
    /\ phase' = "pyats"
    /\ UNCHANGED <<disk, run, plan, jobs, zipped, outcome, gathered, results,
                   preflight, merged, exit, history>>

PreflightFails ==
    /\ phase = "preflight"
    /\ preflight' = TRUE
    /\ phase' = "robot"
    /\ UNCHANGED <<disk, run, plan, jobs, zipped, outcome, gathered, results,
                   merged, exit, history>>

(***************************************************************************)
(* The PyATS jobs                                                          *)
(***************************************************************************)
\* The results of PyATS are known, and Robot is next.
PyatsEnds(api, d2d) ==
    /\ results' = [results EXCEPT !["api"] = api, !["d2d"] = d2d]
    /\ phase' = "robot"

ForSelected(r, t) == IF t \in plan.selected THEN r ELSE None

\* No test is selected, or nothing is to be executed, or pyats is not installed.
NothingExecuted ==
    /\ phase = "pyats"
    /\ LET r == NoCounts(IF plan.mode = "dry_run" THEN "skipped" ELSE "error")
       IN  PyatsEnds(ForSelected(r, "api"), ForSelected(r, "d2d"))
    /\ UNCHANGED <<disk, run, plan, jobs, zipped, outcome, gathered, preflight,
                   merged, exit, history>>

\* The jobs of the devices are started unless the inventory is empty, the testbed
\* cannot be written or the broker does not start; each may fail to start.
StartJobs(devices) ==
    /\ phase = "pyats" /\ plan.mode = "execute" /\ plan.selected # {}
    /\ jobs' = {j \in {"api"} : "api" \in plan.selected}
               \cup {d \in devices : "d2d" \in plan.selected}
    /\ phase' = "jobs"
    /\ UNCHANGED <<disk, run, plan, zipped, outcome, gathered, results, preflight,
                   merged, exit, history>>

\* The tests X have left the files that s tells of.
Leave(X, s) ==
    /\ wrote' = [x \in Tests |-> IF x \in X THEN s[x] ELSE wrote[x]]
    /\ temp' = [t \in Types |-> temp[t] \cup
                  {[run |-> run, test |-> x, status |-> s[x]] :
                      x \in {y \in X \cap TestsOf(t) : s[y] # "nothing"}}]

Archive(t) == archives' = [archives EXCEPT ![t] = @ \cup {run}]

\* The jobs of the devices D have written their archives, which have fixed names.
WriteZips(D) ==
    /\ zips' = [d \in Devices |-> IF d \in D THEN run ELSE zips[d]]
    /\ own' = own \cup D

\* execute_job: with a return code above 1 an archive that the job has written
\* keeps the name of a legacy archive; after a failure there may be none.
ApiJobEnds(s, type) ==
    /\ phase = "jobs" /\ "api" \in jobs
    /\ jobs' = jobs \ {"api"}
    /\ Leave(ApiTests, s)
    /\ IF type = "none" THEN UNCHANGED archives ELSE Archive(type)
    /\ archived' = archived \cup ({type} \cap {"api"})
    /\ UNCHANGED <<reports, zips, parts, control, zipped, outcome, gathered, results,
                   preflight, merged, exit, own>>

\* execute_job_with_testbed: whether a path is returned depends on the return code
\* only; a job that crashes may have the code of failed tests and no archive.  What
\* is aggregated is what is at the paths, whichever run it is of.
DeviceJobEnds(d, s, path, zip) ==
    /\ phase = "jobs" /\ d \in jobs
    /\ jobs' = jobs \ {d}
    /\ Leave({d}, s)
    /\ WriteZips(IF zip THEN {d} ELSE {})
    /\ zipped' = IF path /\ zips'[d] # 0 THEN zipped \cup {d} ELSE zipped
    /\ UNCHANGED <<archives, reports, parts, control, outcome, gathered, results,
                   preflight, merged, exit, archived>>

\* aggregate_device_archives: the devices X have been extracted; the others could
\* not be, or another one's files have replaced theirs.
CreateD2dArchive(X) ==
    /\ phase = "jobs" /\ jobs \cap Devices = {} /\ zipped # {}
    /\ run \notin archives["d2d"]
    /\ Archive("d2d")
    /\ parts' = [parts EXCEPT ![run] = {<<d, zips[d]>> : d \in X \cap zipped}]
    /\ UNCHANGED <<temp, reports, zips, control, jobs, zipped, outcome, gathered, results,
                   preflight, merged, exit, history>>

\* The archives of the devices are deleted, but for K, where that fails.
Aggregate(K) ==
    /\ phase = "jobs" /\ zipped # {} /\ run \in archives["d2d"]
    /\ archived' = archived \cup {"d2d"}
    /\ zips' = [d \in Devices |-> IF d \in zipped \ K THEN 0 ELSE zips[d]]
    /\ zipped' = {}
    /\ UNCHANGED <<archives, temp, reports, parts, control, jobs, outcome, gathered, results,
                   preflight, merged, exit, wrote, own>>

\* An exception, before the archive is created or while it is written.
AggregationFails ==
    /\ phase = "jobs" /\ jobs \cap Devices = {} /\ zipped # {}
    /\ zipped' = {}
    /\ UNCHANGED <<disk, control, jobs, outcome, gathered, results, preflight, merged,
                   exit, history>>

\* The tests of the jobs in progress.
InProgress == {x \in Tests : x \in jobs \/ (x \in ApiTests /\ "api" \in jobs)}

\* What jobs may have left by the time they are given up.  Nobody removes the
\* archives of devices, of these jobs or of those that have ended.
JobsGivenUp ==
    /\ jobs' = {} /\ zipped' = {}
    /\ \E s \in [InProgress -> Statuses \cup {"nothing"}] : Leave(InProgress, s)
    /\ \E D \in SUBSET (jobs \cap Devices) : WriteZips(D)

\* An exception that only PyATSOrchestrator.run_tests catches.
OrchestrationFails ==
    /\ phase \in {"pyats", "jobs", "report"}
    /\ PyatsEnds(NoCounts("error"), None)
    /\ JobsGivenUp
    /\ outcome' = [t \in Types |-> "none"]
    /\ gathered' = NoFiles
    /\ UNCHANGED <<archives, reports, parts, run, plan, preflight, merged, exit, archived>>

(***************************************************************************)
(* Results and reports from the archives                                   *)
(***************************************************************************)
\* Mutant: archives are sorted the wrong way round.
Oldest(t) == CHOOSE n \in archives[t] : \A m \in archives[t] : n =< m

Newest(t) == CHOOSE n \in archives[t] : \A m \in archives[t] : m =< n

\* Without any archive pyats_results is left alone.  A legacy archive has no
\* JSONL files, so nothing comes of it.
BeginReport ==
    /\ phase = "jobs" /\ jobs = {} /\ zipped = {}
    /\ IF \E t \in Types : archives[t] # {}
       THEN /\ outcome' = [t \in Types |-> IF archives[t] # {} THEN "pending" ELSE "none"]
            /\ phase' = "report"
            /\ UNCHANGED results
       ELSE /\ PyatsEnds(None, None)
            /\ UNCHANGED outcome
    /\ reports' = IF \A t \in DOMAIN archives : archives[t] = {}
                  THEN reports ELSE [t \in Types |-> 0]
    /\ UNCHANGED <<archives, temp, zips, parts, run, plan, jobs, zipped, gathered, preflight,
                   merged, exit, history>>

\* _process_single_archive: the extraction may fail; otherwise the JSONL files
\* of the type are moved to where the archive is.
ProcessArchive(t, ok) ==
    /\ phase = "report" /\ outcome[t] = "pending"
    /\ IF ok
       THEN /\ reports' = [reports EXCEPT ![t] = Newest(t)]
            /\ gathered' = [gathered EXCEPT ![t] = temp[t]]
            /\ temp' = [temp EXCEPT ![t] = {}]
            /\ outcome' = [outcome EXCEPT ![t] =
                              IF temp[t] = {} THEN "no_results" ELSE "success"]
       ELSE /\ outcome' = [outcome EXCEPT ![t] = "error"]
            /\ UNCHANGED <<reports, gathered, temp>>
    /\ UNCHANGED <<archives, zips, parts, control, jobs, zipped, results, preflight,
                   merged, exit, history>>

With(t, statuses) == Cardinality({f \in gathered[t] : f.status \in statuses})

\* _collect_pyats_stats: a JSONL file without a summary counts as skipped.
Stats(t) ==
    IF outcome[t] # "success" THEN None
    ELSE [state |-> "success", passed |-> With(t, {"passed"}),
          failed |-> With(t, {"failed"}), skipped |-> With(t, {"skipped", "unfinished"})]

\* The archives are deleted if one of them could be reported, unless they are to
\* be kept; the JSONL files of pyats_results are deleted either way, except when
\* they are to be kept for debugging, where the next report deletes them.
FinishReport(keep) ==
    /\ phase = "report" /\ \A t \in Types : outcome[t] # "pending"
    /\ PyatsEnds(Stats("api"), Stats("d2d"))
    /\ archives' =
          IF ~keep /\ \E t \in Types : outcome[t] = "success"
          THEN [t \in DOMAIN archives |->
                  IF t \in Types /\ archives[t] # {} THEN archives[t] \ {Newest(t)} ELSE archives[t]]
          ELSE archives
    /\ gathered' = NoFiles
    /\ UNCHANGED <<temp, reports, zips, parts, run, plan, jobs, zipped, outcome, preflight,
                   merged, exit, history>>

(***************************************************************************)
(* Robot, the merged xUnit file, and the end of the run                    *)
(***************************************************************************)
\* RobotOrchestrator.run_tests: pabot's special exit codes, an output.xml that is
\* missing or cannot be parsed, an exception, or the counts in output.xml.
RobotResults(mode) ==
    {NoCounts("error")}
    \cup IF mode = "render_only" THEN {NoCounts("skipped")}
         ELSE {NoCounts("empty"), NoCounts("interrupted")}
              \cup {r \in [state: {"success"}, passed: 0 .. RobotTests,
                           failed: 0 .. RobotTests, skipped: 0 .. RobotTests] :
                      Total(r) \in 1 .. RobotTests}

Robot(r) ==
    /\ phase = "robot"
    /\ results' = [results EXCEPT !["robot"] = r]
    /\ phase' = "finish"
    /\ UNCHANGED <<disk, run, plan, jobs, zipped, outcome, gathered, preflight, merged,
                   exit, history>>

RobotStep == IF plan.robot THEN \E r \in RobotResults(plan.mode) : Robot(r) ELSE Robot(None)

\* What is extracted in pyats_results/<t>: one xUnit file, or one for each device.
Extracted(t) ==
    IF reports[t] = 0 THEN {} ELSE IF t = "api" THEN {<<t, reports[t]>>} ELSE parts[reports[t]]

\* collect_xunit_files: only of the types with results.  A merge may fail.
Mergeable == UNION {Extracted(t) : t \in {u \in Types : Total(results[u]) > 0}}

Finish(mergeable) ==
    /\ phase = "finish"
    /\ merged' = IF plan.mode = "render_only" THEN {} ELSE mergeable
    /\ exit' = MainExit(plan.mode, results, preflight)
    /\ phase' = "over"
    /\ UNCHANGED <<disk, run, plan, jobs, zipped, outcome, gathered, results, preflight,
                   history>>

\* Ctrl+C, an exception that only main() catches, or the process is killed; the
\* jobs go with it.  PyATS and Robot are run where exceptions are caught, but their
\* orchestrators are made where they are not; that of PyATS resolves the controller
\* in a dry run, and ends the process if it cannot.
Stop(code) ==
    /\ phase # "over"
    /\ code = ErrorCode => phase \in {"preflight", "pyats", "robot", "finish"}
    /\ JobsGivenUp
    /\ gathered' = NoFiles
    /\ outcome' = [t \in Types |-> "none"]
    /\ results' = NoResults
    /\ preflight' = FALSE
    /\ exit' = code
    /\ phase' = "over"
    /\ UNCHANGED <<archives, reports, parts, run, plan, merged, archived>>

Next ==
    \/ \E p \in Discoverable : Start(p)
    \/ PreflightPasses
    \/ PreflightFails
    \/ NothingExecuted
    \/ \E D \in SUBSET Devices : StartJobs(D)
    \/ \E s \in [ApiTests -> Statuses \cup {"nothing"}], a \in {"api", "legacy", "none"} :
          ApiJobEnds(s, a)
    \/ \E d \in Devices, s \in Statuses \cup {"nothing"}, path \in BOOLEAN, zip \in BOOLEAN :
          DeviceJobEnds(d, [x \in {d} |-> s], path, zip)
    \/ \E X \in SUBSET Devices : CreateD2dArchive(X)
    \/ \E K \in SUBSET Devices : Aggregate(K)
    \/ AggregationFails
    \/ OrchestrationFails
    \/ BeginReport
    \/ \E t \in Types, ok \in BOOLEAN : ProcessArchive(t, ok)
    \/ \E keep \in BOOLEAN : FinishReport(keep)
    \/ RobotStep
    \/ \E m \in {Mergeable, {}} : Finish(m)
    \/ \E code \in {InterruptedCode, ErrorCode, Killed} : Stop(code)

Spec == Init /\ [][Next]_vars

(***************************************************************************)
(* Properties                                                              *)
(***************************************************************************)
\* The run is over, and it came to its end.
Complete == phase = "over" /\ run > 0 /\ exit \notin {InterruptedCode, Killed}

Wrote(t, statuses) == Cardinality({x \in TestsOf(t) : wrote[x] \in statuses})

\* A type of PyATS tests is reported with exactly the results its tests wrote in
\* this run, whatever interrupted runs have left in the directory, or not at all
\* (cleanup_stale_test_artifacts, _collect_pyats_stats).
CountsAreOwn ==
    phase \in {"robot", "finish"} => \A t \in Types :
        \/ results[t].state = "success"
           /\ results[t].passed = Wrote(t, {"passed"})
           /\ results[t].failed = Wrote(t, {"failed"})
           /\ results[t].skipped = Wrote(t, {"skipped", "unfinished"})
        \/ Total(results[t]) = 0

\* A failure that a PyATS test has written is seen in the exit code, unless no
\* archive of its type could be processed: neither the results of other types
\* and of Robot nor a failure to process another archive hide it.
FailuresShow ==
    Complete /\ exit \in {0, DataError} => \A x \in Tests :
        wrote[x] = "failed" => outcome[TypeOf(x)] \in {"none", "error"}

\* An xUnit file of an earlier run is merged only if the job it is of has left no
\* archive in this run, or those of the devices have not been aggregated.  What
\* earlier runs have left, be it the archive of a device, is never preferred
\* (ArchiveInspector.find_archives: newest first; aggregate_device_archives).
StaleXunitOnlyWithoutOwn ==
    \A m \in merged : m[2] # run =>
        IF m[1] = "api" THEN "api" \notin archived
        ELSE m[1] \notin own \/ "d2d" \notin archived

\* "Only collects xunit files from frameworks that have non-empty results,
\* preventing stale xunit files from prior runs from being merged."
\* (utils/xunit_merger.py).  Violated: PyATS results may come with the archive of
\* an earlier run, and that of a device may be aggregated with those of this run.
NoStaleXunit == \A m \in merged : m[2] = run

\* Exit code "0: All tests passed, no errors OR all frameworks intentionally
\* skipped" (core/types.py).  Violated: when a job fails after its tests have,
\* there is no archive, and without it nothing is missed.
ZeroMeansPassed == Complete /\ exit = 0 => \A x \in Tests : wrote[x] # "failed"
=============================================================================
