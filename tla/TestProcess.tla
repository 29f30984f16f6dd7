---------------------------- MODULE TestProcess ----------------------------
(***************************************************************************)
(* One PyATS test in its process, from the setup to the line it gets in    *)
(* the summary report: NACTestBase (pyats_core/common/base_test.py),       *)
(* SSHTestBase (ssh_base_test.py), TestResultCollector                     *)
(* (reporting/collector.py) and ReportGenerator (reporting/generator.py).  *)
(*                                                                         *)
(* An API test logs in and asks the controller (ApiRequest), an SSH test   *)
(* sends commands to its device (SshCommands); each item it verifies is a  *)
(* coroutine that makes one call.  The test gives PyATS a verdict and      *)
(* writes a JSONL file, from whose last record its line in the summary     *)
(* report is made: two accounts of the same results.                       *)
(*                                                                         *)
(* What verify_item() or verify_group() of a test makes of an answer is    *)
(* up to the test.  The order of the results is left out.  PyATS may or    *)
(* may not let the results of steps worsen the verdict.                    *)
(*                                                                         *)
(* Definitions whose comment begins with "Mutant" are faulty versions of   *)
(* the definition after them; no specification uses them.                  *)
(***************************************************************************)
EXTENDS ApiRequest

CONSTANTS
    Commands,     \* see SshCommands
    Threads,      \* see SshCommands
    Concurrency   \* DEFAULT_API_CONCURRENCY

ASSUME LimitsAssumption == /\ Threads \in Nat \ {0} /\ Concurrency \in Nat \ {0}
                           /\ Commands # {}

\* The statuses results come with: values of ResultStatus (lower case, as an
\* enumeration member or as a string) and the upper-case strings of older tests.
\* A member and its upper-case string mean the same everywhere.
Plain    == {"PASSED", "FAILED", "SKIPPED"}
Statuses == Plain \cup {"ERRORED", "failed string", "UNKNOWN"}

VARIABLES
    kind,        \* "api" or "ssh"
    phase,       \* what the process is doing
    stage,       \* stage[c]: the coroutine of item c
    results,     \* the statuses of the results
    failing,     \* history: has a call of an item raised?
    recorded,    \* the statuses in the JSONL file
    broken,      \* history: has making a step raised?
    jsonl,       \* the file, by its last record
    verdict,     \* what PyATS was told
    shown,       \* the test's line in the summary report
    brokered, cache, call, request  \* see SshCommands

Ssh == INSTANCE SshCommands

sshVars == <<brokered, cache, call, request>>
items  == <<stage, results, failing>>
file   == <<recorded, broken, jsonl>>
calls  == <<apiVars, sshVars>>
test   == <<kind, phase, items, file, verdict>>
vars == <<calls, test, shown>>

Init ==
    /\ ApiInit /\ Ssh!SshInit
    /\ kind \in {"api", "ssh"}
    /\ platform = "Linux" \/ kind = "api"
    /\ phase = "setup"
    /\ stage = [c \in Items |-> "none"]
    /\ results = {} /\ failing = FALSE
    /\ recorded = {} /\ broken = FALSE /\ jsonl = "none"
    /\ verdict = "none"
    /\ shown = "none"

(***************************************************************************)
(* Setup.                                                                  *)
(***************************************************************************)
\* Data model, controller, authentication method and credentials are looked at
\* before the collector exists: self.failed() or an exception.
SetupRefuses ==
    /\ phase = "setup" /\ jsonl = "none"
    /\ verdict' \in {"failed", "errored"}
    /\ phase' = "cleanup"
    /\ UNCHANGED <<kind, calls, items, file, shown>>

OpenCollector ==
    /\ phase = "setup" /\ jsonl = "none"
    /\ jsonl' = "unfinished"
    /\ UNCHANGED <<kind, calls, phase, items, recorded, broken, verdict, shown>>

\* An API test has a token in the cache, or logs in; an SSH test without a broker
\* has connected to its device, in the time Unicon allows.
SetupSucceeds ==
    /\ phase = "setup" /\ jsonl = "unfinished"
    /\ kind = "api" => req[Login].pc \in {"idle", "returned"}
    /\ phase' = "verify"
    /\ UNCHANGED <<kind, calls, items, file, verdict, shown>>

\* With a broker, an SSH test sends it a ping and asks it to connect the device.
AskBroker ==
    /\ phase = "setup" /\ jsonl = "unfinished" /\ kind = "ssh"
    /\ brokered' = TRUE
    /\ phase' = "connect"
    /\ UNCHANGED <<kind, apiVars, cache, call, request, items, file, verdict, shown>>

\* The broker has answered both, or has refused one or closed the socket; the
\* test waits for it without a timeout.
BrokerEndsSetup ==
    /\ phase = "connect"
    /\ \/ phase' = "verify" /\ UNCHANGED verdict
       \/ phase' = "cleanup" /\ verdict' = "failed"
    /\ UNCHANGED <<kind, calls, items, file, shown>>

BeginLogin ==
    /\ phase = "setup" /\ jsonl = "unfinished" /\ kind = "api"
    /\ Begin(Login)
    /\ UNCHANGED <<test, shown, sshVars>>

\* self.failed() after an SSH connection failed, or the exception of the login.
SetupFails ==
    /\ phase = "setup" /\ jsonl = "unfinished"
    /\ \/ kind = "ssh" /\ verdict' = "failed"
       \/ kind = "api" /\ req[Login].pc = "raised" /\ verdict' = "errored"
    /\ phase' = "cleanup"
    /\ UNCHANGED <<kind, calls, items, file, shown>>

(***************************************************************************)
(* run_verification_async().                                               *)
(***************************************************************************)
\* Every item, or every group of items, is a coroutine.  Without any there is one
\* skipped result.
GetItems ==
    /\ phase = "verify" /\ \A c \in Items : stage[c] = "none"
    /\ \E todo \in SUBSET Items :
           /\ stage' = [c \in Items |-> IF c \in todo THEN "waiting" ELSE "absent"]
           /\ results' = IF todo = {} THEN {"SKIPPED"} ELSE {}
    /\ UNCHANGED <<kind, calls, phase, failing, file, verdict, shown>>

\* get_items_to_verify() raises, or the test has no verify method for what it
\* returned.
VerificationRaises ==
    /\ phase = "verify" /\ \A c \in Items : stage[c] = "none"
    /\ verdict' = "errored"
    /\ phase' = "cleanup"
    /\ UNCHANGED <<kind, calls, items, file, shown>>

\* verify_item() enters the semaphore and makes its call.
StartItem(c) ==
    /\ phase = "verify" /\ stage[c] = "waiting" /\ LoopFree(c)
    /\ Cardinality({d \in Items : stage[d] = "calling"}) < Concurrency
    /\ stage' = [stage EXCEPT ![c] = "calling"]
    /\ IF kind = "api" THEN Begin(c) /\ UNCHANGED sshVars
       ELSE Ssh!Issue(c) /\ UNCHANGED apiVars
    /\ UNCHANGED <<kind, phase, results, failing, file, verdict, shown>>

CallEnded(c)  == IF kind = "api" THEN req[c].pc \in {"returned", "raised"}
                 ELSE call[c].pc \in {"returned", "unparsed", "nothing", "raised"}
CallRaised(c) == IF kind = "api" THEN req[c].pc = "raised" ELSE call[c].pc = "raised"

\* Mutant: what is no result is passed over.
DropExceptions(c) == IF CallRaised(c) THEN {{}} ELSE {{}} \cup {{s} : s \in Statuses}

\* What gather() makes of a coroutine: an exception, or anything that is not a
\* result, becomes a failed result; an item returns one.  A group returns any
\* number: none, or one for each item of it.
Outcomes(c) == IF CallRaised(c) THEN {{"FAILED"}} ELSE {{}} \cup {{s} : s \in Statuses}

EndItem(c) ==
    /\ phase = "verify" /\ stage[c] = "calling" /\ LoopFree(c) /\ CallEnded(c)
    /\ stage' = [stage EXCEPT ![c] = "done"]
    /\ \E S \in Outcomes(c) : results' = results \cup S
    /\ failing' = (failing \/ CallRaised(c))
    /\ UNCHANGED <<kind, calls, phase, file, verdict, shown>>

(***************************************************************************)
(* process_results_smart() and process_results_with_steps().               *)
(***************************************************************************)
\* Mutant: a skipped result is recorded as information.
NoSkipped(s) == CASE s = "PASSED"  -> "passed"
                  [] s = "FAILED"  -> "failed"
                  [] s = "ERRORED" -> "errored"
                  [] OTHER         -> "info"

\* The status under which the collector records a result.
MapStatus(s) == CASE s = "PASSED"  -> "passed"
                  [] s = "FAILED"  -> "failed"
                  [] s = "SKIPPED" -> "skipped"
                  [] s = "ERRORED" -> "errored"
                  [] OTHER         -> "info"

IsFailed(s) == s \in {"FAILED", "failed string"}

\* set_step_status().
StepResults(S) == {IF IsFailed(s) THEN "failed" ELSE "errored" :
                       s \in S \ {"PASSED", "SKIPPED"}}

\* determine_overall_test_result(): without results the test passes.
OverallResult(S) == IF \E s \in S : IsFailed(s) THEN "failed"
                    ELSE IF "SKIPPED" \in S /\ "PASSED" \notin S THEN "skipped"
                    ELSE "passed"

\* What the steps may do to the verdict, if PyATS lets them: a step in which
\* something raises fails.
StepVerdicts(raising) == StepResults(results \ raising)
                         \cup IF raising = {} THEN {} ELSE {"failed"}

\* The results that reach the collector.
Record(lost) == {MapStatus(s) : s \in results \ lost}

\* Every result gets a step.  Should something in it raise (raising), this may be
\* before or after the result was recorded (lost are those that are not).
Judge ==
    /\ phase = "verify" /\ \A c \in Items : stage[c] \in {"absent", "done"}
    /\ \E raising \in SUBSET results :
           /\ \E lost \in SUBSET raising : recorded' = Record(lost)
           /\ broken' = (raising # {})
           /\ verdict' \in {OverallResult(results)} \cup StepVerdicts(raising)
    /\ phase' = "cleanup"
    /\ UNCHANGED <<kind, calls, items, jsonl, shown>>

(***************************************************************************)
(* cleanup(), and the end of the process.                                  *)
(***************************************************************************)
\* _determine_overall_status().
OverallStatus == IF recorded = {} THEN "skipped"
                 ELSE IF recorded \cap {"failed", "errored"} # {} THEN "failed"
                 ELSE IF recorded = {"skipped"} THEN "skipped" ELSE "passed"

\* Failing to write the summary record is no failure of the test.
Cleanup ==
    /\ phase = "cleanup"
    /\ phase' = "done"
    /\ jsonl' \in IF jsonl = "none" THEN {jsonl} ELSE {OverallStatus, "unfinished"}
    /\ UNCHANGED <<kind, calls, items, recorded, broken, verdict, shown>>

\* A file without a summary record has a line without a status, which is counted
\* nowhere.
SummaryLine == IF jsonl = "unfinished" THEN "no status" ELSE jsonl

\* generate_all_reports(), after the job.  A test whose page cannot be made has
\* no line in the summary.
Report ==
    /\ phase = "done" /\ jsonl # "none" /\ shown = "none"
    /\ shown' \in {"left out", SummaryLine}
    /\ UNCHANGED <<calls, test>>

(***************************************************************************)
(* The specification.                                                      *)
(***************************************************************************)
Running == phase \in {"setup", "verify"}

\* The calls are also recorded in the JSONL file (_track_api_response(),
\* add_command_api_execution()), which changes no status.
ApiCall(c) == Running /\ RequestStep(c) /\ UNCHANGED <<test, shown, sshVars>>
SshCall(c) == Running /\ Ssh!SshStep(c) /\ UNCHANGED <<test, shown, apiVars>>
SshThread(c) == Running /\ Ssh!CallerStep(c) /\ UNCHANGED <<test, shown, apiVars>>
Age == Running /\ kind = "ssh" /\ \E k \in Commands : Ssh!Expire(k)
       /\ UNCHANGED <<test, shown, apiVars>>

Item(c) == StartItem(c) \/ EndItem(c)

OwnSetup == \/ SetupRefuses \/ OpenCollector \/ SetupSucceeds \/ AskBroker
            \/ BeginLogin \/ SetupFails
Setup == OwnSetup \/ BrokerEndsSetup
Verdict == GetItems \/ VerificationRaises \/ Judge \/ Cleanup

Next == \/ Setup \/ Verdict \/ Report \/ Age
        \/ \E c \in Callers : ApiCall(c)
        \/ \E c \in Items : Item(c) \/ SshCall(c)

Spec == Init /\ [][Next]_vars

\* httpx, scripts and Unicon have timeouts of their own and the timeout of a
\* command fires; the broker may never answer, in the setup either.
Fairness ==
    /\ WF_vars(OwnSetup) /\ WF_vars(Verdict)
    /\ \A c \in Callers : WF_vars(ApiCall(c))
    /\ \A c \in Items : WF_vars(Item(c)) /\ WF_vars(SshThread(c))

FairSpec == Spec /\ Fairness

(***************************************************************************)
(* Properties.                                                             *)
(***************************************************************************)
TypeOK ==
    /\ ApiTypeOK /\ Ssh!SshTypeOK
    /\ kind \in {"api", "ssh"}
    /\ phase \in {"setup", "connect", "verify", "cleanup", "done"}
    /\ stage \in [Items -> {"none", "absent", "waiting", "calling", "done"}]
    /\ results \subseteq Statuses /\ failing \in BOOLEAN
    /\ recorded \subseteq {"passed", "failed", "skipped", "errored", "info"}
    /\ broken \in BOOLEAN
    /\ jsonl \in {"none", "unfinished", "passed", "failed", "skipped"}
    /\ verdict \in {"none", "passed", "failed", "skipped", "errored"}
    /\ shown \in {"none", "left out", "no status", "passed", "failed", "skipped"}

\* A request or a command that raised, after all its retries, fails the test:
\* the exception is not lost between gather() and the verdict.
RaisedFails == verdict # "none" /\ failing => verdict \in {"failed", "errored"}

\* The verdict and the report come from the same results by two computations.
\* They agree if there are results, all of the documented statuses, and none
\* was lost on the way.
PlainResultsAgree ==
    results # {} /\ results \subseteq Plain /\ ~broken /\ shown \in {"passed", "failed", "skipped"}
        => shown = verdict

\* A test that fails is shown as failed, wherever it failed: the architecture
\* document follows an unreachable device to a report with the status FAILED.
FailedIsReportedFailed == verdict = "failed" => shown \notin {"passed", "skipped"}

\* See SshCommands.
CachedWasAnswered == Ssh!CachedWasAnswered

\* Every test comes to an end, whatever the broker leaves unanswered once the
\* test has its connection; before, the test may wait for the broker forever.
TestEnds == <>(phase = "done") \/ <>[](phase = "connect")
=============================================================================
