----------------------------- MODULE ApiRequest -----------------------------
(***************************************************************************)
(* The HTTP requests of one test process: the tracking client of           *)
(* pyats_core/common/base_test.py with its retries, SmartRetry around it   *)
(* (retry_strategy.py), the client that ConnectionPool chooses for the     *)
(* platform, and the two executors that run a script through os.system()   *)
(* and exchange data in temporary files: SubprocessHttpClient              *)
(* (http/subprocess_client.py) for requests and execute_auth_subprocess    *)
(* (subprocess_auth.py) for the login.                                     *)
(*                                                                         *)
(* Requests of different items run as coroutines of one event loop.  The   *)
(* httpx client gives the loop back while it waits; SubprocessHttpClient   *)
(* does not await anything between creating its first file and reading     *)
(* the answer, so the loop stands still meanwhile.                         *)
(*                                                                         *)
(* Deleting a temporary file the process owns does not fail.  Redirects,   *)
(* headers and bodies are left out.                                        *)
(***************************************************************************)
EXTENDS Integers, FiniteSets

CONSTANTS
    Items,          \* the coroutines, each of which makes one API call
    Login,          \* the login of the test's setup, no coroutine of its own
    NoItem,         \* nobody
    MaxRetries,     \* MAX_RETRIES of the tracking client (7)
    InitialDelay,   \* INITIAL_DELAY, seconds (5)
    MaxDelay,       \* MAX_DELAY, seconds (300)
    ExtraDelay,     \* extra_delay after a server disconnection, seconds (10)
    ExtraAttempts,  \* the attempts that are given the extra delay (3)
    SmartAttempts   \* RETRY_MAX_ATTEMPTS of SmartRetry

\* Items are those a test may have; it may turn out to have none of them.
ASSUME CallersAssumption == /\ NoItem \notin Items \cup {Login} /\ Login \notin Items
                            /\ Items # {}
ASSUME RetriesAssumption ==
    /\ MaxRetries \in Nat \ {0} /\ SmartAttempts \in Nat \ {0}
    /\ {InitialDelay, MaxDelay, ExtraDelay, ExtraAttempts} \subseteq Nat

Callers == Items \cup {Login}

\* What a server answers: 2xx, 4xx, 429, 502 to 504, any other 5xx.
Codes == {"ok", "rejected", "limited", "unavailable", "broken"}

\* What a call raises: httpx.RemoteProtocolError, another httpx.HTTPError, a
\* ConnectionError, a RuntimeError of SubprocessHttpClient (their texts all
\* contain "http"), an HTTPStatusError of raise_for_status(), an OSError of the
\* file system, or anything else.
Errors == {"protocol", "http", "connection", "runtime", "status", "os", "other"}

\* The errors the tracking client takes for network trouble.
NetworkErrors   == {"protocol", "http", "connection", "runtime"}
TransientErrors == {"protocol", "http", "connection"}   \* TRANSIENT_EXCEPTIONS
HttpxErrors     == {"protocol", "http", "connection", "other"}

\* The temporary files, in the order in which they are created.
Files == {"request", "answer", "script"}
NextFile(temp) == IF "request" \notin temp THEN "request"
                  ELSE IF "answer" \notin temp THEN "answer" ELSE "script"

VARIABLES
    platform,    \* platform.system()
    req,         \* req[c]: the call of c, see Request
    busy,        \* the caller that holds up the event loop, or NoItem
    recoveries,  \* _controller_recovery_count
    downtime,    \* _total_recovery_downtime
    slept        \* history: the seconds really slept before the recoveries

apiVars == <<platform, req, busy, recoveries, downtime, slept>>

\* pc: "files" and "ran" before and after the child process, "sent" while httpx
\* waits, "backoff" and "pause" while the tracking client and SmartRetry sleep.
Request == [pc: {"idle", "files", "ran", "sent", "backoff", "pause", "returned", "raised"},
            attempt: 0 .. MaxRetries - 1,   \* of the tracking client
            smart: BOOLEAN,                 \* called through api_call_with_retry()
            round: 1 .. SmartAttempts,      \* of SmartRetry
            waited: Nat,                    \* seconds slept in this round
            temp: SUBSET Files,             \* files of its on disk
            out: Codes \cup {"none", "error", "torn"}]  \* in the answer file

NewRequest == [pc |-> "idle", attempt |-> 0, smart |-> FALSE, round |-> 1, waited |-> 0,
               temp |-> {}, out |-> "none"]

\* The call is over: its files are all that may be left of it.
Over(r, pc) == [NewRequest EXCEPT !.pc = pc, !.temp = r.temp]

ApiInit == /\ platform \in {"Darwin", "Linux"}
           /\ req = [c \in Callers |-> NewRequest]
           /\ busy = NoItem
           /\ recoveries = 0
           /\ downtime = 0
           /\ slept = 0

(***************************************************************************)
(* Delays.                                                                 *)
(***************************************************************************)
Delay(a) == IF InitialDelay * 2^a < MaxDelay THEN InitialDelay * 2^a ELSE MaxDelay

\* Slept after attempt a failed with error e.
Sleep(a, e) == Delay(a) + IF e = "protocol" /\ a < ExtraAttempts THEN ExtraDelay ELSE 0

\* recovery_downtime of a call that succeeds in attempt a.
RecoveryDowntime[a \in 0 .. MaxRetries] ==
    IF a = 0 THEN 0 ELSE RecoveryDowntime[a - 1] + Delay(a - 1)

(***************************************************************************)
(* One attempt begins.  The login always runs a script.                    *)
(***************************************************************************)
RunsScript(c) == c = Login \/ platform = "Darwin"

\* No coroutine runs while another one holds up the loop.
LoopFree(c) == busy \in {NoItem, c}

Attempt(c, r) ==
    /\ req' = [req EXCEPT ![c] = [r EXCEPT !.pc = IF RunsScript(c) THEN "files" ELSE "sent"]]
    /\ busy' = IF RunsScript(c) THEN c ELSE busy

\* A call begins, through SmartRetry or not.
Begin(c) ==
    /\ LoopFree(c) /\ req[c].pc = "idle"
    /\ \E smart \in IF c = Login THEN {FALSE} ELSE BOOLEAN :
           Attempt(c, [req[c] EXCEPT !.smart = smart])
    /\ UNCHANGED <<platform, recoveries, downtime, slept>>

(***************************************************************************)
(* How an attempt ends: in an answer or in an error.                       *)
(***************************************************************************)
\* An error leaves the tracking client.  SmartRetry repeats the transient ones.
Escapes(r, e) ==
    IF r.smart /\ e \in TransientErrors /\ r.round < SmartAttempts
    THEN [r EXCEPT !.pc = "pause"] ELSE Over(r, "raised")

\* The error handler of execute_with_retry(); the login is not repeated.
Failed(c, e, temp) ==
    LET r == [req[c] EXCEPT !.temp = temp, !.out = "none"] IN
    /\ req' = [req EXCEPT ![c] =
                  IF c = Login \/ e \notin NetworkErrors \/ r.attempt = MaxRetries - 1
                  THEN Escapes(r, e)
                  ELSE [r EXCEPT !.pc = "backoff", !.waited = @ + Sleep(r.attempt, e)]]
    /\ busy' = NoItem
    /\ UNCHANGED <<platform, recoveries, downtime, slept>>

\* What SmartRetry makes of an answer, on which its function calls
\* raise_for_status(): 429 always sleeps, after the last round too, unless its
\* Retry-After is no number; 502 to 504 are repeated; the rest is not.
Answers(r, code) ==
    LET pause == [r EXCEPT !.pc = "pause"]
    IN  IF ~r.smart \/ code = "ok" THEN {Over(r, "returned")}
        ELSE IF code = "limited" THEN {pause, Over(r, "raised")}
        ELSE IF code = "unavailable" /\ r.round < SmartAttempts THEN {pause}
        ELSE {Over(r, "raised")}

\* Mutant: the failed attempts are counted one too many.
LongRecovery(c, code, temp) ==
    LET r == [req[c] EXCEPT !.temp = temp, !.out = "none"] IN
    /\ \E answer \in Answers(r, code) : req' = [req EXCEPT ![c] = answer]
    /\ recoveries' = IF r.attempt > 0 THEN recoveries + 1 ELSE recoveries
    /\ downtime' = IF r.attempt > 0 THEN downtime + RecoveryDowntime[r.attempt + 1]
                   ELSE downtime
    /\ slept' = IF r.attempt > 0 THEN slept + r.waited ELSE slept
    /\ busy' = NoItem
    /\ UNCHANGED platform

\* The answer is returned whatever its status; after failed attempts the
\* controller has recovered.
Succeeded(c, code, temp) ==
    LET r == [req[c] EXCEPT !.temp = temp, !.out = "none"] IN
    /\ \E answer \in Answers(r, code) : req' = [req EXCEPT ![c] = answer]
    /\ recoveries' = IF r.attempt > 0 THEN recoveries + 1 ELSE recoveries
    /\ downtime' = downtime + RecoveryDowntime[r.attempt]
    /\ slept' = IF r.attempt > 0 THEN slept + r.waited ELSE slept
    /\ busy' = NoItem
    /\ UNCHANGED platform

(***************************************************************************)
(* httpx, on every platform but macOS.                                     *)
(***************************************************************************)
HttpxAnswers(c) ==
    /\ LoopFree(c) /\ req[c].pc = "sent"
    /\ \E code \in Codes : Succeeded(c, code, {})

HttpxRaises(c) ==
    /\ LoopFree(c) /\ req[c].pc = "sent"
    /\ \E e \in HttpxErrors : Failed(c, e, {})

(***************************************************************************)
(* A script run by os.system().                                            *)
(***************************************************************************)
\* The data cannot be written as JSON: SubprocessHttpClient finds out before it
\* creates a file, the login (see FileFails) while it writes one.
BadData(c) ==
    /\ req[c].pc = "files" /\ req[c].temp = {} /\ c # Login
    /\ Failed(c, "other", {})

CreateFile(c) ==
    /\ req[c].pc = "files" /\ req[c].temp # Files
    /\ req' = [req EXCEPT ![c].temp = @ \cup {NextFile(@)}]
    /\ UNCHANGED <<platform, busy, recoveries, downtime, slept>>

\* Creating or writing the next file fails.  Until the script is written, the
\* HTTP client is not yet in the try block that deletes the files; the login is,
\* but does not know the name of the file it was writing.
FileFails(c) ==
    /\ req[c].pc = "files" /\ req[c].temp # Files
    /\ LET next == NextFile(req[c].temp)
           kept == IF c = Login THEN {} ELSE req[c].temp
       IN  \E created \in BOOLEAN :
               Failed(c, "os", IF created THEN kept \cup {next} ELSE kept)

\* The child makes the request and writes the answer, or an error of its own, or
\* is killed.
RunScript(c) ==
    /\ req[c].pc = "files" /\ req[c].temp = Files
    /\ \E out \in (IF c = Login THEN {"ok"} ELSE Codes) \cup {"error", "torn"} :
           req' = [req EXCEPT ![c].pc = "ran", ![c].out = out]
    /\ UNCHANGED <<platform, busy, recoveries, downtime, slept>>

\* Mutant: the files are deleted when an answer was read.
KeepOnError(c) ==
    /\ req[c].pc = "ran"
    /\ IF req[c].out \in Codes THEN Succeeded(c, req[c].out, {})
       ELSE Failed(c, "runtime", req[c].temp)

\* The finally block deletes all files; a child that failed or left no answer
\* ends the attempt in a RuntimeError.
ReadAnswer(c) ==
    /\ req[c].pc = "ran"
    /\ IF req[c].out \in Codes THEN Succeeded(c, req[c].out, {})
       ELSE Failed(c, "runtime", {})

(***************************************************************************)
(* Sleeping.                                                               *)
(***************************************************************************)
WakeUp(c) ==
    /\ LoopFree(c) /\ req[c].pc = "backoff"
    /\ Attempt(c, [req[c] EXCEPT !.attempt = @ + 1])
    /\ UNCHANGED <<platform, recoveries, downtime, slept>>

\* SmartRetry begins its next round, or raises its last exception.
NextRound(c) ==
    /\ LoopFree(c) /\ req[c].pc = "pause"
    /\ IF req[c].round < SmartAttempts
       THEN Attempt(c, [req[c] EXCEPT !.round = @ + 1, !.attempt = 0, !.waited = 0])
       ELSE req' = [req EXCEPT ![c] = Over(@, "raised")] /\ UNCHANGED busy
    /\ UNCHANGED <<platform, recoveries, downtime, slept>>

RequestStep(c) ==
    \/ HttpxAnswers(c) \/ HttpxRaises(c)
    \/ BadData(c) \/ CreateFile(c) \/ FileFails(c) \/ RunScript(c) \/ ReadAnswer(c)
    \/ WakeUp(c) \/ NextRound(c)

(***************************************************************************)
(* Properties.                                                             *)
(***************************************************************************)
ApiTypeOK == /\ platform \in {"Darwin", "Linux"}
             /\ req \in [Callers -> Request]
             /\ busy \in Callers \cup {NoItem}
             /\ {recoveries, downtime, slept} \subseteq Nat

\* The temporary files, which hold headers and passwords, are gone once their
\* call goes on, through all retries.  Only a call that could not write one of
\* them leaves any behind, and that call is never repeated and fails.
NoTempFileLeft ==
    \A c \in Callers : req[c].temp # {} /\ busy # c => req[c].pc = "raised"

\* The downtime shown for the controller is what was slept for it, but for the
\* extra seconds after disconnections.
DowntimeWasSlept ==
    /\ downtime <= slept
    /\ slept <= downtime + recoveries * ExtraAttempts * ExtraDelay
=============================================================================
