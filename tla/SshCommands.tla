---------------------------- MODULE SshCommands ----------------------------
(***************************************************************************)
(* The commands of one SSH test: execute_command() and parse_output() of   *)
(* pyats_core/common/ssh_base_test.py with the CommandCache of the test    *)
(* (ssh/command_cache.py).                                                 *)
(*                                                                         *)
(* Each item of the test issues one command, from a coroutine of the event *)
(* loop.  The command runs in a thread of the loop's pool.  With a broker  *)
(* the thread schedules a coroutine of the broker client on the loop and   *)
(* waits for it with a timeout; without one it calls the device itself.    *)
(* Nobody cancels the coroutine of a thread that has timed out.            *)
(*                                                                         *)
(* What the broker and its client do is in ConnectionBroker and            *)
(* BrokerClient: here the broker answers, refuses, or does neither.        *)
(***************************************************************************)
EXTENDS Integers, FiniteSets

CONSTANTS
    Items,     \* the items of the test
    Commands,  \* CLI commands
    Threads    \* workers of the pool of the event loop

VARIABLES
    brokered,  \* do the commands go through the broker?
    cache,     \* cache[k]: is there an output of command k, and is it too old?
    call,      \* call[c]: the command of item c
    request    \* request[c]: the broker request scheduled for c

sshVars == <<brokered, cache, call, request>>

\* pc: "pool" waiting for a thread, "working" in one, "answered" with the output,
\* which is back in the loop or in the hands of the parser.  A parser that fails
\* on it leaves the command "unparsed".
Call == [pc: {"idle", "pool", "working", "answered", "returned", "unparsed", "nothing", "raised"},
         command: Commands,
         genie: BOOLEAN]   \* issued by a Genie parser

\* Where a command is that got its output.
Answered == {"answered", "returned", "unparsed"}

SshInit ==
    /\ brokered = FALSE
    /\ cache = [k \in Commands |-> "none"]
    /\ call = [c \in Items |->
                   [pc |-> "idle", command |-> CHOOSE k \in Commands : TRUE, genie |-> FALSE]]
    /\ request = [c \in Items |-> "none"]

Goto(c, pc) == call' = [call EXCEPT ![c].pc = pc]

(***************************************************************************)
(* CommandCache.  get() deletes an output older than the TTL.              *)
(***************************************************************************)
Hit(k) == cache[k] = "fresh"
Get(k) == IF Hit(k) THEN cache ELSE [cache EXCEPT ![k] = "none"]
Put(k) == [cache EXCEPT ![k] = "fresh"]

Expire(k) ==
    /\ Hit(k)
    /\ cache' = [cache EXCEPT ![k] = "old"]
    /\ UNCHANGED <<brokered, call, request>>

(***************************************************************************)
(* The coroutine.  parse_output() always takes a thread; execute_command() *)
(* looks into the cache first.                                             *)
(***************************************************************************)
Issue(c) ==
    /\ call[c].pc = "idle"
    /\ \E k \in Commands, genie \in BOOLEAN :
           /\ call' = [call EXCEPT ![c] =
                          [pc |-> IF ~genie /\ Hit(k) THEN "returned" ELSE "pool",
                           command |-> k, genie |-> genie]]
           /\ cache' = IF genie THEN cache ELSE Get(k)
    /\ UNCHANGED <<brokered, request>>

\* An error ends the command.  parse_output() returns None instead.
Fail(c) == Goto(c, IF call[c].genie THEN "nothing" ELSE "raised")

\* The output is back in the loop, where execute_command() stores it (again, if
\* it came through the broker); or the parser has made something of it.
Finish(c) ==
    /\ call[c].pc = "answered"
    /\ Goto(c, "returned")
    /\ cache' = IF call[c].genie THEN cache ELSE Put(call[c].command)
    /\ UNCHANGED <<brokered, request>>

(***************************************************************************)
(* The thread: broker_execute(), or execute() of the device.               *)
(***************************************************************************)
\* A Genie parser works in the thread that asked for the output.
Busy(c) == call[c].pc = "working" \/ (call[c].genie /\ call[c].pc = "answered")

GetsThread(c) == call[c].pc = "pool" /\ Cardinality({d \in Items : Busy(d)}) < Threads

Work(c) ==
    /\ GetsThread(c)
    /\ IF ~brokered
       THEN Goto(c, "working") /\ UNCHANGED <<cache, request>>
       ELSE /\ cache' = Get(call[c].command)
            /\ IF Hit(call[c].command)
               THEN Goto(c, "answered") /\ UNCHANGED request
               ELSE /\ Goto(c, "working")
                    /\ request' = [request EXCEPT ![c] = "queued"]
    /\ UNCHANGED brokered

\* Genie has no parser for the command, or the parser fails on the output, which
\* the thread has stored by then: parse_output() returns None.
ParserFails(c) ==
    /\ call[c].genie
    /\ \/ GetsThread(c) /\ Goto(c, "nothing")
       \/ call[c].pc = "answered" /\ Goto(c, "unparsed")
    /\ UNCHANGED <<brokered, cache, request>>

\* Unicon answers or raises; the direct call stores nothing in the thread.
DeviceAnswers(c) ==
    /\ ~brokered /\ call[c].pc = "working"
    /\ Goto(c, "answered") \/ Fail(c)
    /\ UNCHANGED <<brokered, cache, request>>

\* Mutant: the time is taken from when the request was sent.
TimeOutOfSent(c) ==
    /\ brokered /\ call[c].pc = "working" /\ request[c] = "sent"
    /\ Fail(c)
    /\ UNCHANGED <<brokered, cache, request>>

\* future.result(timeout) gives up; the request goes on.
TimeOut(c) ==
    /\ brokered /\ call[c].pc = "working"
    /\ Fail(c)
    /\ UNCHANGED <<brokered, cache, request>>

(***************************************************************************)
(* The coroutine of the broker client, one at a time in _request_lock.     *)
(***************************************************************************)
Send(c) ==
    /\ request[c] = "queued" /\ \A d \in Items : request[d] # "sent"
    /\ request' = [request EXCEPT ![c] = "sent"]
    /\ UNCHANGED <<brokered, cache, call>>

\* Mutant: the coroutine stores the output, whoever waits for it.
AnswerStored(c) ==
    /\ request[c] = "sent"
    /\ request' = [request EXCEPT ![c] = "none"]
    /\ cache' = Put(call[c].command)
    /\ IF call[c].pc = "working" THEN Goto(c, "answered") ELSE UNCHANGED call
    /\ UNCHANGED brokered

\* An answer for a thread that still waits is stored by it; a late one is dropped.
BrokerAnswers(c) ==
    /\ request[c] = "sent"
    /\ request' = [request EXCEPT ![c] = "none"]
    /\ IF call[c].pc = "working"
       THEN Goto(c, "answered") /\ cache' = Put(call[c].command)
       ELSE UNCHANGED <<call, cache>>
    /\ UNCHANGED brokered

BrokerRefuses(c) ==
    /\ request[c] = "sent"
    /\ request' = [request EXCEPT ![c] = "none"]
    /\ IF call[c].pc = "working" THEN Fail(c) ELSE UNCHANGED call
    /\ UNCHANGED <<brokered, cache>>

SshStep(c) ==
    \/ Finish(c) \/ Work(c) \/ ParserFails(c) \/ DeviceAnswers(c) \/ TimeOut(c)
    \/ Send(c) \/ BrokerAnswers(c) \/ BrokerRefuses(c)

\* What does not depend on the broker.
CallerStep(c) ==
    Finish(c) \/ Work(c) \/ ParserFails(c) \/ DeviceAnswers(c) \/ TimeOut(c)

(***************************************************************************)
(* Properties.                                                             *)
(***************************************************************************)
SshTypeOK == /\ brokered \in BOOLEAN
             /\ cache \in [Commands -> {"none", "fresh", "old"}]
             /\ call \in [Items -> Call]
             /\ request \in [Items -> {"none", "queued", "sent"}]

\* The cache answers with nothing but what some command of the test got from the
\* device in time, whether or not a parser could use it: not with the late output
\* of a command that has timed out, whose verification has failed.
CachedWasAnswered ==
    \A k \in Commands : cache[k] # "none" =>
        \E c \in Items : call[c].command = k /\ call[c].pc \in Answered
=============================================================================
