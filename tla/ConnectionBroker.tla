------------------------- MODULE ConnectionBroker -------------------------
(***************************************************************************)
(* nac_test/pyats_core/broker/connection_broker.py: the asyncio server     *)
(* through which the test subprocesses share one CLI session per device.   *)
(*                                                                         *)
(* One task per connected client handles that client's requests in order;  *)
(* one more task, the closer, is ConnectionBroker.shutdown().  All tasks   *)
(* run on one event loop, so a step of this module is what a task does     *)
(* between two points where it can be suspended: waiting for a device      *)
(* lock, for a permit of the connection semaphore, or for a blocking       *)
(* Unicon call in an executor thread.  A few of these stretches are split  *)
(* further (a free lock or permit is taken in a step of its own), which    *)
(* only adds interleavings.                                                *)
(*                                                                         *)
(* Definitions whose comment begins with "Mutant" are faulty versions of   *)
(* the definition after them; no specification uses them.  They are there  *)
(* to see that each property below fails when the code has such a bug.     *)
(*                                                                         *)
(* The output of a command is represented by the number of the session     *)
(* that produced it; 0 stands for no output.                               *)
(***************************************************************************)
EXTENDS Naturals, Sequences, FiniteSets

CONSTANTS
    Clients,          \* connected test subprocesses (BrokerClient instances)
    Closer,           \* the task that runs shutdown()
    NoTask,           \* the owner of a free lock
    Hosts,            \* the hostnames requests name
    Testbed,          \* the hostnames the loaded testbed knows
    Cmds,             \* the CLI commands requests name
    MaxConnections,   \* max_connections, the size of the semaphore
    OtherRequests,    \* bound: which requests besides "execute" clients send
    MaxRequests       \* bound: how many requests each client sends

Tasks == Clients \cup {Closer}

ASSUME TasksAssumption == Closer \notin Clients /\ NoTask \notin Tasks
ASSUME HostsAssumption == Testbed \subseteq Hosts /\ Hosts # {} /\ Cmds # {}
ASSUME LimitsAssumption == MaxConnections \in Nat /\ MaxRequests \in Nat
ASSUME RequestsAssumption == OtherRequests \subseteq {"connect", "disconnect"}
ASSUME FiniteAssumption == IsFiniteSet(Clients)

VARIABLES
    \* the devices: each hostname has one pyATS device object
    connected,   \* keys of self.connected_devices
    session,     \* session[h]: number of sessions opened to h so far
    alive,       \* alive[h]: the latest session to h still works
    stray,       \* stray[h]: a disconnect of h nobody waits for any more
    \* self._device_locks, self.connection_semaphore
    owner,       \* owner[h]: the task that has, or was handed, the lock of h
    waiters,     \* waiters[h]: the tasks queued for the lock of h
    permits,     \* free permits of the semaphore
    permitQueue, \* the tasks queued for a permit
    \* self.command_cache
    cached,      \* cached[h][c]: what the cache of h holds for c, 0 if nothing
    \* the tasks and the local variables of the request each is working on
    pc, op, host, cmd,
    attached,    \* attached[t]: the cache object it looked up is still h's
    kept,        \* kept[t]: if not, what that object holds for its command
    attempt,     \* attempt[t]: first or second try of the command
    used,        \* used[t]: session the command was last tried on
    since,       \* since[t]: oldest session the request may be answered from
    answer,      \* answer[t]: the output it will respond with, 0 if none
    \* the server
    open,        \* clients whose socket is open
    left,        \* left[t]: requests client t may still send
    phase,       \* progress of shutdown()
    todo         \* devices of its snapshot shutdown() has not turned to

deviceVars == <<connected, session, alive, stray>>
lockVars   == <<owner, waiters>>
permitVars == <<permits, permitQueue>>
cacheVars  == <<cached, attached, kept>>
localVars  == <<op, host, cmd, attempt, used, since>>
serverVars == <<open, left, phase, todo>>
vars == <<deviceVars, lockVars, permitVars, cacheVars, localVars,
          pc, answer, serverVars>>

AtRest  == {"idle", "closed"}
Calling == {"connecting", "executing", "healing", "failing", "disconnecting"}
Holding == {"obtain", "permit"} \cup Calling
Empty   == [c \in Cmds |-> 0]
AnyHost == CHOOSE h \in Hosts : TRUE
AnyCmd  == CHOOSE c \in Cmds : TRUE

TypeOK ==
    /\ connected \in SUBSET Hosts
    /\ session \in [Hosts -> Nat]
    /\ alive \in [Hosts -> BOOLEAN]
    /\ stray \in [Hosts -> {"none", "running", "ended"}]
    /\ owner \in [Hosts -> Tasks \cup {NoTask}]
    /\ waiters \in [Hosts -> Seq(Tasks)]
    /\ permits \in Nat
    /\ permitQueue \in Seq(Tasks)
    /\ cached \in [Hosts -> [Cmds -> Nat]]
    /\ pc \in [Tasks -> AtRest \cup {"lock", "done"} \cup Holding]
    /\ op \in [Tasks -> {"execute", "connect", "disconnect"}]
    /\ host \in [Tasks -> Hosts]
    /\ cmd \in [Tasks -> Cmds]
    /\ attached \in [Tasks -> BOOLEAN]
    /\ kept \in [Tasks -> Nat]
    /\ attempt \in [Tasks -> {1, 2}]
    /\ used \in [Tasks -> Nat]
    /\ since \in [Tasks -> Nat]
    /\ answer \in [Tasks -> Nat]
    /\ open \in SUBSET Clients
    /\ left \in [Clients -> Nat]
    /\ phase \in {"up", "closing", "draining", "stopped"}
    /\ todo \in SUBSET Hosts

Init ==
    /\ connected = {}
    /\ session = [h \in Hosts |-> 0]
    /\ alive = [h \in Hosts |-> FALSE]
    /\ stray = [h \in Hosts |-> "none"]
    /\ owner = [h \in Hosts |-> NoTask]
    /\ waiters = [h \in Hosts |-> <<>>]
    /\ permits = MaxConnections
    /\ permitQueue = <<>>
    /\ cached = [h \in Hosts |-> Empty]
    /\ pc = [t \in Tasks |-> "idle"]
    /\ op = [t \in Tasks |-> "disconnect"]
    /\ host = [t \in Tasks |-> AnyHost]
    /\ cmd = [t \in Tasks |-> AnyCmd]
    /\ attached = [t \in Tasks |-> FALSE]
    /\ kept = [t \in Tasks |-> 0]
    /\ attempt = [t \in Tasks |-> 1]
    /\ used = [t \in Tasks |-> 0]
    /\ since = [t \in Tasks |-> 0]
    /\ answer = [t \in Tasks |-> 0]
    /\ open = Clients
    /\ left = [t \in Clients |-> MaxRequests]
    /\ phase = "up"
    /\ todo = {}
-----------------------------------------------------------------------------
(* The device locks. asyncio.Lock serves its waiters in order and a         *)
(* released lock goes to the first of them, so a release names the next     *)
(* owner, which takes up its work in a later step.                          *)

Lock(t, h) ==
    IF owner[h] = NoTask
    THEN /\ owner' = [owner EXCEPT ![h] = t]
         /\ UNCHANGED waiters
    ELSE /\ waiters' = [waiters EXCEPT ![h] = Append(@, t)]
         /\ UNCHANGED owner

\* Mutant: a release frees the lock and wakes nobody.
UnlockWakesNobody(h) ==
    owner' = [owner EXCEPT ![h] = NoTask] /\ UNCHANGED waiters

Unlock(h) ==
    IF waiters[h] = <<>>
    THEN /\ owner' = [owner EXCEPT ![h] = NoTask]
         /\ UNCHANGED waiters
    ELSE /\ owner' = [owner EXCEPT ![h] = Head(waiters[h])]
         /\ waiters' = [waiters EXCEPT ![h] = Tail(@)]

Goto(t, label) == pc' = [pc EXCEPT ![t] = label]

\* A task under the lock of its host is done: it releases the lock.
Finish(t, output) ==
    /\ Unlock(host[t])
    /\ Goto(t, "done")
    /\ answer' = [answer EXCEPT ![t] = output]
-----------------------------------------------------------------------------
(* The caches.  An object dropped from self.command_cache is never written   *)
(* again, because outputs are stored in the object the device has by then.  *)
(* What is left of it is what the tasks that looked it up will find there.  *)

\* Mutant: a disconnect leaves the cache of the device alone.
KeepCache(h) == UNCHANGED cacheVars

\* del self.command_cache[h]
DropCache(h) ==
    /\ cached' = [cached EXCEPT ![h] = Empty]
    /\ attached' = [t \in Tasks |-> attached[t] /\ host[t] # h]
    /\ kept' = [t \in Tasks |-> IF attached[t] /\ host[t] = h
                                THEN cached[h][cmd[t]] ELSE kept[t]]

\* cache.get(cmd) on the object the task looked up when it started
Found(t) == IF attached[t] THEN cached[host[t]][cmd[t]] ELSE kept[t]
-----------------------------------------------------------------------------
(* Requests.  A request on a hostname without a lock creates the lock, so   *)
(* every hostname has one; the locks of unknown hosts guard nothing.  (A    *)
(* disconnect does not create it, but then has nothing to disconnect.)      *)

\* The session a request on h would use if nothing failed: the present one or,
\* if there is none, the next.
NextSession(h) == IF h \in connected THEN session[h] ELSE session[h] + 1

\* _execute_command up to the wait for the lock: the cache of the device is
\* looked up (and created), and a hit is answered without the lock.
ReceiveExecute(t, h, c) ==
    /\ pc[t] = "idle" /\ t \in open /\ left[t] > 0
    /\ left' = [left EXCEPT ![t] = @ - 1]
    /\ op' = [op EXCEPT ![t] = "execute"]
    /\ host' = [host EXCEPT ![t] = h]
    /\ cmd' = [cmd EXCEPT ![t] = c]
    /\ attached' = [attached EXCEPT ![t] = TRUE]
    /\ since' = [since EXCEPT ![t] = NextSession(h)]
    /\ answer' = [answer EXCEPT ![t] = cached[h][c]]
    /\ IF cached[h][c] # 0
       THEN Goto(t, "done") /\ UNCHANGED lockVars
       ELSE Goto(t, "lock") /\ Lock(t, h)
    /\ UNCHANGED <<deviceVars, permitVars, cached, kept, attempt, used, open,
                   phase, todo>>

\* The "connect" and "disconnect" requests up to the wait for the lock.
ReceiveOther(t, h, request) ==
    /\ pc[t] = "idle" /\ t \in open /\ left[t] > 0
    /\ left' = [left EXCEPT ![t] = @ - 1]
    /\ op' = [op EXCEPT ![t] = request]
    /\ host' = [host EXCEPT ![t] = h]
    /\ since' = [since EXCEPT ![t] = NextSession(h)]
    /\ Goto(t, "lock")
    /\ Lock(t, h)
    /\ UNCHANGED <<deviceVars, permitVars, cacheVars, cmd, attempt, used,
                   answer, open, phase, todo>>

\* The response is sent and the locals of the request are gone.  The client
\* loop reads the next request unless its client has left or shutdown began.
Respond(t) ==
    /\ pc[t] = "done"
    /\ Goto(t, IF t \in Clients /\ (t \notin open \/ phase # "up")
               THEN "closed" ELSE "idle")
    /\ op' = [op EXCEPT ![t] = "disconnect"]
    /\ host' = [host EXCEPT ![t] = AnyHost]
    /\ cmd' = [cmd EXCEPT ![t] = AnyCmd]
    /\ attached' = [attached EXCEPT ![t] = FALSE]
    /\ kept' = [kept EXCEPT ![t] = 0]
    /\ attempt' = [attempt EXCEPT ![t] = 1]
    /\ used' = [used EXCEPT ![t] = 0]
    /\ since' = [since EXCEPT ![t] = 0]
    /\ answer' = [answer EXCEPT ![t] = 0]
    /\ UNCHANGED <<deviceVars, lockVars, permitVars, cached, serverVars>>

\* The client closes its socket, or sends an empty or oversized frame.  A
\* request in progress goes on; its response is lost.
ClientLeaves(t) ==
    /\ t \in open
    /\ open' = open \ {t}
    /\ IF pc[t] = "idle" THEN Goto(t, "closed") ELSE UNCHANGED pc
    /\ UNCHANGED <<deviceVars, lockVars, permitVars, cacheVars, localVars,
                   answer, left, phase, todo>>
-----------------------------------------------------------------------------
(* Under the lock.                                                          *)

\* Mutant: no device lock at all.
GrantedToAll(t) == pc[t] = "lock"

Granted(t) == pc[t] = "lock" /\ owner[host[t]] = t

\* The second look into the cache finds the output.  The object is the one
\* looked up before the wait.
AnswerFromCache(t) ==
    /\ Granted(t) /\ op[t] = "execute"
    /\ Found(t) # 0
    /\ Finish(t, Found(t))
    /\ UNCHANGED <<deviceVars, permitVars, cacheVars, localVars, serverVars>>

\* Mutant: no second look into the cache under the lock.
NeedsConnectionBlindly(t) ==
    \/ pc[t] = "obtain"
    \/ Granted(t) /\ op[t] # "disconnect"

\* The task turns to _get_connection: for a "connect" request, for a command
\* it did not find, or for the second try of a command.
NeedsConnection(t) ==
    \/ pc[t] = "obtain"
    \/ Granted(t) /\ op[t] = "execute" /\ Found(t) = 0
    \/ Granted(t) /\ op[t] = "connect"

\* _disconnect_device on a device that is connected.
StartDisconnect(t) ==
    /\ Granted(t) /\ op[t] = "disconnect"
    /\ host[t] \in connected
    /\ Goto(t, "disconnecting")
    /\ UNCHANGED <<deviceVars, lockVars, permitVars, cacheVars, localVars,
                   answer, serverVars>>

\* _disconnect_device on a device that is not: only the cache is dropped.
NothingToDisconnect(t) ==
    /\ Granted(t) /\ op[t] = "disconnect"
    /\ host[t] \notin connected
    /\ DropCache(host[t])
    /\ Finish(t, 0)
    /\ UNCHANGED <<deviceVars, permitVars, localVars, serverVars>>

\* _get_connection finds a session and hands it out without probing it.
Reuse(t) ==
    /\ NeedsConnection(t) /\ host[t] \in connected
    /\ IF op[t] = "execute"
       THEN /\ Goto(t, "executing")
            /\ used' = [used EXCEPT ![t] = session[host[t]]]
            /\ UNCHANGED <<lockVars, answer>>
       ELSE Finish(t, 0) /\ UNCHANGED used
    /\ UNCHANGED <<deviceVars, permitVars, cacheVars, op, host, cmd,
                   attempt, since, serverVars>>

\* _create_connection of a device the testbed does not have.
UnknownHost(t) ==
    /\ NeedsConnection(t) /\ host[t] \notin connected \cup Testbed
    /\ Finish(t, 0)
    /\ UNCHANGED <<deviceVars, permitVars, cacheVars, localVars, serverVars>>

AskPermit(t) ==
    /\ NeedsConnection(t) /\ host[t] \in Testbed \ connected
    /\ permitQueue' = Append(permitQueue, t)
    /\ Goto(t, "permit")
    /\ UNCHANGED <<deviceVars, lockVars, permits, cacheVars, localVars,
                   answer, serverVars>>

\* The semaphore serves its waiters in order; device.connect() starts.
GetPermit(t) ==
    /\ pc[t] = "permit" /\ permitQueue # <<>> /\ Head(permitQueue) = t
    /\ permits > 0
    /\ permits' = permits - 1
    /\ permitQueue' = Tail(permitQueue)
    /\ Goto(t, "connecting")
    /\ UNCHANGED <<deviceVars, lockVars, cacheVars, localVars, answer,
                   serverVars>>

ConnectOk(t) ==
    /\ pc[t] = "connecting"
    /\ permits' = permits + 1
    /\ connected' = connected \cup {host[t]}
    /\ session' = [session EXCEPT ![host[t]] = @ + 1]
    /\ alive' = [alive EXCEPT ![host[t]] = TRUE]
    /\ IF op[t] = "execute"
       THEN /\ Goto(t, "executing")
            /\ used' = [used EXCEPT ![t] = session[host[t]] + 1]
            /\ UNCHANGED <<lockVars, answer>>
       ELSE Finish(t, 0) /\ UNCHANGED used
    /\ UNCHANGED <<stray, permitQueue, cacheVars, op, host, cmd,
                   attempt, since, serverVars>>

\* Mutant: the permit is given back only when the connect succeeds.
ConnectFailedKeepsPermit(t) ==
    /\ pc[t] = "connecting"
    /\ Finish(t, 0)
    /\ UNCHANGED <<deviceVars, permitVars, cacheVars, localVars, serverVars>>

\* The permit is given back and the error goes to the client; a failed
\* connect is not retried.
ConnectFailed(t) ==
    /\ pc[t] = "connecting"
    /\ permits' = permits + 1
    /\ Finish(t, 0)
    /\ UNCHANGED <<deviceVars, permitQueue, cacheVars, localVars, serverVars>>
-----------------------------------------------------------------------------
(* The command.                                                             *)

\* The device answers: the output goes into the cache the device has now.
ExecuteOk(t) ==
    LET h == host[t] IN
    /\ pc[t] = "executing" /\ alive[h]
    /\ cached' = [cached EXCEPT ![h][cmd[t]] = session[h]]
    /\ Finish(t, session[h])
    /\ UNCHANGED <<deviceVars, permitVars, attached, kept, localVars,
                   serverVars>>

\* Mutant: the lock is not released when the command raises.
ExecuteRejectedKeepsLock(t) ==
    /\ pc[t] = "executing" /\ alive[host[t]]
    /\ Goto(t, "done")
    /\ UNCHANGED <<deviceVars, lockVars, permitVars, cacheVars, localVars,
                   answer, serverVars>>

\* SubCommandFailure: the device rejects the command on a sound session,
\* which is kept with its cache.
ExecuteRejected(t) ==
    /\ pc[t] = "executing" /\ alive[host[t]]
    /\ Finish(t, 0)
    /\ UNCHANGED <<deviceVars, permitVars, cacheVars, localVars, serverVars>>

\* Transport failure: the session is torn down; after the first try the
\* command will be tried once more.
ExecuteLost(t) ==
    /\ pc[t] = "executing" /\ ~alive[host[t]]
    /\ Goto(t, IF attempt[t] = 1 THEN "healing" ELSE "failing")
    /\ UNCHANGED <<deviceVars, lockVars, permitVars, cacheVars, localVars,
                   answer, serverVars>>

\* Any other failure tears the session down and is not retried.
ExecuteBroken(t) ==
    /\ pc[t] = "executing"
    /\ Goto(t, "failing")
    /\ UNCHANGED <<deviceVars, lockVars, permitVars, cacheVars, localVars,
                   answer, serverVars>>

\* Mutant: a heal leaves the dead session in connected_devices.
DisconnectedKeepsDevice(t) ==
    /\ pc[t] \in {"healing", "failing", "disconnecting"}
    /\ DropCache(host[t])
    /\ IF pc[t] = "healing"
       THEN /\ Goto(t, "obtain")
            /\ attempt' = [attempt EXCEPT ![t] = 2]
            /\ UNCHANGED <<lockVars, answer>>
       ELSE Finish(t, 0) /\ UNCHANGED attempt
    /\ UNCHANGED <<deviceVars, permitVars, op, host, cmd,
                   used, since, serverVars>>

\* Mutant: the lock is released between the failure and the second try.
DisconnectedUnlocks(t) ==
    /\ pc[t] \in {"healing", "failing", "disconnecting"}
    /\ connected' = connected \ {host[t]}
    /\ alive' = [alive EXCEPT ![host[t]] = FALSE]
    /\ DropCache(host[t])
    /\ Unlock(host[t])
    /\ IF pc[t] = "healing"
       THEN /\ Goto(t, "obtain")
            /\ attempt' = [attempt EXCEPT ![t] = 2]
            /\ UNCHANGED answer
       ELSE /\ Goto(t, "done")
            /\ answer' = [answer EXCEPT ![t] = 0]
            /\ UNCHANGED attempt
    /\ UNCHANGED <<session, stray, permitVars, op, host, cmd,
                   used, since, serverVars>>

\* disconnect() returns or raises: either way the session and the cache of
\* the device are forgotten.
Disconnected(t) ==
    /\ pc[t] \in {"healing", "failing", "disconnecting"}
    /\ connected' = connected \ {host[t]}
    /\ alive' = [alive EXCEPT ![host[t]] = FALSE]
    /\ DropCache(host[t])
    /\ IF pc[t] = "healing"
       THEN /\ Goto(t, "obtain")
            /\ attempt' = [attempt EXCEPT ![t] = 2]
            /\ UNCHANGED <<lockVars, answer>>
       ELSE Finish(t, 0) /\ UNCHANGED attempt
    /\ UNCHANGED <<session, stray, permitVars, op, host, cmd,
                   used, since, serverVars>>
-----------------------------------------------------------------------------
(* shutdown().                                                              *)

BeginShutdown ==
    /\ phase = "up"
    /\ phase' = "closing"
    /\ UNCHANGED <<deviceVars, lockVars, permitVars, cacheVars, localVars,
                   pc, answer, open, left, todo>>

\* The sockets are closed one by one; a client not yet reached can still
\* send a request.
CloseClient(t) ==
    /\ phase = "closing" /\ t \in open
    /\ open' = open \ {t}
    /\ IF pc[t] = "idle" THEN Goto(t, "closed") ELSE UNCHANGED pc
    /\ UNCHANGED <<deviceVars, lockVars, permitVars, cacheVars, localVars,
                   answer, left, phase, todo>>

Snapshot ==
    /\ phase = "closing" /\ open = {}
    /\ phase' = "draining"
    /\ todo' = connected
    /\ UNCHANGED <<deviceVars, lockVars, permitVars, cacheVars, localVars,
                   pc, answer, open, left>>

CloseDevice(h) ==
    /\ phase = "draining" /\ pc[Closer] = "idle" /\ h \in todo
    /\ todo' = todo \ {h}
    /\ host' = [host EXCEPT ![Closer] = h]
    /\ Goto(Closer, "lock")
    /\ Lock(Closer, h)
    /\ UNCHANGED <<deviceVars, permitVars, cacheVars, op, cmd, attempt, used,
                   since, answer, open, left, phase>>

\* wait_for gives up on a device whose lock was not obtained in time.
GiveUpWaiting ==
    LET h == host[Closer] IN
    /\ pc[Closer] = "lock"
    /\ IF owner[h] = Closer
       THEN Unlock(h)
       ELSE /\ \E i \in 1 .. Len(waiters[h]) :
                   /\ waiters[h][i] = Closer
                   /\ waiters' = [waiters EXCEPT
                        ![h] = SubSeq(@, 1, i - 1) \o SubSeq(@, i + 1, Len(@))]
            /\ UNCHANGED owner
    /\ Goto(Closer, "done")
    /\ UNCHANGED <<deviceVars, permitVars, cacheVars, localVars, answer,
                   serverVars>>

\* Mutant: the device stays in connected_devices when its disconnect is
\* given up on.
GiveUpDisconnectKeepsDevice ==
    LET h == host[Closer] IN
    /\ pc[Closer] = "disconnecting"
    /\ stray' = [stray EXCEPT ![h] = "running"]
    /\ Unlock(h)
    /\ Goto(Closer, "done")
    /\ UNCHANGED <<connected, session, alive, permitVars, cacheVars,
                   localVars, answer, serverVars>>

\* wait_for gives up on a disconnect in progress: the device is forgotten
\* and its lock released, its cache stays, and the call itself runs on.
GiveUpDisconnect ==
    LET h == host[Closer] IN
    /\ pc[Closer] = "disconnecting"
    /\ connected' = connected \ {h}
    /\ stray' = [stray EXCEPT ![h] = "running"]
    /\ Unlock(h)
    /\ Goto(Closer, "done")
    /\ UNCHANGED <<session, alive, permitVars, cacheVars, localVars, answer,
                   serverVars>>

Stop ==
    /\ phase = "draining" /\ pc[Closer] = "idle" /\ todo = {}
    /\ phase' = "stopped"
    /\ UNCHANGED <<deviceVars, lockVars, permitVars, cacheVars, localVars,
                   pc, answer, open, left, todo>>
-----------------------------------------------------------------------------
(* The environment.                                                         *)

\* A session dies, or gets out of step with the device's prompts.
SessionDies(h) ==
    /\ h \in connected /\ alive[h]
    /\ alive' = [alive EXCEPT ![h] = FALSE]
    /\ UNCHANGED <<connected, session, stray, lockVars, permitVars, cacheVars,
                   localVars, pc, answer, serverVars>>

\* The abandoned disconnect ends; it closes whatever session the device
\* object has by then.
StrayEnds(h) ==
    /\ stray[h] = "running"
    /\ stray' = [stray EXCEPT ![h] = "ended"]
    /\ alive' = [alive EXCEPT ![h] = FALSE]
    /\ UNCHANGED <<connected, session, lockVars, permitVars, cacheVars,
                   localVars, pc, answer, serverVars>>

\* A cached output reaches its time to live, in the cache of a device or in
\* an object only a task about to look into it still has.
Expire(h, c) ==
    /\ cached[h][c] # 0
    /\ cached' = [cached EXCEPT ![h][c] = 0]
    /\ UNCHANGED <<deviceVars, lockVars, permitVars, attached, kept,
                   localVars, pc, answer, serverVars>>

ExpireKept(t) ==
    /\ Granted(t) /\ kept[t] # 0
    /\ kept' = [kept EXCEPT ![t] = 0]
    /\ UNCHANGED <<deviceVars, lockVars, permitVars, cached, attached,
                   localVars, pc, answer, serverVars>>
-----------------------------------------------------------------------------
TaskStep(t) ==
    \/ AnswerFromCache(t)
    \/ StartDisconnect(t) \/ NothingToDisconnect(t)
    \/ Reuse(t) \/ UnknownHost(t) \/ AskPermit(t) \/ GetPermit(t)
    \/ ConnectOk(t) \/ ConnectFailed(t)
    \/ ExecuteOk(t) \/ ExecuteRejected(t) \/ ExecuteLost(t) \/ ExecuteBroken(t)
    \/ Disconnected(t) \/ Respond(t)

ShutdownStep ==
    \/ \E t \in Clients : CloseClient(t)
    \/ Snapshot
    \/ \E h \in Hosts : CloseDevice(h)
    \/ Stop

Request(t) ==
    \E h \in Hosts :
        \/ \E c \in Cmds : ReceiveExecute(t, h, c)
        \/ \E r \in OtherRequests : ReceiveOther(t, h, r)

Environment ==
    \/ \E h \in Hosts : SessionDies(h) \/ StrayEnds(h)
    \/ \E h \in Hosts, c \in Cmds : Expire(h, c)
    \/ \E t \in Tasks : ExpireKept(t)

Next ==
    \/ \E t \in Tasks : TaskStep(t)
    \/ \E t \in Clients : Request(t) \/ ClientLeaves(t)
    \/ BeginShutdown \/ ShutdownStep \/ GiveUpWaiting \/ GiveUpDisconnect
    \/ Environment

Spec == Init /\ [][Next]_vars

\* A handler that is not waiting is run by the event loop; a semaphore and a
\* lock hand themselves to the head of their queue; a Unicon call ends, if
\* only by its own timeout.  Nothing obliges a client to send or to leave, the
\* orchestrator to shut down, a session to die or wait_for to give up.
Fairness ==
    /\ \A t \in Tasks : WF_vars(TaskStep(t))
    /\ WF_vars(ShutdownStep)

FairSpec == Spec /\ Fairness
-----------------------------------------------------------------------------
(* Safety.                                                                  *)

OnDevice(t, h) == host[t] = h /\ pc[t] \in Calling

\* At most one Unicon call is in progress on a device that some request or
\* shutdown waits for: execute() calls never interleave on one PTY, and none
\* overlaps a connect or a disconnect (docstring of _execute_command).
OneCallPerDevice ==
    \A t, u \in Tasks : \A h \in Hosts :
        OnDevice(t, h) /\ OnDevice(u, h) => t = u

\* A task that runs a command, or tears a session down after one, does it on
\* the session the command was sent on: no stale caller closes a successor's
\* session (docstring of _execute_command, second hazard).  The device is also
\* registered, so the `del` of _disconnect_device_internal finds its key.
OwnSession ==
    \A t \in Tasks :
        /\ pc[t] \in {"executing", "healing", "failing"} =>
               used[t] = session[host[t]]
        /\ pc[t] \in {"executing", "healing", "failing", "disconnecting"} =>
               host[t] \in connected

\* What the broker would serve from its cache was produced by the session it
\* holds now, and a device without a session has nothing cached.  Only a
\* disconnect that shutdown gave up on leaves outputs behind.
CacheMatchesSession ==
    \A h \in Hosts : \A c \in Cmds :
        stray[h] = "none" =>
            cached[h][c] \in (IF h \in connected THEN {0, session[h]} ELSE {0})

\* The output a request is answered with was produced by the session the device
\* had when the request arrived, or by a later one: nothing cached before a
\* disconnect is served to a request that came after it.
AnswerNotOlderThanRequest ==
    \A t \in Tasks : answer[t] # 0 => answer[t] >= since[t]

\* Every permit of the semaphore is free or held by one task that is inside
\* device.connect(): no failure leaks one, and none is returned twice.
PermitsConserved ==
    permits + Cardinality({t \in Tasks : pc[t] = "connecting"}) = MaxConnections

\* A command whose output the device's cache already holds is not sent to the
\* device again, as long as the cache the request looked up is still the
\* device's cache.
NoRedundantExecution ==
    \A t \in Tasks :
        (pc[t] = "executing" /\ attached[t]) => cached[host[t]][cmd[t]] = 0

\* The docstring of _execute_command without the exception: identical commands
\* are only executed once across all test subprocesses.  Violated: after a heal
\* or a disconnect the waiters look into the object they looked up before.
ExecutedOnce ==
    \A t \in Tasks :
        pc[t] = "executing" => cached[host[t]][cmd[t]] = 0

\* A second try runs on a session opened after the one that failed: the retry
\* of _execute_command is never handed the dead session it reported.
RetryOnFreshSession ==
    [][\A t \in Tasks :
          (pc[t] # "executing" /\ pc'[t] = "executing" /\ attempt'[t] = 2) =>
              used'[t] > used[t]]_vars
-----------------------------------------------------------------------------
(* The broker implements DeviceSession: the call in progress on a device is  *)
(* the one the owner of its lock waits for.                                 *)

CallOf(label) ==
    CASE label = "connecting" -> "connect"
      [] label = "executing" -> "execute"
      [] label \in {"healing", "failing", "disconnecting"} -> "disconnect"
      [] OTHER -> "none"

JobOf(h) == IF owner[h] = NoTask THEN "none" ELSE CallOf(pc[owner[h]])

Device ==
    INSTANCE DeviceSession WITH
        job <- [h \in Hosts |-> JobOf(h)],
        open <- [h \in Hosts |-> h \in connected]

DeviceSpec == Device!Spec
-----------------------------------------------------------------------------
(* Liveness, under FairSpec.                                                *)

\* Every request is answered, or found to have lost its client: no lock, queue
\* or permit is lost to a failure, a departed client or shutdown.
RequestsEnd ==
    \A t \in Clients : pc[t] \notin AtRest ~> pc[t] \in AtRest

\* Shutdown ends, whatever the requests in progress do.
ShutdownEnds == phase = "closing" ~> phase = "stopped"
=============================================================================
