--------------------------- MODULE BrokerClient ---------------------------
(***************************************************************************)
(* nac_test/pyats_core/broker/broker_client.py: the client object through  *)
(* which all coroutines of a test subprocess talk to the connection        *)
(* broker over one Unix socket.                                            *)
(*                                                                         *)
(* connect() holds _connection_lock while it sends a ping through          *)
(* _send_request(), which takes _request_lock; _send_request() calls       *)
(* disconnect(), which takes _connection_lock, when a request fails.  A    *)
(* step is what a coroutine does between two awaits that can suspend it.   *)
(*                                                                         *)
(* Definitions whose comment begins with "Mutant" are faulty versions of   *)
(* the definition after them; no specification uses them.                  *)
(***************************************************************************)
EXTENDS Naturals, Sequences

CONSTANTS
    Callers,        \* the coroutines that share the client
    NoCaller,       \* the owner of a free lock
    Calls,          \* what they call: "request", "connect", "disconnect"
    CommandsFail,   \* may the broker answer a request with an error?
    BrokerStops,    \* may the broker close sockets?
    MaxCalls,       \* bound: calls of all coroutines together
    MaxSockets      \* bound: sockets opened

ASSUME CallersAssumption == NoCaller \notin Callers
ASSUME CallsAssumption == Calls \subseteq {"request", "connect", "disconnect"}
ASSUME BoundsAssumption == MaxCalls \in Nat /\ MaxSockets \in Nat

Sockets == 1 .. MaxSockets

VARIABLES
    connected,   \* self._connected
    sock,        \* the socket of self.reader and self.writer, 0 if None
    opened,      \* number of sockets opened so far
    local,       \* sockets the client has not closed
    remote,      \* sockets the broker has not closed
    wire,        \* wire[s]: requests on s that are not answered yet
    connLock,    \* self._connection_lock
    reqLock,     \* self._request_lock
    pc, call,
    pinging,     \* pinging[t]: the request is the ping inside connect()
    mine,        \* mine[t]: the socket the request was written to
    left         \* calls that may still be made

sockVars == <<connected, sock, opened, local, remote, wire>>
vars == <<sockVars, connLock, reqLock, pc, call, pinging, mine, left>>

Labels == {"idle", "connWait", "opening", "reqWait", "reading", "failWait",
           "failClosing", "closeWait", "closing"}

\* A free lock has no waiters.
Locks == {lock \in [owner : Callers \cup {NoCaller}, waiters : Seq(Callers)] :
              lock.owner = NoCaller => lock.waiters = <<>>}

TypeOK ==
    /\ connected \in BOOLEAN
    /\ sock \in 0 .. MaxSockets
    /\ opened \in 0 .. MaxSockets
    /\ local \subseteq Sockets
    /\ remote \subseteq Sockets
    /\ wire \in [Sockets -> Seq(Callers)]
    /\ connLock \in Locks /\ reqLock \in Locks
    /\ pc \in [Callers -> Labels]
    /\ call \in [Callers -> {"request", "connect", "disconnect"}]
    /\ pinging \in [Callers -> BOOLEAN]
    /\ mine \in [Callers -> 0 .. MaxSockets]
    /\ left \in 0 .. MaxCalls

Init ==
    /\ connected = FALSE /\ sock = 0 /\ opened = 0
    /\ local = {} /\ remote = {}
    /\ wire = [s \in Sockets |-> <<>>]
    /\ connLock = [owner |-> NoCaller, waiters |-> <<>>]
    /\ reqLock = [owner |-> NoCaller, waiters |-> <<>>]
    /\ pc = [t \in Callers |-> "idle"]
    /\ call = [t \in Callers |-> "request"]
    /\ pinging = [t \in Callers |-> FALSE]
    /\ mine = [t \in Callers |-> 0]
    /\ left = MaxCalls
-----------------------------------------------------------------------------
(* asyncio.Lock: first come, first served, and not reentrant.  A coroutine   *)
(* that waits for a lock it holds itself stands in the queue for good.      *)

Acquire(lock, t) ==
    IF lock.owner = NoCaller THEN [lock EXCEPT !.owner = t]
    ELSE [lock EXCEPT !.waiters = Append(@, t)]

\* Mutant: a release frees the lock and wakes nobody.
ReleaseWakesNobody(lock) == [lock EXCEPT !.owner = NoCaller]

Release(lock) ==
    IF lock.waiters = <<>> THEN [lock EXCEPT !.owner = NoCaller]
    ELSE [owner |-> Head(lock.waiters), waiters |-> Tail(lock.waiters)]

Granted(lock, t) ==
    lock.owner = t /\ \A i \in 1 .. Len(lock.waiters) : lock.waiters[i] # t

Goto(t, label) == pc' = [pc EXCEPT ![t] = label]

AskConnLock(t, label) ==
    connLock' = Acquire(connLock, t) /\ Goto(t, label)

\* The request lock is asked for, by a coroutine that holds it no more.
AskReqLock(t) == reqLock' = Acquire(reqLock, t) /\ Goto(t, "reqWait")

\* connect() has returned inside call[t], and the connection lock is free.
AfterConnect(t) ==
    IF call[t] = "request" THEN AskReqLock(t)
    ELSE Goto(t, "idle") /\ UNCHANGED reqLock

\* _teardown_connection
Teardown ==
    /\ local' = local \ {sock}
    /\ sock' = 0
    /\ connected' = FALSE
    /\ UNCHANGED <<opened, remote, wire>>
-----------------------------------------------------------------------------
(* Calls.                                                                   *)

\* execute_command, ensure_connection, ping and the like: one _send_request.
CallRequest(t) ==
    /\ pc[t] = "idle" /\ "request" \in Calls /\ left > 0
    /\ left' = left - 1
    /\ call' = [call EXCEPT ![t] = "request"]
    /\ IF connected THEN AskReqLock(t) /\ UNCHANGED connLock
       ELSE AskConnLock(t, "connWait") /\ UNCHANGED reqLock
    /\ UNCHANGED <<sockVars, pinging, mine>>

CallConnect(t) ==
    /\ pc[t] = "idle" /\ "connect" \in Calls /\ left > 0
    /\ left' = left - 1
    /\ call' = [call EXCEPT ![t] = "connect"]
    /\ AskConnLock(t, "connWait")
    /\ UNCHANGED <<sockVars, reqLock, pinging, mine>>

CallDisconnect(t) ==
    /\ pc[t] = "idle" /\ "disconnect" \in Calls /\ left > 0
    /\ left' = left - 1
    /\ call' = [call EXCEPT ![t] = "disconnect"]
    /\ AskConnLock(t, "closeWait")
    /\ UNCHANGED <<sockVars, reqLock, pinging, mine>>
-----------------------------------------------------------------------------
(* connect()                                                                *)

\* Somebody else connected while the coroutine waited for the lock.
AlreadyConnected(t) ==
    /\ pc[t] = "connWait" /\ Granted(connLock, t) /\ connected
    /\ connLock' = Release(connLock)
    /\ AfterConnect(t)
    /\ UNCHANGED <<sockVars, call, pinging, mine, left>>

\* Mutant: connect() does not look again once it has the lock.
StartOpeningBlindly(t) ==
    /\ pc[t] = "connWait" /\ Granted(connLock, t)
    /\ Goto(t, "opening")
    /\ UNCHANGED <<sockVars, connLock, reqLock, call, pinging, mine, left>>

StartOpening(t) ==
    /\ pc[t] = "connWait" /\ Granted(connLock, t) /\ ~connected
    /\ Goto(t, "opening")
    /\ UNCHANGED <<sockVars, connLock, reqLock, call, pinging, mine, left>>

\* The socket is open; the ping goes through _send_request with the
\* connection lock held.
Opened(t) ==
    /\ pc[t] = "opening" /\ opened < MaxSockets
    /\ opened' = opened + 1
    /\ sock' = opened + 1
    /\ local' = local \cup {opened + 1}
    /\ remote' = remote \cup {opened + 1}
    /\ connected' = TRUE
    /\ pinging' = [pinging EXCEPT ![t] = TRUE]
    /\ AskReqLock(t)
    /\ UNCHANGED <<wire, connLock, call, mine, left>>

\* No broker listens: connect() raises, in a request too.
OpenFailed(t) ==
    /\ pc[t] = "opening" /\ (BrokerStops \/ opened = MaxSockets)
    /\ Teardown
    /\ connLock' = Release(connLock)
    /\ Goto(t, "idle")
    /\ UNCHANGED <<reqLock, call, pinging, mine, left>>
-----------------------------------------------------------------------------
(* _send_request()                                                          *)

\* Mutant: no request lock.
WriteUnlocked(t) ==
    /\ pc[t] = "reqWait" /\ sock # 0
    /\ wire' = [wire EXCEPT ![sock] = Append(@, t)]
    /\ mine' = [mine EXCEPT ![t] = sock]
    /\ Goto(t, "reading")
    /\ UNCHANGED <<connected, sock, opened, local, remote, connLock, reqLock,
                   call, pinging, left>>

\* The frame is written to whatever socket the client has by now.
Write(t) ==
    /\ pc[t] = "reqWait" /\ Granted(reqLock, t) /\ sock # 0
    /\ wire' = [wire EXCEPT ![sock] = Append(@, t)]
    /\ mine' = [mine EXCEPT ![t] = sock]
    /\ Goto(t, "reading")
    /\ UNCHANGED <<connected, sock, opened, local, remote, connLock, reqLock,
                   call, pinging, left>>

\* "Writer must be connected": the socket went away during the wait.
NoWriter(t) ==
    /\ pc[t] = "reqWait" /\ Granted(reqLock, t) /\ sock = 0
    /\ AskConnLock(t, "failWait")
    /\ UNCHANGED <<sockVars, reqLock, call, pinging, mine, left>>

\* The broker answers the oldest request on a socket.
Readable(t) ==
    /\ pc[t] = "reading"
    /\ mine[t] \in local \cap remote /\ wire[mine[t]] # <<>>

ReadResponse(t) ==
    /\ Readable(t)
    /\ wire' = [wire EXCEPT ![mine[t]] = Tail(@)]
    /\ IF pinging[t]
       THEN /\ connLock' = Release(connLock)
            /\ IF call[t] = "request"
               THEN /\ reqLock' = Acquire(Release(reqLock), t)
                    /\ Goto(t, "reqWait")
               ELSE /\ reqLock' = Release(reqLock)
                    /\ Goto(t, "idle")
       ELSE /\ reqLock' = Release(reqLock)
            /\ Goto(t, "idle")
            /\ UNCHANGED connLock
    /\ pinging' = [pinging EXCEPT ![t] = FALSE]
    /\ mine' = [mine EXCEPT ![t] = 0]
    /\ UNCHANGED <<connected, sock, opened, local, remote, call, left>>

\* status = "error", which a ping never gets: the client drops the socket.
ReadError(t) ==
    /\ Readable(t) /\ CommandsFail /\ ~pinging[t]
    /\ wire' = [wire EXCEPT ![mine[t]] = Tail(@)]
    /\ AskConnLock(t, "failWait")
    /\ UNCHANGED <<connected, sock, opened, local, remote, reqLock, call,
                   pinging, mine, left>>

\* The socket was closed by the broker, or by disconnect() in this process.
ReadBroken(t) ==
    /\ pc[t] = "reading" /\ mine[t] \notin local \cap remote
    /\ AskConnLock(t, "failWait")
    /\ UNCHANGED <<sockVars, reqLock, call, pinging, mine, left>>

\* disconnect() on the error path of a request, which still holds the request
\* lock.
FailTeardown(t) ==
    /\ pc[t] = "failWait" /\ Granted(connLock, t)
    /\ Teardown
    /\ Goto(t, "failClosing")
    /\ UNCHANGED <<connLock, reqLock, call, pinging, mine, left>>

Fail(t) ==
    /\ pc[t] = "failClosing"
    /\ connLock' = Release(connLock)
    /\ reqLock' = Release(reqLock)
    /\ mine' = [mine EXCEPT ![t] = 0]
    /\ Goto(t, "idle")
    /\ UNCHANGED <<sockVars, call, pinging, left>>
-----------------------------------------------------------------------------
(* disconnect() called by a test                                            *)

CloseTeardown(t) ==
    /\ pc[t] = "closeWait" /\ Granted(connLock, t)
    /\ Teardown
    /\ Goto(t, "closing")
    /\ UNCHANGED <<connLock, reqLock, call, pinging, mine, left>>

Closed(t) ==
    /\ pc[t] = "closing"
    /\ connLock' = Release(connLock)
    /\ Goto(t, "idle")
    /\ UNCHANGED <<sockVars, reqLock, call, pinging, mine, left>>

\* The broker closes a socket: its handler ended or it shuts down.
BrokerCloses(s) ==
    /\ BrokerStops /\ s \in remote
    /\ remote' = remote \ {s}
    /\ UNCHANGED <<connected, sock, opened, local, wire, connLock, reqLock, pc,
                   call, pinging, mine, left>>
-----------------------------------------------------------------------------
CallerStep(t) ==
    \/ AlreadyConnected(t) \/ StartOpening(t) \/ Opened(t) \/ OpenFailed(t)
    \/ Write(t) \/ NoWriter(t) \/ ReadResponse(t) \/ ReadError(t)
    \/ ReadBroken(t) \/ FailTeardown(t) \/ Fail(t)
    \/ CloseTeardown(t) \/ Closed(t)

NewCall(t) == CallRequest(t) \/ CallConnect(t) \/ CallDisconnect(t)

Next ==
    \/ \E t \in Callers : CallerStep(t) \/ NewCall(t)
    \/ \E s \in Sockets : BrokerCloses(s)

Spec == Init /\ [][Next]_vars

\* The event loop runs every coroutine that can go on, a socket is opened or
\* refused, and the broker answers every request (RequestsEnd of
\* ConnectionBroker) unless it closes the socket.
FairSpec == Spec /\ \A t \in Callers : WF_vars(CallerStep(t))
-----------------------------------------------------------------------------
\* Frames do not interleave (docstring of _send_request): on a socket open at
\* both ends, a coroutine that waits for its response has the only request
\* there, and no request is left behind for a later reader to take the answer of.
FramesPaired ==
    /\ \A t \in Callers :
           (pc[t] = "reading" /\ mine[t] \in local \cap remote) =>
               wire[mine[t]] = <<t>>
    /\ \A s \in local \cap remote :
           wire[s] # <<>> =>
               \E t \in Callers : pc[t] = "reading" /\ mine[t] = s

\* Concurrent calls share one socket: whatever the order of connects, failures
\* and disconnects, no socket but the current one stays open.
NoSocketLeak == local \subseteq {sock}

\* Every call of the client returns or raises.
CallsReturn == \A t \in Callers : pc[t] # "idle" ~> pc[t] = "idle"

\* A request that failed holds the request lock and asks for the connection
\* lock, whose holder, itself or another coroutine, is in connect() and needs
\* the request lock for its ping.
LockCycle ==
    \E t, u \in Callers :
        /\ pc[t] = "failWait" /\ reqLock.owner = t
        /\ connLock.owner = u /\ pinging[u]

\* That cycle is the only thing that can keep a call of connect(),
\* disconnect() or _send_request() from returning: whatever the broker answers
\* or closes and however the calls interleave, no wakeup is lost, no lock is
\* kept and no response is waited for in vain.
CallsReturnUnlessLocked == []~LockCycle => CallsReturn
=============================================================================
