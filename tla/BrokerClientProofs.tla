------------------------- MODULE BrokerClientProofs -------------------------
(***************************************************************************)
(* Safety of BrokerClient for any callers and bounds.                      *)
(***************************************************************************)
EXTENDS BrokerClient, SequenceTheorems, TLAPS

Waits(lock, t) == \E i \in 1 .. Len(lock.waiters) : lock.waiters[i] = t

\* A coroutine that has written, or is on the error path, owns the request lock;
\* one that opens or closes a socket, or pings, the connection lock.  Only owners
\* release, so nothing has to be known of the queues, with one exception: whoever
\* asks for a lock it owns stays in the queue, and never gets it.
LockInv ==
    \A t \in Callers :
        /\ pc[t] \in {"reading", "failWait", "failClosing"} => reqLock.owner = t
        /\ pc[t] \in {"opening", "failClosing", "closing"} \/ pinging[t] => connLock.owner = t
        /\ pinging[t] => pc[t] \in {"reqWait", "reading", "failWait"}
        /\ pinging[t] /\ pc[t] = "failWait" => Waits(connLock, t)

\* Nobody opens a socket while the client has one.
SocketInv ==
    /\ NoSocketLeak
    /\ ~connected => local = {}
    /\ \A t \in Callers : pc[t] = "opening" => ~connected

\* A socket that is still to be opened has no trace.
FreshInv ==
    /\ sock <= opened
    /\ \A s \in Sockets : s > opened => wire[s] = <<>> /\ s \notin local /\ s \notin remote
    /\ \A t \in Callers : mine[t] <= opened

IInv == TypeOK /\ LockInv /\ SocketInv /\ FreshInv /\ FramesPaired

-----------------------------------------------------------------------------
(* Locks.                                                                   *)

\* A caller that asks for a lock gets it if it was free, and stands in its queue
\* otherwise.
LEMMA AcquireLock ==
    ASSUME NEW lock \in Locks, NEW t \in Callers
    PROVE  /\ Acquire(lock, t) \in Locks
           /\ lock.owner = NoCaller => Acquire(lock, t).owner = t
           /\ lock.owner # NoCaller =>
                 /\ Acquire(lock, t).owner = lock.owner
                 /\ Waits(Acquire(lock, t), t)
                 /\ \A u \in Callers : Waits(lock, u) => Waits(Acquire(lock, t), u)
<1>1. CASE lock.owner = NoCaller
  BY <1>1, CallersAssumption DEF Acquire, Locks
<1>2. CASE lock.owner # NoCaller
  <2> DEFINE w == Append(lock.waiters, t)
  <2>1. lock.waiters \in Seq(Callers)
    BY DEF Locks
  <2>2. /\ w \in Seq(Callers) /\ Len(w) = Len(lock.waiters) + 1 /\ w[Len(w)] = t
        /\ \A i \in 1 .. Len(lock.waiters) : w[i] = lock.waiters[i]
        /\ Len(lock.waiters) \in Nat
    BY <2>1, AppendProperties, LenProperties
  <2>3. Acquire(lock, t) = [lock EXCEPT !.waiters = w]
    BY <1>2 DEF Acquire
  <2>4. Acquire(lock, t).owner = lock.owner /\ Acquire(lock, t).waiters = w
    BY <2>3 DEF Locks
  <2> HIDE DEF w
  <2>5. Acquire(lock, t) \in Locks
    BY <1>2, <2>2, <2>3 DEF Locks
  <2>6. Len(w) \in 1 .. Len(w) /\ 1 .. Len(lock.waiters) \subseteq 1 .. Len(w)
    BY <2>2
  <2>7. QED BY <1>2, <2>2, <2>4, <2>5, <2>6 DEF Waits
<1>3. QED BY <1>1, <1>2

\* A released lock is a lock.
LEMMA ReleaseLock ==
    ASSUME NEW lock \in Locks
    PROVE  Release(lock) \in Locks
<1>1. lock.waiters \in Seq(Callers)
  BY DEF Locks
<1>2. CASE lock.waiters = <<>>
  BY <1>2 DEF Release, Locks
<1>3. CASE lock.waiters # <<>>
  <2>1. Head(lock.waiters) \in Callers /\ Tail(lock.waiters) \in Seq(Callers)
    BY <1>1, <1>3, HeadTailProperties
  <2>2. QED BY <1>3, <2>1, CallersAssumption DEF Release, Locks
<1>4. QED BY <1>2, <1>3
-----------------------------------------------------------------------------
\* The invariant holds of a client without connection.
LEMMA InitInv == Init => IInv
<1> SUFFICES ASSUME Init PROVE IInv
  OBVIOUS
<1>1. [owner |-> NoCaller, waiters |-> <<>>] \in Locks
  BY EmptySeq DEF Locks
<1>2. TypeOK
  <2>1. 0 \in 0 .. MaxSockets /\ MaxCalls \in 0 .. MaxCalls
    BY BoundsAssumption
  <2>2. wire \in [Sockets -> Seq(Callers)]
    BY EmptySeq DEF Init
  <2>3. QED BY <1>1, <2>1, <2>2 DEF Init, TypeOK, Labels
<1>3. LockInv
  BY DEF Init, LockInv
<1>4. SocketInv /\ FreshInv /\ FramesPaired
  BY DEF Init, SocketInv, FreshInv, FramesPaired, NoSocketLeak
<1>5. QED BY <1>2, <1>3, <1>4 DEF IInv

\* Every step keeps the client and its sockets well-typed.
LEMMA TypeStep ==
    ASSUME IInv, Next
    PROVE  TypeOK'
<1>0. TypeOK
  BY DEF IInv
<1>a. \A t \in Callers : /\ Acquire(connLock, t) \in Locks /\ Acquire(reqLock, t) \in Locks
                         /\ Acquire(Release(reqLock), t) \in Locks
  BY <1>0, AcquireLock, ReleaseLock DEF TypeOK
<1>b. Release(connLock) \in Locks /\ Release(reqLock) \in Locks
  BY <1>0, ReleaseLock DEF TypeOK
<1>c. 0 \in 0 .. MaxSockets
  BY BoundsAssumption
<1> USE <1>0, <1>a, <1>b, <1>c DEF TypeOK, Goto, AskConnLock, AskReqLock, AfterConnect, Labels, sockVars
<1>1. ASSUME NEW t \in Callers, NewCall(t)
      PROVE  TypeOK'
  <2>1. left' \in 0 .. MaxCalls
    BY <1>1, BoundsAssumption DEF NewCall, CallRequest, CallConnect, CallDisconnect
  <2>2. QED BY <1>1, <2>1 DEF NewCall, CallRequest, CallConnect, CallDisconnect
<1>2. ASSUME NEW t \in Callers, AlreadyConnected(t) \/ StartOpening(t)
      PROVE  TypeOK'
  BY <1>2 DEF AlreadyConnected, StartOpening
<1>3. ASSUME NEW t \in Callers, Opened(t)
      PROVE  TypeOK'
  <2>1. opened + 1 \in Sockets /\ opened + 1 \in 0 .. MaxSockets
    BY <1>3, BoundsAssumption DEF Opened, Sockets
  <2>2. QED BY <1>3, <2>1 DEF Opened
<1>4. ASSUME NEW t \in Callers, OpenFailed(t) \/ FailTeardown(t) \/ CloseTeardown(t)
      PROVE  TypeOK'
  BY <1>4 DEF OpenFailed, FailTeardown, CloseTeardown, Teardown
<1>5. ASSUME NEW t \in Callers, Write(t)
      PROVE  TypeOK'
  <2>1. sock \in Sockets
    BY <1>5, BoundsAssumption DEF Write, Sockets
  <2>2. Append(wire[sock], t) \in Seq(Callers)
    BY <2>1, AppendProperties
  <2>3. QED BY <1>5, <2>1, <2>2 DEF Write
<1>6. ASSUME NEW t \in Callers, NoWriter(t) \/ ReadBroken(t) \/ Fail(t) \/ Closed(t)
      PROVE  TypeOK'
  BY <1>6 DEF NoWriter, ReadBroken, Fail, Closed
<1>7. ASSUME NEW t \in Callers, ReadResponse(t) \/ ReadError(t)
      PROVE  TypeOK'
  <2>1. wire[mine[t]] \in Seq(Callers) /\ wire[mine[t]] # <<>>
    BY <1>7 DEF ReadResponse, ReadError, Readable
  <2>2. Tail(wire[mine[t]]) \in Seq(Callers)
    BY <2>1, HeadTailProperties
  <2>3. wire' \in [Sockets -> Seq(Callers)]
    BY <1>7, <2>2 DEF ReadResponse, ReadError
  <2>4. mine' \in [Callers -> 0 .. MaxSockets]
    BY <1>7 DEF ReadResponse, ReadError
  <2>a. pinging' \in [Callers -> BOOLEAN]
    <3>1. pinging' = [pinging EXCEPT ![t] = FALSE] \/ pinging' = pinging
      BY <1>7 DEF ReadResponse, ReadError
    <3>2. QED BY <3>1
  <2>5. connLock' \in Locks /\ reqLock' \in Locks /\ pc' \in [Callers -> Labels]
    BY <1>7 DEF ReadResponse, ReadError
  <2>6. QED BY <1>7, <2>3, <2>4, <2>a, <2>5 DEF ReadResponse, ReadError
<1>8. ASSUME NEW s \in Sockets, BrokerCloses(s)
      PROVE  TypeOK'
  BY <1>8 DEF BrokerCloses
<1>9. QED
  BY <1>1, <1>2, <1>3, <1>4, <1>5, <1>6, <1>7, <1>8 DEF Next, CallerStep

\* What coroutine t does to a lock leaves the others what they own of it, and
\* their places in its queue.
Undisturbed(lock, next, t) ==
    \A u \in Callers \ {t} :
        lock.owner = u => next.owner = u /\ (Waits(lock, u) => Waits(next, u))

\* Whoever asks for a lock, or owns it, disturbs nobody.
LEMMA Undisturbing ==
    ASSUME NEW lock \in Locks, NEW t \in Callers
    PROVE  /\ Undisturbed(lock, lock, t)
           /\ Undisturbed(lock, Acquire(lock, t), t)
           /\ lock.owner = t => \A next : Undisturbed(lock, next, t)
<1>1. \A u \in Callers : lock.owner = u => lock.owner # NoCaller
  BY CallersAssumption
<1>2. Undisturbed(lock, Acquire(lock, t), t)
  BY <1>1, AcquireLock DEF Undisturbed
<1>3. QED BY <1>2 DEF Undisturbed

\* A step of one coroutine keeps the lock invariant if it disturbs nobody and
\* the coroutine owns what its new state needs.
LEMMA LockKept ==
    ASSUME TypeOK, LockInv, NEW t \in Callers, NEW label \in Labels, Goto(t, label),
           \A u \in Callers \ {t} : pinging'[u] = pinging[u],
           Undisturbed(reqLock, reqLock', t), Undisturbed(connLock, connLock', t),
           label \in {"reading", "failWait", "failClosing"} => reqLock'.owner = t,
           label \in {"opening", "failClosing", "closing"} \/ pinging'[t] => connLock'.owner = t,
           pinging'[t] => label \in {"reqWait", "reading", "failWait"},
           pinging'[t] /\ label = "failWait" => Waits(connLock', t)
    PROVE  LockInv'
<1>1. pc'[t] = label /\ \A u \in Callers \ {t} : pc'[u] = pc[u]
  BY DEF TypeOK, Goto
<1>2. ASSUME NEW u \in Callers \ {t}
      PROVE  /\ pc'[u] \in {"reading", "failWait", "failClosing"} => reqLock'.owner = u
             /\ pc'[u] \in {"opening", "failClosing", "closing"} \/ pinging'[u]
                    => connLock'.owner = u
             /\ pinging'[u] => pc'[u] \in {"reqWait", "reading", "failWait"}
             /\ pinging'[u] /\ pc'[u] = "failWait" => Waits(connLock', u)
  <2>1. pc'[u] = pc[u] /\ pinging'[u] = pinging[u]
    BY <1>1
  <2>2. pc[u] \in {"reading", "failWait", "failClosing"} => reqLock.owner = u
    BY DEF LockInv
  <2>3. /\ pc[u] \in {"opening", "failClosing", "closing"} \/ pinging[u] => connLock.owner = u
        /\ pinging[u] => pc[u] \in {"reqWait", "reading", "failWait"}
        /\ pinging[u] /\ pc[u] = "failWait" => Waits(connLock, u)
    BY DEF LockInv
  <2>4. reqLock.owner = u => reqLock'.owner = u
    BY DEF Undisturbed
  <2>5. connLock.owner = u => connLock'.owner = u /\ (Waits(connLock, u) => Waits(connLock', u))
    BY DEF Undisturbed
  <2>6. QED BY <2>1, <2>2, <2>3, <2>4, <2>5
<1>3. /\ pc'[t] \in {"reading", "failWait", "failClosing"} => reqLock'.owner = t
      /\ pc'[t] \in {"opening", "failClosing", "closing"} \/ pinging'[t]
             => connLock'.owner = t
      /\ pinging'[t] => pc'[t] \in {"reqWait", "reading", "failWait"}
      /\ pinging'[t] /\ pc'[t] = "failWait" => Waits(connLock', t)
  BY <1>1
<1>4. \A u \in Callers : Waits(connLock, u)' <=> Waits(connLock', u)
  BY DEF Waits
<1>5. QED BY <1>2, <1>3, <1>4 DEF LockInv

\* Only the owner of a lock releases it, and only its owner asks for it in vain.
LEMMA LockStep ==
    ASSUME IInv, Next
    PROVE  LockInv'
<1>0. TypeOK /\ LockInv
  BY DEF IInv
<1>1. connLock \in Locks /\ reqLock \in Locks
  BY <1>0 DEF TypeOK
<1>2. \A t \in Callers : /\ Granted(connLock, t) => connLock.owner = t /\ ~Waits(connLock, t)
                         /\ Granted(reqLock, t) => reqLock.owner = t
  BY DEF Granted, Waits
<1>3. \A t \in Callers :
         /\ pc[t] \in {"reading", "failWait", "failClosing"} => reqLock.owner = t
         /\ pc[t] \in {"opening", "failClosing", "closing"} \/ pinging[t] => connLock.owner = t
         /\ pinging[t] => pc[t] \in {"reqWait", "reading", "failWait"}
         /\ pinging[t] /\ pc[t] = "failWait" => Waits(connLock, t)
  BY <1>0 DEF LockInv
\* A step that asks for the connection lock.
<1>4. ASSUME NEW t \in Callers, NEW label \in {"connWait", "closeWait", "failWait"},
             AskConnLock(t, label), UNCHANGED <<reqLock, pinging>>,
             label = "failWait" => reqLock.owner = t,
             label # "failWait" => pc[t] = "idle",
             pinging[t] => connLock.owner = t
      PROVE  LockInv'
  <2>1. /\ Goto(t, label) /\ label \in Labels /\ pinging' = pinging
        /\ connLock' = Acquire(connLock, t) /\ reqLock' = reqLock
    BY <1>4 DEF AskConnLock, Labels
  <2>2. Undisturbed(reqLock, reqLock', t) /\ Undisturbed(connLock, connLock', t)
    BY <1>1, <2>1, Undisturbing
  <2>3. pinging[t] => label = "failWait"
    BY <1>3, <1>4
  <2>4. pinging[t] => connLock'.owner = t /\ Waits(connLock', t)
    BY <1>1, <1>4, <2>1, AcquireLock, CallersAssumption
  <2>5. QED BY <1>0, <1>4, <2>1, <2>2, <2>3, <2>4, LockKept
\* A step that asks for the request lock, or ends the call, with the connection
\* lock its own, released or not asked for.
<1>5. ASSUME NEW t \in Callers, NEW label \in {"reqWait", "idle"}, Goto(t, label),
             \A u \in Callers \ {t} : pinging'[u] = pinging[u],
             reqLock.owner = t \/ reqLock' \in {reqLock, Acquire(reqLock, t)},
             connLock.owner = t \/ connLock' = connLock,
             pinging'[t] => label = "reqWait" /\ connLock'.owner = t
      PROVE  LockInv'
  <2>1. Undisturbed(reqLock, reqLock', t) /\ Undisturbed(connLock, connLock', t)
    BY <1>1, <1>5, Undisturbing
  <2>2. label \in Labels
    BY <1>5 DEF Labels
  <2>3. QED BY <1>0, <1>5, <2>1, <2>2, LockKept
\* A step that goes on with the locks it has.
<1>6. ASSUME NEW t \in Callers, NEW label \in {"opening", "closing", "reading", "failClosing"},
             Goto(t, label), UNCHANGED <<connLock, reqLock, pinging>>,
             label \in {"reading", "failClosing"} => reqLock.owner = t,
             label # "reading" => connLock.owner = t,
             pinging[t] => label = "reading"
      PROVE  LockInv'
  <2>1. Undisturbed(reqLock, reqLock', t) /\ Undisturbed(connLock, connLock', t)
    BY <1>1, <1>6, Undisturbing
  <2>2. label \in Labels /\ (pinging[t] => connLock.owner = t)
    BY <1>3, <1>6 DEF Labels
  <2>3. QED BY <1>0, <1>6, <2>1, <2>2, LockKept
<1>7. ASSUME NEW t \in Callers, NewCall(t)
      PROVE  LockInv'
  <2>1. pc[t] = "idle" /\ ~pinging[t] /\ UNCHANGED pinging
    BY <1>3, <1>7 DEF NewCall, CallRequest, CallConnect, CallDisconnect
  <2>2. \/ AskReqLock(t) /\ UNCHANGED connLock
        \/ \E label \in {"connWait", "closeWait"} : AskConnLock(t, label) /\ UNCHANGED reqLock
    BY <1>7 DEF NewCall, CallRequest, CallConnect, CallDisconnect
  <2>3. CASE AskReqLock(t) /\ UNCHANGED connLock
    BY <1>5, <2>1, <2>3 DEF AskReqLock
  <2>4. ASSUME NEW label \in {"connWait", "closeWait"}, AskConnLock(t, label), UNCHANGED reqLock
        PROVE  LockInv'
    BY <1>4, <2>1, <2>4
  <2>5. QED BY <2>2, <2>3, <2>4
<1>8. ASSUME NEW t \in Callers, AlreadyConnected(t)
      PROVE  LockInv'
  <2>1. /\ connLock.owner = t /\ ~pinging[t] /\ pinging' = pinging
        /\ AfterConnect(t)
    BY <1>2, <1>3, <1>8 DEF AlreadyConnected
  <2>2. \E label \in {"reqWait", "idle"} :
            Goto(t, label) /\ reqLock' \in {reqLock, Acquire(reqLock, t)}
    BY <2>1 DEF AfterConnect, AskReqLock
  <2>3. QED BY <1>5, <2>1, <2>2
<1>9. ASSUME NEW t \in Callers, Opened(t)
      PROVE  LockInv'
  <2>1. /\ connLock.owner = t /\ connLock' = connLock
        /\ pinging' = [pinging EXCEPT ![t] = TRUE]
        /\ Goto(t, "reqWait") /\ reqLock' = Acquire(reqLock, t)
    BY <1>3, <1>9 DEF Opened, AskReqLock
  <2>2. \A u \in Callers \ {t} : pinging'[u] = pinging[u]
    BY <1>0, <2>1 DEF TypeOK
  <2>3. QED BY <1>5, <2>1, <2>2
<1>10. ASSUME NEW t \in Callers, OpenFailed(t) \/ Closed(t)
       PROVE  LockInv'
  <2>1. /\ connLock.owner = t /\ ~pinging[t] /\ pinging' = pinging
        /\ Goto(t, "idle") /\ reqLock' = reqLock
    BY <1>3, <1>10 DEF OpenFailed, Closed
  <2>2. QED BY <1>5, <2>1
<1>11. ASSUME NEW t \in Callers, StartOpening(t) \/ CloseTeardown(t) \/ Write(t) \/ FailTeardown(t)
       PROVE  LockInv'
  <2>1. CASE StartOpening(t) \/ CloseTeardown(t)
    <3>1. /\ connLock.owner = t /\ ~pinging[t] /\ UNCHANGED <<connLock, reqLock, pinging>>
          /\ Goto(t, "opening") \/ Goto(t, "closing")
      BY <1>2, <1>3, <2>1 DEF StartOpening, CloseTeardown
    <3>2. QED BY <1>6, <3>1
  <2>2. CASE Write(t)
    <3>1. /\ reqLock.owner = t /\ Goto(t, "reading") /\ UNCHANGED <<connLock, reqLock, pinging>>
      BY <1>2, <2>2 DEF Write
    <3>2. QED BY <1>6, <3>1
  <2>3. CASE FailTeardown(t)
    <3>1. /\ connLock.owner = t /\ reqLock.owner = t /\ ~pinging[t]
          /\ Goto(t, "failClosing") /\ UNCHANGED <<connLock, reqLock, pinging>>
      BY <1>2, <1>3, <2>3 DEF FailTeardown
    <3>2. QED BY <1>6, <3>1
  <2>4. QED BY <1>11, <2>1, <2>2, <2>3
<1>12. ASSUME NEW t \in Callers, NoWriter(t) \/ ReadError(t) \/ ReadBroken(t)
       PROVE  LockInv'
  <2>1. AskConnLock(t, "failWait") /\ reqLock.owner = t /\ UNCHANGED <<reqLock, pinging>>
    BY <1>2, <1>3, <1>12 DEF NoWriter, ReadError, ReadBroken, Readable
  <2>2. QED BY <1>3, <1>4, <2>1
<1>13. ASSUME NEW t \in Callers, ReadResponse(t)
       PROVE  LockInv'
  <2>1. /\ reqLock.owner = t
        /\ connLock.owner = t \/ connLock' = connLock
        /\ \E label \in {"reqWait", "idle"} : Goto(t, label)
    BY <1>3, <1>13 DEF ReadResponse, Readable
  <2>2. ~pinging'[t] /\ \A u \in Callers \ {t} : pinging'[u] = pinging[u]
    <3>1. pinging' = [pinging EXCEPT ![t] = FALSE]
      BY <1>13 DEF ReadResponse
    <3>2. QED BY <1>0, <3>1 DEF TypeOK
  <2>3. QED BY <1>5, <2>1, <2>2
<1>14. ASSUME NEW t \in Callers, Fail(t)
       PROVE  LockInv'
  <2>1. /\ reqLock.owner = t /\ connLock.owner = t /\ ~pinging[t] /\ pinging' = pinging
        /\ Goto(t, "idle")
    BY <1>3, <1>14 DEF Fail
  <2>2. QED BY <1>5, <2>1
<1>15. ASSUME NEW s \in Sockets, BrokerCloses(s)
       PROVE  LockInv'
  <2>1. UNCHANGED <<pc, pinging, connLock, reqLock>>
    BY <1>15 DEF BrokerCloses
  <2>2. QED BY <1>0, <2>1 DEF LockInv, Waits
<1>16. QED
  BY <1>7, <1>8, <1>9, <1>10, <1>11, <1>12, <1>13, <1>14, <1>15 DEF Next, CallerStep

\* Every step leaves no socket open but the current one, and none to be opened used.
LEMMA SocketStep ==
    ASSUME IInv, Next
    PROVE  SocketInv' /\ FreshInv'
<1>0. TypeOK /\ LockInv /\ SocketInv /\ FreshInv
  BY DEF IInv
<1> USE <1>0, CallersAssumption, BoundsAssumption
    DEF TypeOK, LockInv, SocketInv, NoSocketLeak, FreshInv, Goto, AskConnLock, AskReqLock, sockVars, Sockets
<1>1. ASSUME NEW t \in Callers, NewCall(t)
      PROVE  SocketInv' /\ FreshInv'
  <2>1. UNCHANGED <<connected, sock, opened, local, remote, wire, mine>>
    BY <1>1 DEF NewCall, CallRequest, CallConnect, CallDisconnect
  <2>2. \A u \in Callers : pc'[u] = "opening" => pc[u] = "opening"
    BY <1>1 DEF NewCall, CallRequest, CallConnect, CallDisconnect
  <2>3. QED BY <2>1, <2>2
<1>2. ASSUME NEW t \in Callers, AlreadyConnected(t)
      PROVE  SocketInv' /\ FreshInv'
  BY <1>2 DEF AlreadyConnected, AfterConnect
<1>3. ASSUME NEW t \in Callers, StartOpening(t)
      PROVE  SocketInv' /\ FreshInv'
  BY <1>3 DEF StartOpening
<1>4. ASSUME NEW t \in Callers, Opened(t)
      PROVE  SocketInv' /\ FreshInv'
  <2>1. local = {} /\ \A u \in Callers \ {t} : pc[u] # "opening"
    BY <1>4 DEF Opened
  <2>2. QED BY <1>4, <2>1 DEF Opened
<1>5. ASSUME NEW t \in Callers, OpenFailed(t) \/ FailTeardown(t) \/ CloseTeardown(t)
      PROVE  SocketInv' /\ FreshInv'
  <2>1. Teardown /\ mine' = mine
    BY <1>5 DEF OpenFailed, FailTeardown, CloseTeardown
  <2>2. local' = {} /\ sock' = 0 /\ connected' = FALSE
    BY <2>1 DEF Teardown
  <2>3. opened' = opened /\ remote' = remote /\ wire' = wire
    BY <2>1 DEF Teardown
  <2>4. SocketInv'
    BY <2>2
  <2>5. FreshInv'
    BY <2>1, <2>2, <2>3
  <2>6. QED BY <2>4, <2>5
<1>6. ASSUME NEW t \in Callers, Write(t)
      PROVE  SocketInv' /\ FreshInv'
  <2>1. /\ UNCHANGED <<connected, sock, opened, local, remote>> /\ mine' = [mine EXCEPT ![t] = sock]
        /\ pc' = [pc EXCEPT ![t] = "reading"]
        /\ wire' = [wire EXCEPT ![sock] = Append(@, t)]
    BY <1>6 DEF Write
  <2>2. \A s \in Sockets : s > opened => wire'[s] = wire[s]
    BY <2>1
  <2>3. SocketInv'
    BY <2>1
  <2>4. FreshInv'
    BY <2>1, <2>2
  <2>5. QED BY <2>3, <2>4
<1>7. ASSUME NEW t \in Callers, NoWriter(t) \/ ReadBroken(t) \/ Fail(t) \/ Closed(t)
      PROVE  SocketInv' /\ FreshInv'
  <2>1. /\ UNCHANGED <<connected, sock, opened, local, remote, wire>>
        /\ mine' = mine \/ mine' = [mine EXCEPT ![t] = 0]
    BY <1>7 DEF NoWriter, ReadBroken, Fail, Closed
  <2>2. \A u \in Callers : pc'[u] = "opening" => pc[u] = "opening"
    BY <1>7 DEF NoWriter, ReadBroken, Fail, Closed
  <2>3. SocketInv'
    BY <2>1, <2>2
  <2>4. \A u \in Callers : mine'[u] <= opened
    <3>1. mine' = mine => \A u \in Callers : mine'[u] <= opened
      OBVIOUS
    <3>2. mine' = [mine EXCEPT ![t] = 0] => \A u \in Callers : mine'[u] <= opened
      OBVIOUS
    <3>3. QED BY <2>1, <3>1, <3>2
  <2>5. FreshInv'
    BY <2>1, <2>4
  <2>6. QED BY <2>3, <2>5
<1>8. ASSUME NEW t \in Callers, ReadResponse(t)
      PROVE  SocketInv' /\ FreshInv'
  <2>1. mine' = [mine EXCEPT ![t] = 0] /\ pc'[t] # "opening"
    BY <1>8 DEF ReadResponse
  <2>2. \A s \in Sockets : s > opened => wire'[s] = wire[s]
    BY <1>8 DEF ReadResponse, Readable
  <2>3. \A u \in Callers \ {t} : pc'[u] = pc[u]
    BY <1>8 DEF ReadResponse
  <2>4. QED BY <1>8, <2>1, <2>2, <2>3 DEF ReadResponse
<1>9. ASSUME NEW t \in Callers, ReadError(t)
      PROVE  SocketInv' /\ FreshInv'
  BY <1>9 DEF ReadError, Readable
<1>10. ASSUME NEW s \in Sockets, BrokerCloses(s)
      PROVE  SocketInv' /\ FreshInv'
  BY <1>10 DEF BrokerCloses
<1>11. QED
  BY <1>1, <1>2, <1>3, <1>4, <1>5, <1>6, <1>7, <1>8, <1>9, <1>10 DEF Next, CallerStep

\* A step that writes and reads nothing keeps the frames paired if the readers
\* stay, or the one that goes has no open socket.
LEMMA FrameFrame ==
    ASSUME IInv, wire' = wire, local' \subseteq local, remote' \subseteq remote, mine' = mine,
           \A t \in Callers : pc'[t] = "reading" => pc[t] = "reading",
           \A t \in Callers : pc[t] = "reading" /\ mine[t] \in local \cap remote
                                  => pc'[t] = "reading"
    PROVE  FramesPaired'
BY DEF IInv, FramesPaired

\* Every step keeps the responses with the coroutines that wait for them.
LEMMA FrameStep ==
    ASSUME IInv, Next
    PROVE  FramesPaired'
<1>0. TypeOK /\ LockInv /\ SocketInv /\ FreshInv /\ FramesPaired
  BY DEF IInv
<1>a. \A t, u \in Callers : pc[t] = "reading" /\ reqLock.owner = u => t = u
  BY <1>0 DEF LockInv
<1>1. ASSUME NEW t \in Callers, NewCall(t) \/ AlreadyConnected(t) \/ StartOpening(t)
      PROVE  FramesPaired'
  <2>1. \A u \in Callers : pc'[u] # pc[u] => pc[u] # "reading" /\ pc'[u] # "reading"
    BY <1>0, <1>1 DEF NewCall, CallRequest, CallConnect, CallDisconnect, AlreadyConnected,
       StartOpening, AfterConnect, AskConnLock, AskReqLock, Goto, TypeOK
  <2>2. UNCHANGED sockVars /\ mine' = mine
    BY <1>1 DEF NewCall, CallRequest, CallConnect, CallDisconnect, AlreadyConnected, StartOpening
  <2>3. QED BY <2>1, <2>2, FrameFrame DEF sockVars
<1>2. ASSUME NEW t \in Callers, Opened(t)
      PROVE  FramesPaired'
  <2>1. /\ opened + 1 \in Sockets /\ wire[opened + 1] = <<>> /\ wire' = wire
        /\ \A u \in Callers : mine[u] # opened + 1
    BY <1>0, <1>2, BoundsAssumption DEF Opened, TypeOK, FreshInv, Sockets
  <2>2. \A u \in Callers : pc'[u] # pc[u] => pc[u] # "reading" /\ pc'[u] # "reading"
    BY <1>0, <1>2 DEF Opened, AskReqLock, Goto, TypeOK
  <2>3. QED BY <1>0, <1>2, <2>1, <2>2 DEF Opened, FramesPaired
<1>3. ASSUME NEW t \in Callers, OpenFailed(t) \/ FailTeardown(t) \/ CloseTeardown(t) \/ NoWriter(t)
                              \/ Closed(t) \/ ReadBroken(t)
      PROVE  FramesPaired'
  <2>1. /\ wire' = wire /\ mine' = mine /\ local' \subseteq local /\ remote' \subseteq remote
    BY <1>3 DEF OpenFailed, FailTeardown, CloseTeardown, NoWriter, Closed, ReadBroken, Teardown,
       sockVars
  <2>2. \A u \in Callers : pc'[u] # pc[u] =>
           /\ pc'[u] # "reading"
           /\ pc[u] = "reading" => mine[u] \notin local \cap remote
    BY <1>0, <1>3 DEF OpenFailed, FailTeardown, CloseTeardown, NoWriter, Closed, ReadBroken,
       AskConnLock, Goto, TypeOK
  <2>3. QED BY <2>1, <2>2, FrameFrame
<1>4. ASSUME NEW t \in Callers, Fail(t)
      PROVE  FramesPaired'
  BY <1>0, <1>4 DEF Fail, Goto, TypeOK, FramesPaired, sockVars
<1>5. ASSUME NEW t \in Callers, Write(t)
      PROVE  FramesPaired'
  <2>1. reqLock.owner = t /\ pc[t] = "reqWait"
    BY <1>5 DEF Write, Granted
  <2>2. \A u \in Callers : pc[u] # "reading"
    BY <1>a, <2>1
  <2>3. sock \in Sockets
    BY <1>0, <1>5, BoundsAssumption DEF Write, TypeOK, Sockets
  <2>4. sock \in local \cap remote => wire[sock] = <<>>
    BY <1>0, <2>2, <2>3 DEF FramesPaired
  <2>5. sock \in local \cap remote => wire'[sock] = <<t>>
    BY <1>0, <1>5, <2>3, <2>4 DEF Write, TypeOK
  <2>6. local \cap remote \subseteq {sock}
    BY <1>0 DEF SocketInv, NoSocketLeak
  <2>7. \A u \in Callers : pc'[u] = "reading" => u = t
    BY <1>0, <1>5, <2>2 DEF Write, Goto, TypeOK
  <2>8. mine'[t] = sock /\ pc'[t] = "reading" /\ local' = local /\ remote' = remote
    BY <1>0, <1>5 DEF Write, Goto, TypeOK
  <2>9. QED BY <2>5, <2>6, <2>7, <2>8 DEF FramesPaired
<1>6. ASSUME NEW t \in Callers, ReadResponse(t) \/ ReadError(t)
      PROVE  FramesPaired'
  <2>1. /\ pc[t] = "reading" /\ mine[t] \in local \cap remote
        /\ wire' = [wire EXCEPT ![mine[t]] = Tail(@)] /\ local' = local /\ remote' = remote
    BY <1>6 DEF ReadResponse, ReadError, Readable
  <2>2. \A u \in Callers : pc'[u] # "reading"
    <3>1. \A u \in Callers : pc[u] = "reading" => u = t
      BY <1>0, <1>a, <2>1 DEF LockInv
    <3>2. pc'[t] # "reading" /\ \A u \in Callers \ {t} : pc'[u] = pc[u]
      BY <1>0, <1>6 DEF ReadResponse, ReadError, AskConnLock, Goto, TypeOK
    <3>3. QED BY <3>1, <3>2
  <2>3. wire[mine[t]] = <<t>>
    BY <1>0, <2>1 DEF FramesPaired
  <2>4. mine[t] \in Sockets /\ wire'[mine[t]] = <<>>
    BY <1>0, <2>1, <2>3 DEF TypeOK
  <2>5. local \cap remote \subseteq {mine[t]}
    BY <1>0, <2>1 DEF SocketInv, NoSocketLeak
  <2>6. QED BY <2>1, <2>2, <2>4, <2>5 DEF FramesPaired
<1>7. ASSUME NEW s \in Sockets, BrokerCloses(s)
      PROVE  FramesPaired'
  BY <1>7, FrameFrame DEF BrokerCloses
<1>8. QED
  BY <1>1, <1>2, <1>3, <1>4, <1>5, <1>6, <1>7 DEF Next, CallerStep

\* A step that changes nothing keeps the invariant.
LEMMA Stutter ==
    ASSUME IInv, UNCHANGED vars
    PROVE  IInv'
BY DEF IInv, TypeOK, LockInv, Waits, SocketInv, NoSocketLeak, FreshInv, FramesPaired, vars, sockVars

\* The invariant holds in every state.
LEMMA Invariance == Spec => []IInv
<1>1. IInv /\ [Next]_vars => IInv'
  BY TypeStep, LockStep, SocketStep, FrameStep, Stutter DEF IInv
<1>2. QED BY InitInv, <1>1, PTL DEF Spec

\* Every variable keeps its type; the locks stay locks.
THEOREM TypeCorrect == Spec => []TypeOK
<1>1. IInv => TypeOK
  BY DEF IInv
<1>2. QED BY <1>1, Invariance, PTL

\* However many coroutines connect, fail and disconnect at the same time, a
\* reader takes the answer to its own request, and none is left for a later one.
THEOREM FramesArePaired == Spec => []FramesPaired
<1>1. IInv => FramesPaired
  BY DEF IInv
<1>2. QED BY <1>1, Invariance, PTL

\* No socket but the current one stays open.
THEOREM SocketsAreClosed == Spec => []NoSocketLeak
<1>1. IInv => NoSocketLeak
  BY DEF IInv, SocketInv
<1>2. QED BY <1>1, Invariance, PTL
=============================================================================
