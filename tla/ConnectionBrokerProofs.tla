----------------------- MODULE ConnectionBrokerProofs -----------------------
(***************************************************************************)
(* Safety of ConnectionBroker for any clients, hosts, commands and limits, *)
(* and that it implements DeviceSession.                                   *)
(***************************************************************************)
EXTENDS ConnectionBroker, FiniteSetTheorems, SequenceTheorems, TLAPS

(* The locks are always well-typed, whoever takes or releases them.        *)
LEMMA LockType ==
    ASSUME TypeOK, NEW t \in Tasks, NEW h \in Hosts, Lock(t, h)
    PROVE  /\ owner' \in [Hosts -> Tasks \cup {NoTask}]
           /\ waiters' \in [Hosts -> Seq(Tasks)]
<1>1. CASE owner[h] = NoTask
  BY <1>1 DEF TypeOK, Lock
<1>2. CASE owner[h] # NoTask
  <2>1. waiters[h] \in Seq(Tasks)
    BY DEF TypeOK
  <2>2. Append(waiters[h], t) \in Seq(Tasks)
    BY <2>1, AppendProperties
  <2>3. QED BY <1>2, <2>2 DEF TypeOK, Lock
<1>3. QED BY <1>1, <1>2

\* Releasing a device lock, with or without a waiter to hand it to, keeps the
\* locks well-typed.
LEMMA UnlockType ==
    ASSUME TypeOK, NEW h \in Hosts, Unlock(h)
    PROVE  /\ owner' \in [Hosts -> Tasks \cup {NoTask}]
           /\ waiters' \in [Hosts -> Seq(Tasks)]
<1>1. CASE waiters[h] = <<>>
  BY <1>1 DEF TypeOK, Unlock
<1>2. CASE waiters[h] # <<>>
  <2>1. waiters[h] \in Seq(Tasks)
    BY DEF TypeOK
  <2>2. Head(waiters[h]) \in Tasks /\ Tail(waiters[h]) \in Seq(Tasks)
    BY <1>2, <2>1, HeadTailProperties
  <2>3. QED BY <1>2, <2>2 DEF TypeOK, Unlock
<1>3. QED BY <1>1, <1>2

\* Ending a request (the lock released, the output recorded) keeps the types of
\* what it assigns.
LEMMA FinishType ==
    ASSUME TypeOK, NEW t \in Tasks, NEW output \in Nat, Finish(t, output)
    PROVE  /\ owner' \in [Hosts -> Tasks \cup {NoTask}]
           /\ waiters' \in [Hosts -> Seq(Tasks)]
           /\ pc' \in [Tasks -> AtRest \cup {"lock", "done"} \cup Holding]
           /\ answer' \in [Tasks -> Nat]
<1>1. host[t] \in Hosts
  BY DEF TypeOK
<1>2. Unlock(host[t])
  BY DEF Finish
<1>3. /\ pc' \in [Tasks -> AtRest \cup {"lock", "done"} \cup Holding]
      /\ answer' \in [Tasks -> Nat]
  BY DEF Finish, Goto, TypeOK
<1>4. QED BY <1>1, <1>2, <1>3, UnlockType

\* Dropping the cache of a device (del self.command_cache[h]) keeps the caches,
\* and what their late readers find, well-typed.
LEMMA DropCacheType ==
    ASSUME TypeOK, NEW h \in Hosts, DropCache(h)
    PROVE  /\ cached' \in [Hosts -> [Cmds -> Nat]]
           /\ attached' \in [Tasks -> BOOLEAN]
           /\ kept' \in [Tasks -> Nat]
BY DEF DropCache, TypeOK, Empty

\* The second look into the cache finds a session number, or 0.
LEMMA FoundType ==
    ASSUME TypeOK, NEW t \in Tasks
    PROVE  Found(t) \in Nat
BY DEF TypeOK, Found

(* One step of a task keeps the types.                                     *)
LEMMA TaskStepType ==
    ASSUME TypeOK, NEW t \in Tasks, TaskStep(t)
    PROVE  TypeOK'
<1> USE DEF AtRest, Holding, Calling
<1>0. /\ host[t] \in Hosts /\ cmd[t] \in Cmds
      /\ session[host[t]] \in Nat /\ session[host[t]] + 1 \in Nat
      /\ permits + 1 \in Nat
  BY DEF TypeOK
<1>1. CASE AnswerFromCache(t)
  <2>1. Finish(t, Found(t)) /\ Found(t) \in Nat
    BY <1>1, FoundType DEF AnswerFromCache
  <2>2. QED
    BY <1>1, <2>1, FinishType
    DEF AnswerFromCache, TypeOK, deviceVars, permitVars, cacheVars, localVars,
        serverVars
<1>2. CASE StartDisconnect(t)
  BY <1>2 DEF StartDisconnect, Goto, TypeOK, deviceVars, lockVars, permitVars,
              cacheVars, localVars, serverVars
<1>3. CASE NothingToDisconnect(t)
  <2>1. Finish(t, 0) /\ DropCache(host[t])
    BY <1>3 DEF NothingToDisconnect
  <2>2. QED
    BY <1>0, <1>3, <2>1, FinishType, DropCacheType
    DEF NothingToDisconnect, TypeOK, deviceVars, permitVars, localVars,
        serverVars
<1>4. CASE Reuse(t)
  <2>1. CASE op[t] = "execute"
    BY <1>0, <1>4, <2>1
    DEF Reuse, Goto, TypeOK, deviceVars, lockVars, permitVars, cacheVars,
        serverVars
  <2>2. CASE op[t] # "execute"
    <3>1. Finish(t, 0)
      BY <1>4, <2>2 DEF Reuse
    <3>2. QED
      BY <1>4, <2>2, <3>1, FinishType
      DEF Reuse, TypeOK, deviceVars, permitVars, cacheVars, serverVars
  <2>3. QED BY <2>1, <2>2
<1>5. CASE UnknownHost(t)
  <2>1. Finish(t, 0)
    BY <1>5 DEF UnknownHost
  <2>2. QED
    BY <1>5, <2>1, FinishType
    DEF UnknownHost, TypeOK, deviceVars, permitVars, cacheVars, localVars,
        serverVars
<1>6. CASE AskPermit(t)
  <2>1. Append(permitQueue, t) \in Seq(Tasks)
    BY AppendProperties DEF TypeOK
  <2>2. QED
    BY <1>6, <2>1
    DEF AskPermit, Goto, TypeOK, deviceVars, lockVars, cacheVars, localVars,
        serverVars
<1>7. CASE GetPermit(t)
  <2>1. Tail(permitQueue) \in Seq(Tasks)
    BY <1>7, HeadTailProperties DEF GetPermit, TypeOK
  <2>2. permits - 1 \in Nat
    BY <1>7 DEF GetPermit, TypeOK
  <2>3. QED
    BY <1>7, <2>1, <2>2
    DEF GetPermit, Goto, TypeOK, deviceVars, lockVars, cacheVars, localVars,
        serverVars
<1>8. CASE ConnectOk(t)
  <2>1. CASE op[t] = "execute"
    BY <1>0, <1>8, <2>1
    DEF ConnectOk, Goto, TypeOK, lockVars, cacheVars, serverVars
  <2>2. CASE op[t] # "execute"
    <3>1. Finish(t, 0)
      BY <1>8, <2>2 DEF ConnectOk
    <3>2. QED
      BY <1>0, <1>8, <2>2, <3>1, FinishType
      DEF ConnectOk, TypeOK, cacheVars, serverVars
  <2>3. QED BY <2>1, <2>2
<1>9. CASE ConnectFailed(t)
  <2>1. Finish(t, 0)
    BY <1>9 DEF ConnectFailed
  <2>2. QED
    BY <1>0, <1>9, <2>1, FinishType
    DEF ConnectFailed, TypeOK, deviceVars, cacheVars, localVars, serverVars
<1>10. CASE ExecuteOk(t)
  <2>1. Finish(t, session[host[t]]) /\ session[host[t]] \in Nat
    BY <1>0, <1>10 DEF ExecuteOk, TypeOK
  <2>2. QED
    BY <1>0, <1>10, <2>1, FinishType
    DEF ExecuteOk, TypeOK, deviceVars, permitVars, localVars, serverVars
<1>11. CASE ExecuteRejected(t)
  <2>1. Finish(t, 0)
    BY <1>11 DEF ExecuteRejected
  <2>2. QED
    BY <1>11, <2>1, FinishType
    DEF ExecuteRejected, TypeOK, deviceVars, permitVars, cacheVars, localVars,
        serverVars
<1>12. CASE ExecuteLost(t)
  BY <1>12 DEF ExecuteLost, Goto, TypeOK, deviceVars, lockVars, permitVars,
               cacheVars, localVars, serverVars
<1>13. CASE ExecuteBroken(t)
  BY <1>13 DEF ExecuteBroken, Goto, TypeOK, deviceVars, lockVars, permitVars,
               cacheVars, localVars, serverVars
<1>14. CASE Disconnected(t)
  <2>0. DropCache(host[t])
    BY <1>14 DEF Disconnected
  <2>1. CASE pc[t] = "healing"
    BY <1>0, <1>14, <2>0, <2>1, DropCacheType
    DEF Disconnected, Goto, TypeOK, lockVars, permitVars, serverVars
  <2>2. CASE pc[t] # "healing"
    <3>1. Finish(t, 0)
      BY <1>14, <2>2 DEF Disconnected
    <3>2. QED
      BY <1>0, <1>14, <2>0, <2>2, <3>1, FinishType, DropCacheType
      DEF Disconnected, TypeOK, permitVars, serverVars
  <2>3. QED BY <2>1, <2>2
<1>15. CASE Respond(t)
  <2>1. AnyHost \in Hosts /\ AnyCmd \in Cmds
    BY HostsAssumption DEF AnyHost, AnyCmd
  <2>2. QED
    BY <1>15, <2>1
    DEF Respond, Goto, TypeOK, deviceVars, lockVars, permitVars, serverVars
<1>16. QED
  BY <1>1, <1>2, <1>3, <1>4, <1>5, <1>6, <1>7, <1>8, <1>9, <1>10, <1>11,
     <1>12, <1>13, <1>14, <1>15
  DEF TaskStep

(* So does a step of a client, of shutdown or of the environment.          *)
LEMMA OtherStepType ==
    ASSUME TypeOK, [Next]_vars,
           ~ \E t \in Tasks : TaskStep(t)
    PROVE  TypeOK'
<1> USE DEF AtRest, Holding, Calling
<1>1. CASE \E t \in Clients : Request(t)
  <2>1. PICK t \in Clients : Request(t)
    BY <1>1
  <2>2. t \in Tasks
    BY DEF Tasks
  <2>3. ASSUME NEW h \in Hosts, NEW c \in Cmds, ReceiveExecute(t, h, c)
        PROVE  TypeOK'
    <3>1. left' \in [Clients -> Nat] /\ NextSession(h) \in Nat
          /\ cached[h][c] \in Nat
      BY <2>3 DEF ReceiveExecute, NextSession, TypeOK
    <3>2. CASE cached[h][c] # 0
      BY <2>2, <2>3, <3>1, <3>2
      DEF ReceiveExecute, Goto, TypeOK, deviceVars, lockVars, permitVars
    <3>3. CASE cached[h][c] = 0
      <4>1. Lock(t, h)
        BY <2>3, <3>3 DEF ReceiveExecute
      <4>2. QED
        BY <2>2, <2>3, <3>1, <3>3, <4>1, LockType
        DEF ReceiveExecute, Goto, TypeOK, deviceVars, permitVars
    <3>4. QED BY <3>2, <3>3
  <2>4. ASSUME NEW h \in Hosts, NEW r \in OtherRequests, ReceiveOther(t, h, r)
        PROVE  TypeOK'
    <3>1. left' \in [Clients -> Nat] /\ NextSession(h) \in Nat
      BY <2>4 DEF ReceiveOther, NextSession, TypeOK
    <3>2. Lock(t, h)
      BY <2>4 DEF ReceiveOther
    <3>3. r \in {"connect", "disconnect"}
      BY RequestsAssumption
    <3>4. QED
      BY <2>2, <2>4, <3>1, <3>2, <3>3, LockType
      DEF ReceiveOther, Goto, TypeOK, deviceVars, permitVars, cacheVars
  <2>5. QED BY <2>1, <2>3, <2>4 DEF Request
<1>2. ASSUME NEW t \in Clients, ClientLeaves(t) \/ CloseClient(t)
      PROVE  TypeOK'
  BY <1>2
  DEF ClientLeaves, CloseClient, Goto, TypeOK, Tasks, deviceVars, lockVars,
      permitVars, cacheVars, localVars
<1>3. CASE BeginShutdown \/ Snapshot \/ Stop
  BY <1>3
  DEF BeginShutdown, Snapshot, Stop, TypeOK, deviceVars, lockVars,
      permitVars, cacheVars, localVars
<1>4. ASSUME NEW h \in Hosts, CloseDevice(h)
      PROVE  TypeOK'
  <2>1. Closer \in Tasks
    BY DEF Tasks
  <2>2. Lock(Closer, h)
    BY <1>4 DEF CloseDevice
  <2>3. QED
    BY <1>4, <2>1, <2>2, LockType
    DEF CloseDevice, Goto, TypeOK, deviceVars, permitVars, cacheVars
<1>5. CASE GiveUpWaiting
  <2> DEFINE h == host[Closer]
  <2>1. Closer \in Tasks /\ h \in Hosts
    BY DEF Tasks, TypeOK
  <2>2. /\ owner' \in [Hosts -> Tasks \cup {NoTask}]
        /\ waiters' \in [Hosts -> Seq(Tasks)]
    <3>1. CASE owner[h] = Closer
      BY <1>5, <2>1, <3>1, UnlockType DEF GiveUpWaiting
    <3>2. CASE owner[h] # Closer
      <4>1. PICK i \in 1 .. Len(waiters[h]) :
              waiters' = [waiters EXCEPT
                  ![h] = SubSeq(@, 1, i - 1) \o SubSeq(@, i + 1, Len(@))]
        BY <1>5, <3>2 DEF GiveUpWaiting
      <4>2. waiters[h] \in Seq(Tasks)
        BY <2>1 DEF TypeOK
      <4>3. /\ SubSeq(waiters[h], 1, i - 1) \in Seq(Tasks)
            /\ SubSeq(waiters[h], i + 1, Len(waiters[h])) \in Seq(Tasks)
        BY <4>2, SubSeqProperties
      <4>4. SubSeq(waiters[h], 1, i - 1)
               \o SubSeq(waiters[h], i + 1, Len(waiters[h])) \in Seq(Tasks)
        BY <4>3, ConcatProperties
      <4>5. waiters' \in [Hosts -> Seq(Tasks)]
        BY <2>1, <4>1, <4>4 DEF TypeOK
      <4>6. QED BY <1>5, <3>2, <4>5 DEF GiveUpWaiting, TypeOK
    <3>3. QED BY <3>1, <3>2
  <2>3. QED
    BY <1>5, <2>1, <2>2
    DEF GiveUpWaiting, Goto, TypeOK, deviceVars, permitVars, cacheVars,
        localVars, serverVars
<1>6. CASE GiveUpDisconnect
  <2>1. Closer \in Tasks /\ host[Closer] \in Hosts
    BY DEF Tasks, TypeOK
  <2>2. Unlock(host[Closer])
    BY <1>6 DEF GiveUpDisconnect
  <2>3. QED
    BY <1>6, <2>1, <2>2, UnlockType
    DEF GiveUpDisconnect, Goto, TypeOK, permitVars, cacheVars, localVars,
        serverVars
<1>7. CASE Environment
  <2>1. ASSUME NEW h \in Hosts, SessionDies(h) \/ StrayEnds(h)
        PROVE  TypeOK'
    BY <2>1
    DEF SessionDies, StrayEnds, TypeOK, lockVars, permitVars, cacheVars,
        localVars, serverVars
  <2>2. ASSUME NEW h \in Hosts, NEW c \in Cmds, Expire(h, c)
        PROVE  TypeOK'
    <3>1. cached' \in [Hosts -> [Cmds -> Nat]]
      BY <2>2 DEF Expire, TypeOK
    <3>2. QED
      BY <2>2, <3>1
      DEF Expire, TypeOK, deviceVars, lockVars, permitVars, localVars,
          serverVars
  <2>3. ASSUME NEW t \in Tasks, ExpireKept(t)
        PROVE  TypeOK'
    BY <2>3
    DEF ExpireKept, TypeOK, deviceVars, lockVars, permitVars, localVars,
        serverVars
  <2>4. QED BY <1>7, <2>1, <2>2, <2>3 DEF Environment
<1>8. CASE UNCHANGED vars
  BY <1>8
  DEF vars, TypeOK, deviceVars, lockVars, permitVars, cacheVars, localVars,
      serverVars
<1>9. QED
  BY <1>1, <1>2, <1>3, <1>4, <1>5, <1>6, <1>7, <1>8 DEF Next, ShutdownStep

\* The broker starts well-typed.
LEMMA TypeInit == Init => TypeOK
BY HostsAssumption, LimitsAssumption
DEF Init, TypeOK, Empty, AnyHost, AnyCmd, AtRest

(* TypeOK is an invariant of the broker.                                   *)
THEOREM TypeCorrect == Spec => []TypeOK
<1>1. TypeOK /\ [Next]_vars => TypeOK'
  BY TaskStepType, OtherStepType
<1>2. QED BY <1>1, TypeInit, PTL DEF Spec
-----------------------------------------------------------------------------
(* The inductive invariant, part by part.                                  *)

\* Whoever works on a device owns its lock.
LockInv == \A t \in Tasks : pc[t] \in Holding => owner[host[t]] = t

\* A task that works on a session works on the registered, latest one, and a
\* task that connects does so because there is none.
SessionOK(t) ==
    /\ pc[t] \in {"executing", "healing", "failing"} =>
           used[t] = session[host[t]] /\ op[t] = "execute"
    /\ pc[t] \in {"executing", "healing", "failing", "disconnecting"} =>
           host[t] \in connected
    /\ pc[t] \in {"obtain", "permit", "connecting"} =>
           host[t] \notin connected
SessionInv == \A t \in Tasks : SessionOK(t)

\* A task at rest has no locals; sessions only grow; the second try comes
\* after the wait for the lock.
LocalOK(t) ==
    /\ pc[t] \in AtRest =>
           since[t] = 0 /\ used[t] = 0 /\ answer[t] = 0 /\ attached[t] = FALSE
    /\ pc[t] \in AtRest \cup {"lock"} => attempt[t] = 1
    /\ attached[t] => op[t] = "execute"
    /\ since[t] <= NextSession(host[t])
    /\ used[t] <= session[host[t]]
LocalInv == \A t \in Tasks : LocalOK(t)

\* Only shutdown gives up on a disconnect, after the last client is gone.
ShutdownInv ==
    /\ open = {} \/ \A h \in Hosts : stray[h] = "none"
    /\ phase \in {"draining", "stopped"} => open = {}
    /\ pc[Closer] # "idle" => phase = "draining"
    /\ op[Closer] = "disconnect"

\* What a waiting task would find, and what a task answers with, is not older
\* than its request.
AgeOK(t) ==
    /\ pc[t] = "lock" /\ op[t] = "execute" =>
           Found(t) = 0 \/ Found(t) >= since[t]
    /\ answer[t] # 0 => answer[t] >= since[t]
AgeInv == \A t \in Tasks : AgeOK(t)

\* A task about to run its command found nothing in the cache of the device.
MissOK(t) ==
    pc[t] \in {"obtain", "permit", "connecting", "executing"} /\ attached[t]
        => cached[host[t]][cmd[t]] = 0
MissInv == \A t \in Tasks : MissOK(t)

IInv ==
    /\ TypeOK /\ LockInv /\ SessionInv /\ LocalInv /\ ShutdownInv
    /\ CacheMatchesSession /\ AgeInv /\ MissInv

\* The inductive invariant holds when the broker starts.
LEMMA IInit == Init => IInv
<1> SUFFICES ASSUME Init PROVE IInv
  OBVIOUS
<1>1. TypeOK
  BY TypeInit
<1>2. AnyHost \in Hosts
  BY HostsAssumption DEF AnyHost
<1>3. LockInv /\ SessionInv /\ LocalInv /\ ShutdownInv /\ AgeInv /\ MissInv
  BY <1>2
  DEF Init, Tasks, LockInv, SessionInv, SessionOK, LocalInv, LocalOK,
      ShutdownInv, AgeInv, AgeOK, MissInv, MissOK, AtRest, Holding, Calling,
      NextSession
<1>4. CacheMatchesSession
  BY DEF Init, CacheMatchesSession, Empty
<1>5. QED BY <1>1, <1>3, <1>4 DEF IInv
-----------------------------------------------------------------------------
(* The lock.                                                               *)

\* A task that keeps its lock, or has none to keep.
LEMMA StayOwner ==
    ASSUME TypeOK, LockInv, NEW t \in Tasks, NEW label,
           owner' = owner, host' = host, Goto(t, label),
           label \in Holding => owner[host[t]] = t
    PROVE  LockInv'
BY DEF LockInv, Goto, TypeOK

\* A task without a lock, whatever it does to its own locals.
LEMMA StayOut ==
    ASSUME TypeOK, LockInv, NEW t \in Tasks, NEW label,
           owner' = owner, Goto(t, label), label \notin Holding,
           \A u \in Tasks \ {t} : host'[u] = host[u]
    PROVE  LockInv'
BY DEF LockInv, Goto, TypeOK

\* A task that gives its lock to the next one.
LEMMA HandOver ==
    ASSUME TypeOK, LockInv, NEW t \in Tasks, NEW label,
           owner[host[t]] = t, Unlock(host[t]), host' = host,
           Goto(t, label), label \notin Holding
    PROVE  LockInv'
<1> SUFFICES ASSUME NEW u \in Tasks, pc'[u] \in Holding
             PROVE  owner'[host[u]] = u
  BY DEF LockInv
<1>1. u # t /\ pc[u] \in Holding
  BY DEF Goto, TypeOK
<1>2. owner[host[u]] = u
  BY <1>1 DEF LockInv
<1>3. host[u] # host[t] /\ host[u] \in Hosts
  BY <1>1, <1>2 DEF TypeOK
<1>4. \E next : owner' = [owner EXCEPT ![host[t]] = next]
  BY DEF Unlock
<1>5. QED BY <1>2, <1>3, <1>4 DEF TypeOK

\* A task that joins the queue of a lock, or finds it free.
LEMMA JoinQueue ==
    ASSUME TypeOK, LockInv, NEW t \in Tasks, NEW h \in Hosts, Lock(t, h),
           host' = [host EXCEPT ![t] = h], Goto(t, "lock")
    PROVE  LockInv'
<1> SUFFICES ASSUME NEW u \in Tasks, pc'[u] \in Holding
             PROVE  owner'[host'[u]] = u
  BY DEF LockInv
<1>1. u # t /\ pc[u] \in Holding
  BY DEF Goto, TypeOK, Holding, Calling
<1>2. owner[host[u]] = u /\ host'[u] = host[u] /\ host[u] \in Hosts
  BY <1>1 DEF LockInv, TypeOK
<1>3. owner[host[u]] # NoTask
  BY <1>2, TasksAssumption
<1>4. QED BY <1>2, <1>3 DEF Lock, TypeOK

\* A task that has taken up its lock owns it.
LEMMA OwnerOf ==
    ASSUME LockInv, NEW t \in Tasks,
           Granted(t) \/ pc[t] \in Holding \/ NeedsConnection(t)
    PROVE  owner[host[t]] = t
BY DEF LockInv, Granted, NeedsConnection, Holding

\* A task that owns the lock of its device is alone there.
LEMMA AloneOnDevice ==
    ASSUME LockInv, NEW t \in Tasks, NEW u \in Tasks,
           owner[host[t]] = t, pc[u] \in Holding, host[u] = host[t]
    PROVE  u = t
BY DEF LockInv

\* A step of a request or of the closer keeps the locks sound: each is owned by
\* the task inside, and its queue holds those that wait, once each.
LEMMA LockTaskStep ==
    ASSUME TypeOK, LockInv, NEW t \in Tasks, TaskStep(t)
    PROVE  LockInv'
<1> USE DEF Holding, Calling
<1> DEFINE Frees == \E o : Finish(t, o) /\ host' = host
<1>1. ASSUME owner[host[t]] = t, Frees
      PROVE  LockInv'
  <2>1. Unlock(host[t]) /\ Goto(t, "done") /\ host' = host
    BY <1>1 DEF Finish
  <2>2. QED BY <1>1, <2>1, HandOver
<1>2. CASE \/ AnswerFromCache(t) \/ NothingToDisconnect(t) \/ UnknownHost(t)
           \/ ConnectFailed(t) \/ ExecuteOk(t) \/ ExecuteRejected(t)
  <2>1. owner[host[t]] = t
    BY <1>2, OwnerOf
    DEF AnswerFromCache, NothingToDisconnect, UnknownHost, ConnectFailed,
        ExecuteOk, ExecuteRejected
  <2>2. Frees
    BY <1>2
    DEF AnswerFromCache, NothingToDisconnect, UnknownHost, ConnectFailed,
        ExecuteOk, ExecuteRejected, localVars
  <2>3. QED BY <1>1, <2>1, <2>2
<1>3. CASE StartDisconnect(t) \/ AskPermit(t) \/ GetPermit(t)
           \/ ExecuteLost(t) \/ ExecuteBroken(t)
  <2>1. owner[host[t]] = t
    BY <1>3, OwnerOf
    DEF StartDisconnect, AskPermit, GetPermit, ExecuteLost, ExecuteBroken
  <2>2. owner' = owner /\ host' = host /\ \E label : Goto(t, label)
    BY <1>3
    DEF StartDisconnect, AskPermit, GetPermit, ExecuteLost, ExecuteBroken,
        lockVars, localVars
  <2>3. QED BY <2>1, <2>2, StayOwner
<1>4. CASE Reuse(t) \/ ConnectOk(t)
  <2>1. owner[host[t]] = t
    BY <1>4, OwnerOf DEF Reuse, ConnectOk
  <2>2. CASE op[t] = "execute"
    <3>1. owner' = owner /\ host' = host /\ Goto(t, "executing")
      BY <1>4, <2>2 DEF Reuse, ConnectOk, lockVars
    <3>2. QED BY <2>1, <3>1, StayOwner
  <2>3. CASE op[t] # "execute"
    <3>1. Frees
      BY <1>4, <2>3 DEF Reuse, ConnectOk
    <3>2. QED BY <1>1, <2>1, <3>1
  <2>4. QED BY <2>2, <2>3
<1>5. CASE Disconnected(t)
  <2>1. owner[host[t]] = t
    BY <1>5, OwnerOf DEF Disconnected
  <2>2. CASE pc[t] = "healing"
    <3>1. owner' = owner /\ host' = host /\ Goto(t, "obtain")
      BY <1>5, <2>2 DEF Disconnected, lockVars
    <3>2. QED BY <2>1, <3>1, StayOwner
  <2>3. CASE pc[t] # "healing"
    <3>1. Frees
      BY <1>5, <2>3 DEF Disconnected
    <3>2. QED BY <1>1, <2>1, <3>1
  <2>4. QED BY <2>2, <2>3
<1>6. CASE Respond(t)
  BY <1>6 DEF Respond, Goto, LockInv, TypeOK, lockVars
<1>7. QED BY <1>2, <1>3, <1>4, <1>5, <1>6 DEF TaskStep

\* So do requests that arrive, shutdown, what wait_for gives up on and the
\* environment.
LEMMA LockOtherStep ==
    ASSUME TypeOK, LockInv, [Next]_vars, ~ \E t \in Tasks : TaskStep(t)
    PROVE  LockInv'
<1> USE DEF Holding, Calling
<1>0. Closer \in Tasks /\ Clients \subseteq Tasks
  BY DEF Tasks
<1>1. ASSUME NEW t \in Clients, Request(t)
      PROVE  LockInv'
  <2>1. ASSUME NEW h \in Hosts, NEW c \in Cmds, ReceiveExecute(t, h, c)
        PROVE  LockInv'
    <3>1. CASE cached[h][c] # 0
      <4>1. Goto(t, "done") /\ owner' = owner
        BY <2>1, <3>1 DEF ReceiveExecute, lockVars
      <4>2. \A u \in Tasks \ {t} : host'[u] = host[u]
        BY <2>1 DEF ReceiveExecute, TypeOK
      <4>3. QED BY <1>0, <4>1, <4>2, StayOut
    <3>2. CASE cached[h][c] = 0
      <4>1. Lock(t, h) /\ Goto(t, "lock") /\ host' = [host EXCEPT ![t] = h]
        BY <2>1, <3>2 DEF ReceiveExecute
      <4>2. QED BY <1>0, <4>1, JoinQueue
    <3>3. QED BY <3>1, <3>2
  <2>2. ASSUME NEW h \in Hosts, NEW r \in OtherRequests, ReceiveOther(t, h, r)
        PROVE  LockInv'
    <3>1. Lock(t, h) /\ Goto(t, "lock") /\ host' = [host EXCEPT ![t] = h]
      BY <2>2 DEF ReceiveOther
    <3>2. QED BY <1>0, <3>1, JoinQueue
  <2>3. QED BY <1>1, <2>1, <2>2 DEF Request
<1>2. ASSUME NEW t \in Clients, ClientLeaves(t) \/ CloseClient(t)
      PROVE  LockInv'
  <2>1. owner' = owner /\ host' = host
    BY <1>2 DEF ClientLeaves, CloseClient, lockVars, localVars
  <2>2. Goto(t, "closed") \/ pc' = pc
    BY <1>2 DEF ClientLeaves, CloseClient
  <2>3. QED BY <1>0, <2>1, <2>2, StayOut DEF LockInv
<1>3. CASE BeginShutdown \/ Snapshot \/ Stop
  BY <1>3 DEF BeginShutdown, Snapshot, Stop, LockInv, lockVars, localVars
<1>4. ASSUME NEW h \in Hosts, CloseDevice(h)
      PROVE  LockInv'
  <2>1. /\ Lock(Closer, h) /\ Goto(Closer, "lock")
        /\ host' = [host EXCEPT ![Closer] = h]
    BY <1>4 DEF CloseDevice
  <2>2. QED BY <1>0, <2>1, JoinQueue
<1>5. CASE GiveUpWaiting
  <2>1. host' = host /\ Goto(Closer, "done")
    BY <1>5 DEF GiveUpWaiting, localVars
  <2>2. CASE owner[host[Closer]] = Closer
    <3>1. Unlock(host[Closer])
      BY <1>5, <2>2 DEF GiveUpWaiting
    <3>2. QED BY <1>0, <2>1, <2>2, <3>1, HandOver
  <2>3. CASE owner[host[Closer]] # Closer
    <3>1. owner' = owner
      BY <1>5, <2>3 DEF GiveUpWaiting
    <3>2. QED BY <1>0, <2>1, <3>1, StayOwner
  <2>4. QED BY <2>2, <2>3
<1>6. CASE GiveUpDisconnect
  <2>1. /\ host' = host /\ Goto(Closer, "done") /\ Unlock(host[Closer])
        /\ pc[Closer] \in Holding
    BY <1>6 DEF GiveUpDisconnect, localVars
  <2>2. owner[host[Closer]] = Closer
    BY <1>0, <2>1, OwnerOf
  <2>3. QED BY <1>0, <2>1, <2>2, HandOver
<1>7. CASE Environment
  BY <1>7
  DEF Environment, SessionDies, StrayEnds, Expire, ExpireKept, LockInv,
      lockVars, localVars
<1>8. CASE UNCHANGED vars
  BY <1>8 DEF vars, LockInv, lockVars, localVars
<1>9. QED
  BY <1>1, <1>2, <1>3, <1>4, <1>5, <1>6, <1>7, <1>8 DEF Next, ShutdownStep

(* One Unicon call per device: the broker never lets two requests, or a     *)
(* request and shutdown, drive one device at the same time.                *)
THEOREM MutualExclusion == Spec => []OneCallPerDevice
<1>1. Init => LockInv
  BY IInit DEF IInv
<1>2. TypeOK /\ LockInv /\ [Next]_vars => LockInv'
  BY LockTaskStep, LockOtherStep
<1>3. LockInv => OneCallPerDevice
  BY DEF LockInv, OneCallPerDevice, OnDevice, Holding
<1>4. QED BY <1>1, <1>2, <1>3, TypeCorrect, PTL DEF Spec
-----------------------------------------------------------------------------
(* What a step of a task leaves alone: the locals of the others, and the    *)
(* state of every device but its own.                                       *)

SameLocals(u) ==
    /\ pc'[u] = pc[u] /\ op'[u] = op[u] /\ host'[u] = host[u]
    /\ cmd'[u] = cmd[u] /\ attempt'[u] = attempt[u] /\ used'[u] = used[u]
    /\ since'[u] = since[u] /\ answer'[u] = answer[u]

SameDevice(h) ==
    /\ session'[h] = session[h] /\ (h \in connected') = (h \in connected)
    /\ cached'[h] = cached[h]
    /\ \A u \in Tasks : host[u] = h /\ SameLocals(u) =>
           attached'[u] = attached[u] /\ kept'[u] = kept[u]

\* Ending a request changes no local of any task but the answer, and no
\* control state but its own.
LEMMA FinishFrame ==
    ASSUME TypeOK, NEW t \in Tasks, NEW o, Finish(t, o),
           UNCHANGED <<op, host, cmd, attempt, used, since>>
    PROVE  \A u \in Tasks \ {t} : SameLocals(u)
BY DEF Finish, Goto, TypeOK, SameLocals

\* A step that only moves a task leaves the control state of the others alone.
LEMMA GotoFrame ==
    ASSUME TypeOK, NEW t \in Tasks, NEW label, Goto(t, label),
           UNCHANGED <<op, host, cmd, since, answer>>,
           \A u \in Tasks \ {t} :
               used'[u] = used[u] /\ attempt'[u] = attempt[u]
    PROVE  \A u \in Tasks \ {t} : SameLocals(u)
BY DEF Goto, TypeOK, SameLocals

\* Dropping the cache of a device leaves the caches of the others alone.
LEMMA DropFrame ==
    ASSUME TypeOK, NEW h \in Hosts, DropCache(h)
    PROVE  \A g \in Hosts \ {h} :
               /\ cached'[g] = cached[g]
               /\ \A u \in Tasks : host[u] = g =>
                      attached'[u] = attached[u] /\ kept'[u] = kept[u]
BY DEF DropCache, TypeOK

\* What a step of a task leaves alone: the locals and the control state of the
\* other tasks, and the devices, caches and sessions of other hosts.
LEMMA TaskFrame ==
    ASSUME TypeOK, NEW t \in Tasks, TaskStep(t)
    PROVE  /\ \A u \in Tasks \ {t} : SameLocals(u)
           /\ \A h \in Hosts \ {host[t]} : SameDevice(h)
           /\ UNCHANGED <<stray, serverVars>>
<1>0. host[t] \in Hosts /\ cmd[t] \in Cmds
  BY DEF TypeOK
<1>1. CASE \/ AnswerFromCache(t) \/ UnknownHost(t) \/ ConnectFailed(t)
           \/ ExecuteRejected(t)
  <2>1. PICK o : Finish(t, o)
    BY <1>1 DEF AnswerFromCache, UnknownHost, ConnectFailed, ExecuteRejected
  <2>2. UNCHANGED <<deviceVars, cacheVars, localVars, serverVars>>
    BY <1>1 DEF AnswerFromCache, UnknownHost, ConnectFailed, ExecuteRejected
  <2>3. QED
    BY <2>1, <2>2, FinishFrame DEF deviceVars, cacheVars, localVars, SameDevice
<1>2. CASE \/ StartDisconnect(t) \/ AskPermit(t) \/ GetPermit(t)
           \/ ExecuteLost(t) \/ ExecuteBroken(t)
  <2>1. PICK label : Goto(t, label)
    BY <1>2
    DEF StartDisconnect, AskPermit, GetPermit, ExecuteLost, ExecuteBroken
  <2>2. UNCHANGED <<deviceVars, cacheVars, localVars, answer, serverVars>>
    BY <1>2
    DEF StartDisconnect, AskPermit, GetPermit, ExecuteLost, ExecuteBroken
  <2>3. QED
    BY <2>1, <2>2, GotoFrame DEF deviceVars, cacheVars, localVars, SameDevice
<1>3. CASE Reuse(t)
  <2>1. UNCHANGED <<deviceVars, cacheVars, op, host, cmd, attempt, since,
                    serverVars>>
    BY <1>3 DEF Reuse
  <2>2. CASE op[t] = "execute"
    <3>1. Goto(t, "executing") /\ answer' = answer
          /\ used' = [used EXCEPT ![t] = session[host[t]]]
      BY <1>3, <2>2 DEF Reuse
    <3>2. \A u \in Tasks \ {t} : used'[u] = used[u]
      BY <3>1 DEF TypeOK
    <3>3. QED
      BY <2>1, <3>1, <3>2, GotoFrame DEF deviceVars, cacheVars, SameDevice
  <2>3. CASE op[t] # "execute"
    <3>1. Finish(t, 0) /\ used' = used
      BY <1>3, <2>3 DEF Reuse
    <3>2. QED BY <2>1, <3>1, FinishFrame DEF deviceVars, cacheVars, SameDevice
  <2>4. QED BY <2>2, <2>3
<1>4. CASE ConnectOk(t)
  <2>1. UNCHANGED <<stray, cacheVars, op, host, cmd, attempt, since,
                    serverVars>>
    BY <1>4 DEF ConnectOk
  <2>2. \A h \in Hosts \ {host[t]} : SameDevice(h)
    BY <1>4, <2>1 DEF ConnectOk, TypeOK, cacheVars, SameDevice
  <2>3. CASE op[t] = "execute"
    <3>1. Goto(t, "executing") /\ answer' = answer
          /\ used' = [used EXCEPT ![t] = session[host[t]] + 1]
      BY <1>4, <2>3 DEF ConnectOk
    <3>2. \A u \in Tasks \ {t} : used'[u] = used[u]
      BY <3>1 DEF TypeOK
    <3>3. QED BY <2>1, <2>2, <3>1, <3>2, GotoFrame
  <2>4. CASE op[t] # "execute"
    <3>1. Finish(t, 0) /\ used' = used
      BY <1>4, <2>4 DEF ConnectOk
    <3>2. QED BY <2>1, <2>2, <3>1, FinishFrame
  <2>5. QED BY <2>3, <2>4
<1>5. CASE ExecuteOk(t)
  <2>1. /\ Finish(t, session[host[t]])
        /\ UNCHANGED <<deviceVars, attached, kept, localVars, serverVars>>
        /\ cached' = [cached EXCEPT ![host[t]][cmd[t]] = session[host[t]]]
    BY <1>5 DEF ExecuteOk
  <2>2. QED
    BY <2>1, FinishFrame DEF deviceVars, localVars, TypeOK, SameDevice
<1>6. CASE NothingToDisconnect(t)
  <2>1. /\ Finish(t, 0) /\ DropCache(host[t])
        /\ UNCHANGED <<deviceVars, localVars, serverVars>>
    BY <1>6 DEF NothingToDisconnect
  <2>2. QED
    BY <1>0, <2>1, FinishFrame, DropFrame DEF deviceVars, localVars, SameDevice
<1>7. CASE Disconnected(t)
  <2>1. /\ DropCache(host[t]) /\ connected' = connected \ {host[t]}
        /\ UNCHANGED <<session, stray, op, host, cmd, used, since, serverVars>>
    BY <1>7 DEF Disconnected
  <2>2. \A h \in Hosts \ {host[t]} : SameDevice(h)
    BY <1>0, <2>1, DropFrame DEF SameDevice
  <2>3. CASE pc[t] = "healing"
    <3>1. Goto(t, "obtain") /\ answer' = answer
          /\ attempt' = [attempt EXCEPT ![t] = 2]
      BY <1>7, <2>3 DEF Disconnected
    <3>2. \A u \in Tasks \ {t} : attempt'[u] = attempt[u]
      BY <3>1 DEF TypeOK
    <3>3. QED BY <2>1, <2>2, <3>1, <3>2, GotoFrame
  <2>4. CASE pc[t] # "healing"
    <3>1. Finish(t, 0) /\ attempt' = attempt
      BY <1>7, <2>4 DEF Disconnected
    <3>2. QED BY <2>1, <2>2, <3>1, FinishFrame
  <2>5. QED BY <2>3, <2>4
<1>8. CASE Respond(t)
  <2>1. \A u \in Tasks \ {t} :
            /\ SameLocals(u)
            /\ attached'[u] = attached[u] /\ kept'[u] = kept[u]
    BY <1>8 DEF Respond, Goto, TypeOK, SameLocals
  <2>2. \A h \in Hosts \ {host[t]} : SameDevice(h)
    BY <1>8, <2>1 DEF Respond, deviceVars, SameDevice
  <2>3. QED BY <1>8, <2>1, <2>2 DEF Respond, deviceVars, serverVars
<1>9. QED
  BY <1>1, <1>2, <1>3, <1>4, <1>5, <1>6, <1>7, <1>8 DEF TaskStep

\* Every step of a task but the response is made under the lock of its host.
LEMMA StepUnderLock ==
    ASSUME LockInv, NEW t \in Tasks, TaskStep(t), ~Respond(t)
    PROVE  owner[host[t]] = t
BY OwnerOf
DEF TaskStep, AnswerFromCache, StartDisconnect, NothingToDisconnect, Reuse,
    UnknownHost, AskPermit, GetPermit, ConnectOk, ConnectFailed, ExecuteOk,
    ExecuteRejected, ExecuteLost, ExecuteBroken, Disconnected, Holding, Calling

\* Sending the response puts a task at rest with its locals cleared, and leaves
\* devices, locks and caches alone.
LEMMA RespondFrame ==
    ASSUME TypeOK, NEW t \in Tasks, Respond(t)
    PROVE  /\ pc'[t] \in AtRest
           /\ op'[t] = "disconnect" /\ host'[t] \in Hosts /\ cmd'[t] \in Cmds
           /\ attached'[t] = FALSE /\ attempt'[t] = 1 /\ used'[t] = 0
           /\ since'[t] = 0 /\ answer'[t] = 0
           /\ UNCHANGED <<deviceVars, cached>>
           /\ \A u \in Tasks \ {t} :
                  attached'[u] = attached[u] /\ kept'[u] = kept[u]
<1>1. AnyHost \in Hosts /\ AnyCmd \in Cmds
  BY HostsAssumption DEF AnyHost, AnyCmd
<1>2. QED BY <1>1 DEF Respond, Goto, TypeOK, AtRest

\* A step of a task keeps every other one on the session it got, because it
\* is made under the lock of its own device.
LEMMA SessionTaskStep ==
    ASSUME TypeOK, LockInv, SessionInv, NEW t \in Tasks, TaskStep(t)
    PROVE  SessionInv'
<1> USE DEF Holding, Calling
<1>0. /\ \A u \in Tasks \ {t} : SameLocals(u)
      /\ \A h \in Hosts \ {host[t]} : SameDevice(h)
      /\ host[t] \in Hosts
  BY TaskFrame DEF TypeOK
<1>a. SessionOK(t)
  BY DEF SessionInv
<1>1. ASSUME NEW u \in Tasks \ {t}
      PROVE  SessionOK(u)'
  <2>1. SameLocals(u) /\ SessionOK(u) /\ host[u] \in Hosts
    BY <1>0 DEF SessionInv, TypeOK
  <2>2. CASE pc[u] \notin Holding
    BY <2>1, <2>2 DEF SessionOK, SameLocals
  <2>3. CASE host[u] # host[t]
    <3>1. SameDevice(host[u])
      BY <1>0, <2>1, <2>3
    <3>2. QED BY <2>1, <3>1 DEF SessionOK, SameLocals, SameDevice
  <2>4. CASE Respond(t)
    <3>1. session' = session /\ connected' = connected
      BY <2>4 DEF Respond, deviceVars
    <3>2. QED BY <2>1, <3>1 DEF SessionOK, SameLocals
  <2>5. CASE pc[u] \in Holding /\ host[u] = host[t] /\ ~Respond(t)
    BY <2>5, StepUnderLock, AloneOnDevice
  <2>6. QED BY <2>2, <2>3, <2>4, <2>5
<1>2. SessionOK(t)'
  <2>1. CASE \/ AnswerFromCache(t) \/ NothingToDisconnect(t) \/ UnknownHost(t)
             \/ ConnectFailed(t) \/ ExecuteOk(t) \/ ExecuteRejected(t)
    <3>1. pc'[t] = "done"
      BY <2>1
      DEF AnswerFromCache, NothingToDisconnect, UnknownHost, ConnectFailed,
          ExecuteOk, ExecuteRejected, Finish, Goto, TypeOK
    <3>2. QED BY <3>1 DEF SessionOK
  <2>2. CASE \/ StartDisconnect(t) \/ AskPermit(t) \/ GetPermit(t)
             \/ ExecuteLost(t) \/ ExecuteBroken(t)
    BY <1>a, <2>2
    DEF StartDisconnect, AskPermit, GetPermit, ExecuteLost, ExecuteBroken,
        Goto, TypeOK, SessionOK, deviceVars, localVars
  <2>3. CASE Reuse(t) \/ ConnectOk(t)
    <3>1. CASE op[t] = "execute"
      BY <1>0, <2>3, <3>1
      DEF Reuse, ConnectOk, Goto, TypeOK, SessionOK, deviceVars
    <3>2. CASE op[t] # "execute"
      <4>1. pc'[t] = "done"
        BY <2>3, <3>2 DEF Reuse, ConnectOk, Finish, Goto, TypeOK
      <4>2. QED BY <4>1 DEF SessionOK
    <3>3. QED BY <3>1, <3>2
  <2>4. CASE Disconnected(t)
    <3>1. host[t] \notin connected' /\ host' = host
          /\ (pc'[t] = "done" \/ pc'[t] = "obtain")
      BY <2>4 DEF Disconnected, Finish, Goto, TypeOK
    <3>2. QED BY <3>1 DEF SessionOK
  <2>5. CASE Respond(t)
    BY <2>5, RespondFrame DEF SessionOK, AtRest
  <2>6. QED BY <2>1, <2>2, <2>3, <2>4, <2>5 DEF TaskStep
<1>3. QED BY <1>1, <1>2 DEF SessionInv

\* What the steps of clients, of shutdown and of the environment leave alone.
\* A request and shutdown change the locals of a task at rest only.
LEMMA OtherFrame ==
    ASSUME TypeOK, [Next]_vars, ~ \E t \in Tasks : TaskStep(t)
    PROVE  /\ UNCHANGED <<session, attempt, used>>
           /\ connected' \subseteq connected
           /\ \A t \in Tasks :
                  \/ /\ pc[t] = "idle" /\ pc'[t] \in {"lock", "done"}
                     /\ UNCHANGED connected
                  \/ /\ pc'[t] = pc[t] \/ pc'[t] \in {"closed", "done"}
                     /\ op'[t] = op[t] /\ host'[t] = host[t]
<1>0. Closer \in Tasks /\ Clients \subseteq Tasks
  BY DEF Tasks
<1>1. ASSUME NEW t \in Clients, Request(t)
      PROVE  /\ UNCHANGED <<session, attempt, used, connected>>
             /\ pc[t] = "idle" /\ pc'[t] \in {"lock", "done"}
             /\ \A u \in Tasks \ {t} :
                    pc'[u] = pc[u] /\ op'[u] = op[u] /\ host'[u] = host[u]
  <2>1. ASSUME NEW h \in Hosts, NEW c \in Cmds, ReceiveExecute(t, h, c)
        PROVE  /\ UNCHANGED <<session, attempt, used, connected>>
               /\ pc[t] = "idle" /\ pc'[t] \in {"lock", "done"}
               /\ \A u \in Tasks \ {t} :
                      pc'[u] = pc[u] /\ op'[u] = op[u] /\ host'[u] = host[u]
    BY <1>0, <2>1 DEF ReceiveExecute, Goto, TypeOK, deviceVars
  <2>2. ASSUME NEW h \in Hosts, NEW r \in OtherRequests, ReceiveOther(t, h, r)
        PROVE  /\ UNCHANGED <<session, attempt, used, connected>>
               /\ pc[t] = "idle" /\ pc'[t] \in {"lock", "done"}
               /\ \A u \in Tasks \ {t} :
                      pc'[u] = pc[u] /\ op'[u] = op[u] /\ host'[u] = host[u]
    BY <1>0, <2>2 DEF ReceiveOther, Goto, TypeOK, deviceVars
  <2>3. QED BY <1>1, <2>1, <2>2 DEF Request
<1>2. CASE \E t \in Clients : Request(t)
  BY <1>0, <1>1, <1>2
<1>3. CASE \E t \in Clients : ClientLeaves(t) \/ CloseClient(t)
  BY <1>0, <1>3
  DEF ClientLeaves, CloseClient, Goto, TypeOK, deviceVars, localVars
<1>4. CASE BeginShutdown \/ Snapshot \/ Stop
  BY <1>4 DEF BeginShutdown, Snapshot, Stop, deviceVars, localVars
<1>5. CASE \E h \in Hosts : CloseDevice(h)
  BY <1>0, <1>5 DEF CloseDevice, Goto, TypeOK, deviceVars
<1>6. CASE GiveUpWaiting
  BY <1>0, <1>6 DEF GiveUpWaiting, Goto, TypeOK, deviceVars, localVars
<1>7. CASE GiveUpDisconnect
  BY <1>0, <1>7 DEF GiveUpDisconnect, Goto, TypeOK, localVars
<1>8. CASE Environment
  BY <1>8
  DEF Environment, SessionDies, StrayEnds, Expire, ExpireKept, deviceVars,
      localVars
<1>9. CASE UNCHANGED vars
  BY <1>9 DEF vars, deviceVars, localVars
<1>10. QED
  BY <1>2, <1>3, <1>4, <1>5, <1>6, <1>7, <1>8, <1>9 DEF Next, ShutdownStep

\* A step that is not a task's opens no session and registers no device that a
\* task inside has not got; a disconnect given up on was alone on its device.
LEMMA SessionOtherStep ==
    ASSUME TypeOK, LockInv, SessionInv, [Next]_vars,
           ~ \E t \in Tasks : TaskStep(t)
    PROVE  SessionInv'
<1> SUFFICES ASSUME NEW t \in Tasks PROVE SessionOK(t)'
  BY DEF SessionInv
<1>1. SessionOK(t)
  BY DEF SessionInv
<1>2. CASE connected' = connected
  BY <1>1, <1>2, OtherFrame DEF SessionOK
<1>3. CASE GiveUpDisconnect
  <2>1. /\ connected' = connected \ {host[Closer]} /\ session' = session
        /\ pc[Closer] \in Holding /\ host' = host /\ op' = op /\ used' = used
        /\ pc' = [pc EXCEPT ![Closer] = "done"]
    BY <1>3 DEF GiveUpDisconnect, Goto, localVars, Holding, Calling
  <2>2. Closer \in Tasks
    BY DEF Tasks
  <2>3. CASE t = Closer
    BY <2>1, <2>2, <2>3 DEF SessionOK, TypeOK
  <2>4. CASE t # Closer
    <3>1. pc'[t] = pc[t]
      BY <2>1, <2>4 DEF TypeOK
    <3>2. pc[t] \in Holding => host[t] # host[Closer]
      BY <2>1, <2>2, <2>4, OwnerOf, AloneOnDevice
    <3>3. QED BY <1>1, <2>1, <3>1, <3>2 DEF SessionOK, Holding, Calling
  <2>5. QED BY <2>3, <2>4
<1>4. CASE ~GiveUpDisconnect
  <2>1. connected' = connected
    BY <1>4
    DEF Next, Request, ReceiveExecute, ReceiveOther, ClientLeaves, ShutdownStep,
        BeginShutdown, CloseClient, Snapshot, CloseDevice, Stop, GiveUpWaiting,
        Environment, SessionDies, StrayEnds, Expire, ExpireKept, vars,
        deviceVars
  <2>2. QED BY <1>2, <2>1
<1>5. QED BY <1>3, <1>4

(* Every task tears down, or runs its command on, the session it got.       *)
THEOREM SessionOwnership == Spec => []OwnSession
<1>1. Init => LockInv /\ SessionInv
  BY IInit DEF IInv
<1>2. TypeOK /\ LockInv /\ SessionInv /\ [Next]_vars => (LockInv /\ SessionInv)'
  BY LockTaskStep, LockOtherStep, SessionTaskStep, SessionOtherStep
<1>3. SessionInv => OwnSession
  BY DEF SessionInv, SessionOK, OwnSession
<1>4. QED BY <1>1, <1>2, <1>3, TypeCorrect, PTL DEF Spec
-----------------------------------------------------------------------------
(* The locals, the phases of shutdown and the caches.                       *)

\* Sessions only grow in number, and no step of a task attaches a task to a
\* cache object.
LEMMA Monotone ==
    ASSUME TypeOK, NEW t \in Tasks, TaskStep(t)
    PROVE  /\ \A h \in Hosts : session'[h] >= session[h]
           /\ \A h \in Hosts : NextSession(h)' >= NextSession(h)
           /\ \A u \in Tasks : attached'[u] => attached[u]
<1>1. \/ session' = session /\ connected' \subseteq connected
      \/ /\ session' = [session EXCEPT ![host[t]] = @ + 1]
         /\ connected' = connected \cup {host[t]}
  BY DEF TaskStep, ConnectOk, AnswerFromCache, StartDisconnect, NothingToDisconnect, Reuse,
         UnknownHost, AskPermit, GetPermit, ConnectFailed, ExecuteOk,
         ExecuteRejected, ExecuteLost, ExecuteBroken, Disconnected, Respond,
         deviceVars
<1>2. ASSUME NEW h \in Hosts
      PROVE  session'[h] >= session[h] /\ NextSession(h)' >= NextSession(h)
  <2>1. session[h] \in Nat
    BY DEF TypeOK
  <2>2. \/ session'[h] = session[h] /\ (h \in connected' => h \in connected)
        \/ session'[h] = session[h] + 1
    BY <1>1 DEF TypeOK
  <2>3. QED BY <2>1, <2>2 DEF NextSession
<1>3. CASE NothingToDisconnect(t) \/ Disconnected(t)
  BY <1>2, <1>3 DEF NothingToDisconnect, Disconnected, DropCache
<1>4. CASE Respond(t)
  BY <1>2, <1>4 DEF Respond, TypeOK
<1>5. CASE ~ (NothingToDisconnect(t) \/ Disconnected(t) \/ Respond(t))
  BY <1>2, <1>5
  DEF TaskStep, AnswerFromCache, StartDisconnect, Reuse, UnknownHost, AskPermit,
      GetPermit, ConnectOk, ConnectFailed, ExecuteOk, ExecuteRejected,
      ExecuteLost, ExecuteBroken, cacheVars
<1>6. QED BY <1>3, <1>4, <1>5

\* A step of a task keeps the locals in bounds: what a task remembers of its
\* host is no session of the future.
LEMMA LocalTaskStep ==
    ASSUME TypeOK, SessionInv, LocalInv, NEW t \in Tasks, TaskStep(t)
    PROVE  LocalInv'
<1>0. /\ \A u \in Tasks \ {t} : SameLocals(u)
      /\ \A h \in Hosts : session'[h] >= session[h]
      /\ \A h \in Hosts : NextSession(h)' >= NextSession(h)
      /\ \A u \in Tasks : attached'[u] => attached[u]
      /\ host[t] \in Hosts
  BY TaskFrame, Monotone DEF TypeOK
<1>1. TypeOK'
  BY TaskStepType
<1>2. ASSUME NEW u \in Tasks \ {t}
      PROVE  LocalOK(u)'
  <2>1. SameLocals(u) /\ LocalOK(u) /\ (attached'[u] => attached[u])
    BY <1>0 DEF LocalInv
  <2>2. PICK h \in Hosts : h = host[u] /\ h = host'[u]
    BY <2>1 DEF SameLocals, TypeOK
  <2>3. session'[h] >= session[h] /\ NextSession(h)' >= NextSession(h)
    BY <1>0
  <2>4. /\ since[u] \in Nat /\ used[u] \in Nat /\ session[h] \in Nat
        /\ session'[h] \in Nat /\ attached'[u] \in BOOLEAN
        /\ attached[u] \in BOOLEAN
    BY <1>1 DEF TypeOK
  <2>5. NextSession(h) \in Nat /\ NextSession(h)' \in Nat
    BY <2>4 DEF NextSession
  <2>6. since[u] <= NextSession(h)'
    BY <2>1, <2>2, <2>3, <2>4, <2>5 DEF LocalOK
  <2>7. QED
    BY <2>1, <2>2, <2>3, <2>4, <2>6 DEF LocalOK, SameLocals, NextSession
<1>3. CASE Respond(t)
  <2>1. /\ pc'[t] \in AtRest /\ attached'[t] = FALSE /\ attempt'[t] = 1
        /\ used'[t] = 0 /\ since'[t] = 0 /\ answer'[t] = 0
        /\ session'[host'[t]] \in Nat
    BY <1>1, <1>3, RespondFrame DEF TypeOK
  <2>2. LocalOK(t)'
    BY <2>1 DEF LocalOK, NextSession
  <2>3. QED BY <1>2, <2>2 DEF LocalInv
<1>4. CASE ~Respond(t)
  <2>1. pc'[t] \notin AtRest \cup {"lock"}
    BY <1>4
    DEF TaskStep, AnswerFromCache, StartDisconnect, NothingToDisconnect, Reuse,
        UnknownHost, AskPermit, GetPermit, ConnectOk, ConnectFailed, ExecuteOk,
        ExecuteRejected, ExecuteLost, ExecuteBroken, Disconnected, Finish, Goto,
        TypeOK, AtRest
  <2>2. /\ op' = op /\ host' = host /\ since' = since
        /\ \/ used'[t] = used[t]
           \/ used'[t] = session'[host[t]]
    BY <1>0, <1>4
    DEF TaskStep, AnswerFromCache, StartDisconnect, NothingToDisconnect, Reuse,
        UnknownHost, AskPermit, GetPermit, ConnectOk, ConnectFailed, ExecuteOk,
        ExecuteRejected, ExecuteLost, ExecuteBroken, Disconnected, TypeOK,
        deviceVars, localVars
  <2>3. /\ since[t] \in Nat /\ used[t] \in Nat /\ session[host[t]] \in Nat
        /\ session'[host[t]] \in Nat /\ LocalOK(t)
    BY <1>1 DEF TypeOK, LocalInv
  <2>4. LocalOK(t)'
    BY <1>0, <2>1, <2>2, <2>3 DEF LocalOK, NextSession
  <2>5. QED BY <1>2, <2>4 DEF LocalInv
<1>5. QED BY <1>3, <1>4

\* So does a step of a client, of shutdown or of the environment.
LEMMA LocalOtherStep ==
    ASSUME TypeOK, LocalInv, [Next]_vars, ~ \E t \in Tasks : TaskStep(t)
    PROVE  LocalInv'
<1>0. Closer \in Tasks /\ Clients \subseteq Tasks
  BY DEF Tasks
<1> SUFFICES ASSUME NEW u \in Tasks PROVE LocalOK(u)'
  BY DEF LocalInv
<1>1. /\ LocalOK(u) /\ host[u] \in Hosts
      /\ \A h \in Hosts : session[h] \in Nat /\ session[h] >= 0
  BY DEF LocalInv, TypeOK
<1>2. ASSUME NEW t \in Clients, Request(t)
      PROVE  LocalOK(u)'
  <2>1. ASSUME NEW h \in Hosts, NEW c \in Cmds, ReceiveExecute(t, h, c)
        PROVE  LocalOK(u)'
    <3>1. CASE u = t
      <4>1. /\ pc[t] = "idle" /\ pc'[t] \in {"lock", "done"}
            /\ op'[t] = "execute" /\ host'[t] = h /\ since'[t] = NextSession(h)
            /\ UNCHANGED <<session, connected, attempt, used>>
        BY <1>0, <2>1 DEF ReceiveExecute, Goto, TypeOK, deviceVars
      <4>2. attempt[t] = 1 /\ used[t] = 0
        BY <1>1, <3>1, <4>1 DEF LocalOK, AtRest, NextSession
      <4>3. QED BY <1>1, <3>1, <4>1, <4>2 DEF LocalOK, AtRest, NextSession
    <3>2. CASE u # t
      BY <1>0, <1>1, <2>1, <3>2
      DEF ReceiveExecute, Goto, TypeOK, deviceVars, LocalOK, NextSession
    <3>3. QED BY <3>1, <3>2
  <2>2. ASSUME NEW h \in Hosts, NEW r \in OtherRequests, ReceiveOther(t, h, r)
        PROVE  LocalOK(u)'
    <3>1. CASE u = t
      <4>1. /\ pc[t] = "idle" /\ pc'[t] = "lock"
            /\ host'[t] = h /\ since'[t] = NextSession(h)
            /\ UNCHANGED <<session, connected, attempt, used, attached>>
        BY <1>0, <2>2 DEF ReceiveOther, Goto, TypeOK, deviceVars, cacheVars
      <4>2. attempt[t] = 1 /\ used[t] = 0 /\ attached[t] = FALSE
        BY <1>1, <3>1, <4>1 DEF LocalOK, AtRest
      <4>3. QED BY <1>1, <3>1, <4>1, <4>2 DEF LocalOK, AtRest, NextSession
    <3>2. CASE u # t
      BY <1>0, <1>1, <2>2, <3>2
      DEF ReceiveOther, Goto, TypeOK, deviceVars, cacheVars, LocalOK, NextSession
    <3>3. QED BY <3>1, <3>2
  <2>3. QED BY <1>2, <2>1, <2>2 DEF Request
<1>3. ASSUME NEW t \in Clients, ClientLeaves(t) \/ CloseClient(t)
      PROVE  LocalOK(u)'
  BY <1>0, <1>1, <1>3
  DEF ClientLeaves, CloseClient, Goto, TypeOK, deviceVars, cacheVars, localVars,
      LocalOK, AtRest, NextSession
<1>4. CASE BeginShutdown \/ Snapshot \/ Stop
  BY <1>1, <1>4
  DEF BeginShutdown, Snapshot, Stop, deviceVars, cacheVars, localVars, LocalOK, NextSession
<1>5. ASSUME NEW h \in Hosts, CloseDevice(h)
      PROVE  LocalOK(u)'
  <2>1. CASE u = Closer
    BY <1>0, <1>1, <1>5, <2>1
    DEF CloseDevice, Goto, TypeOK, deviceVars, cacheVars, LocalOK, AtRest, NextSession
  <2>2. CASE u # Closer
    BY <1>0, <1>1, <1>5, <2>2
    DEF CloseDevice, Goto, TypeOK, deviceVars, cacheVars, LocalOK, NextSession
  <2>3. QED BY <2>1, <2>2
<1>6. CASE GiveUpWaiting
  BY <1>0, <1>1, <1>6
  DEF GiveUpWaiting, Goto, TypeOK, deviceVars, cacheVars, localVars, LocalOK,
      AtRest, NextSession
<1>7. CASE GiveUpDisconnect
  BY <1>0, <1>1, <1>7
  DEF GiveUpDisconnect, Goto, TypeOK, cacheVars, localVars, LocalOK, AtRest, NextSession
<1>8. CASE Environment
  BY <1>1, <1>8
  DEF Environment, SessionDies, StrayEnds, Expire, ExpireKept, deviceVars,
      cacheVars, localVars, LocalOK, NextSession
<1>9. CASE UNCHANGED vars
  BY <1>1, <1>9 DEF vars, deviceVars, cacheVars, localVars, LocalOK, NextSession
<1>10. QED
  BY <1>2, <1>3, <1>4, <1>5, <1>6, <1>7, <1>8, <1>9 DEF Next, ShutdownStep

\* The step that starts a second try finds a session newer than the one its
\* first try reported dead (_execute_command after _is_transport_failure).
LEMMA RetryStep ==
    ASSUME TypeOK, SessionInv, LocalInv, [Next]_vars, NEW t \in Tasks,
           pc[t] # "executing", pc'[t] = "executing", attempt'[t] = 2
    PROVE  used'[t] > used[t]
<1>1. PICK u \in Tasks : TaskStep(u)
  BY OtherFrame
<1>2. u = t
  BY <1>1, TaskFrame DEF SameLocals
<1>3. op[t] = "execute" /\ (Reuse(t) \/ ConnectOk(t))
  BY <1>1, <1>2
  DEF TaskStep, AnswerFromCache, StartDisconnect, NothingToDisconnect, Reuse,
      UnknownHost, AskPermit, GetPermit, ConnectOk, ConnectFailed, ExecuteOk,
      ExecuteRejected, ExecuteLost, ExecuteBroken, Disconnected, Respond,
      Finish, Goto, TypeOK
<1>4. LocalOK(t) /\ SessionOK(t)
  BY DEF LocalInv, SessionInv
<1>5. ~Reuse(t)
  <2>1. SUFFICES ASSUME Reuse(t) PROVE FALSE
    OBVIOUS
  <2>2. attempt[t] = 2 /\ host[t] \in connected /\ NeedsConnection(t)
    BY <2>1 DEF Reuse
  <2>3. pc[t] = "lock" \/ pc[t] = "obtain"
    BY <2>2 DEF NeedsConnection, Granted
  <2>4. QED BY <1>4, <2>2, <2>3 DEF LocalOK, SessionOK
<1>6. used'[t] = session[host[t]] + 1
  BY <1>3, <1>5 DEF ConnectOk, TypeOK
<1>7. used[t] \in Nat /\ session[host[t]] \in Nat
  BY DEF TypeOK
<1>8. QED BY <1>4, <1>6, <1>7 DEF LocalOK

(* The second try of a command runs on a session that was opened after the  *)
(* one its first try reported dead.                                        *)
THEOREM RetryFresh == Spec => RetryOnFreshSession
<1> DEFINE I == TypeOK /\ LockInv /\ SessionInv /\ LocalInv
<1>1. Init => I
  BY IInit DEF IInv
<1>2. I /\ [Next]_vars => I'
  BY TaskStepType, OtherStepType, LockTaskStep, LockOtherStep, SessionTaskStep,
     SessionOtherStep, LocalTaskStep, LocalOtherStep
<1>3. I /\ [Next]_vars =>
        [\A t \in Tasks :
           (pc[t] # "executing" /\ pc'[t] = "executing" /\ attempt'[t] = 2) =>
               used'[t] > used[t]]_vars
  BY RetryStep
<1>4. QED BY <1>1, <1>2, <1>3, PTL DEF Spec, RetryOnFreshSession

\* The closer only works while shutdown drains, and no client socket is open
\* by then: every step keeps it so.
LEMMA ShutdownStepInv ==
    ASSUME TypeOK, ShutdownInv, [Next]_vars
    PROVE  ShutdownInv'
<1>0. Closer \in Tasks /\ Clients \subseteq Tasks /\ Closer \notin Clients
  BY TasksAssumption DEF Tasks
<1>1. ASSUME NEW t \in Tasks, TaskStep(t)
      PROVE  ShutdownInv'
  <2>1. /\ \A u \in Tasks \ {t} : SameLocals(u)
        /\ stray' = stray /\ open' = open /\ phase' = phase
    BY <1>1, TaskFrame DEF serverVars
  <2>2. CASE t # Closer
    BY <1>0, <2>1, <2>2 DEF SameLocals, ShutdownInv
  <2>3. CASE t = Closer
    <3>1. pc[Closer] # "idle"
      BY <1>1, <2>3
      DEF TaskStep, AnswerFromCache, StartDisconnect, NothingToDisconnect,
          Reuse, UnknownHost, AskPermit, GetPermit, ConnectOk, ConnectFailed,
          ExecuteOk, ExecuteRejected, ExecuteLost, ExecuteBroken, Disconnected,
          Respond, NeedsConnection, Granted
    <3>2. op'[Closer] = op[Closer] \/ op'[Closer] = "disconnect"
      BY <1>0, <1>1, <2>3
      DEF TaskStep, AnswerFromCache, StartDisconnect, NothingToDisconnect,
          Reuse, UnknownHost, AskPermit, GetPermit, ConnectOk, ConnectFailed,
          ExecuteOk, ExecuteRejected, ExecuteLost, ExecuteBroken, Disconnected,
          Respond, localVars, TypeOK
    <3>3. QED BY <2>1, <3>1, <3>2 DEF ShutdownInv
  <2>4. QED BY <2>2, <2>3
<1>2. ASSUME NEW t \in Clients, Request(t)
      PROVE  ShutdownInv'
  <2>1. /\ stray' = stray /\ open' = open /\ phase' = phase
        /\ pc'[Closer] = pc[Closer] /\ op'[Closer] = op[Closer]
    <3>1. ASSUME NEW h \in Hosts, NEW c \in Cmds, ReceiveExecute(t, h, c)
          PROVE  <2>1!:
      BY <1>0, <3>1 DEF ReceiveExecute, Goto, TypeOK, deviceVars
    <3>2. ASSUME NEW h \in Hosts, NEW r \in OtherRequests,
                 ReceiveOther(t, h, r)
          PROVE  <2>1!:
      BY <1>0, <3>2 DEF ReceiveOther, Goto, TypeOK, deviceVars
    <3>3. QED BY <1>2, <3>1, <3>2 DEF Request
  <2>2. QED BY <2>1 DEF ShutdownInv
<1>3. ASSUME NEW t \in Clients, ClientLeaves(t) \/ CloseClient(t)
      PROVE  ShutdownInv'
  BY <1>0, <1>3
  DEF ClientLeaves, CloseClient, Goto, TypeOK, deviceVars, localVars,
      ShutdownInv
<1>4. CASE BeginShutdown \/ Snapshot \/ Stop
  BY <1>4
  DEF BeginShutdown, Snapshot, Stop, deviceVars, localVars, ShutdownInv
<1>5. ASSUME NEW h \in Hosts, CloseDevice(h)
      PROVE  ShutdownInv'
  BY <1>5 DEF CloseDevice, deviceVars, ShutdownInv
<1>6. CASE GiveUpWaiting
  BY <1>6 DEF GiveUpWaiting, deviceVars, localVars, serverVars, ShutdownInv
<1>7. CASE GiveUpDisconnect
  BY <1>7 DEF GiveUpDisconnect, localVars, serverVars, ShutdownInv
<1>8. CASE Environment
  BY <1>8
  DEF Environment, SessionDies, StrayEnds, Expire, ExpireKept, deviceVars,
      localVars, serverVars, TypeOK, ShutdownInv
<1>9. CASE UNCHANGED vars
  BY <1>9 DEF vars, deviceVars, localVars, serverVars, ShutdownInv
<1>10. QED
  BY <1>1, <1>2, <1>3, <1>4, <1>5, <1>6, <1>7, <1>8, <1>9
  DEF Next, ShutdownStep

\* A step of a task keeps the caches in line with the sessions: a session that
\* is torn down takes the cache of its device along.
LEMMA CacheTaskStep ==
    ASSUME TypeOK, SessionInv, CacheMatchesSession, NEW t \in Tasks, TaskStep(t)
    PROVE  CacheMatchesSession'
<1> DEFINE Fits(h, c) ==
        cached[h][c] \in (IF h \in connected THEN {0, session[h]} ELSE {0})
<1>0. /\ host[t] \in Hosts /\ cmd[t] \in Cmds /\ SessionOK(t)
      /\ stray' = stray /\ \A h \in Hosts \ {host[t]} : SameDevice(h)
  BY TaskFrame DEF SessionInv, TypeOK
<1> SUFFICES ASSUME NEW h \in Hosts, NEW c \in Cmds, stray[h] = "none"
             PROVE  Fits(h, c)'
  BY <1>0 DEF CacheMatchesSession
<1>1. Fits(h, c)
  BY DEF CacheMatchesSession
<1>2. CASE h # host[t]
  BY <1>0, <1>1, <1>2 DEF SameDevice
<1>3. CASE h = host[t] /\ ConnectOk(t)
  <2>1. h \notin connected /\ cached' = cached /\ h \in connected'
    BY <1>0, <1>3 DEF ConnectOk, SessionOK, cacheVars
  <2>2. QED BY <1>1, <2>1
<1>4. CASE h = host[t] /\ ExecuteOk(t)
  <2>1. /\ cached' = [cached EXCEPT ![h][cmd[t]] = session[h]]
        /\ connected' = connected /\ session' = session /\ h \in connected
    BY <1>0, <1>4 DEF ExecuteOk, SessionOK, deviceVars
  <2>2. cached'[h][c] = cached[h][c] \/ cached'[h][c] = session[h]
    BY <1>0, <1>4, <2>1 DEF TypeOK
  <2>3. QED BY <1>1, <2>1, <2>2
<1>5. CASE h = host[t] /\ (NothingToDisconnect(t) \/ Disconnected(t))
  <2>1. cached' = [cached EXCEPT ![h] = Empty]
    BY <1>5 DEF NothingToDisconnect, Disconnected, DropCache
  <2>2. cached'[h][c] = 0
    BY <2>1 DEF Empty, TypeOK
  <2>3. QED BY <2>2
<1>6. CASE ~ (ConnectOk(t) \/ ExecuteOk(t) \/ NothingToDisconnect(t)
                \/ Disconnected(t))
  <2>1. cached' = cached /\ connected' = connected /\ session' = session
    BY <1>6
    DEF TaskStep, AnswerFromCache, StartDisconnect, Reuse, UnknownHost,
        AskPermit, GetPermit, ConnectFailed, ExecuteRejected, ExecuteLost,
        ExecuteBroken, Respond, deviceVars, cacheVars
  <2>2. QED BY <1>1, <2>1
<1>7. QED BY <1>2, <1>3, <1>4, <1>5, <1>6

\* So does a step that is not a task's, save the disconnect shutdown gave up
\* on, which CacheMatchesSession excepts.
LEMMA CacheOtherStep ==
    ASSUME TypeOK, CacheMatchesSession, [Next]_vars,
           ~ \E t \in Tasks : TaskStep(t)
    PROVE  CacheMatchesSession'
<1>1. ASSUME NEW h \in Hosts, NEW c \in Cmds, Expire(h, c)
      PROVE  CacheMatchesSession'
  <2>1. /\ cached' = [cached EXCEPT ![h][c] = 0]
        /\ connected' = connected /\ session' = session /\ stray' = stray
    BY <1>1 DEF Expire, deviceVars
  <2>2. \A g \in Hosts, d \in Cmds :
            cached'[g][d] = cached[g][d] \/ cached'[g][d] = 0
    BY <2>1 DEF TypeOK
  <2>3. QED BY <2>1, <2>2 DEF CacheMatchesSession
<1>2. CASE GiveUpDisconnect
  <2>1. /\ cached' = cached /\ session' = session
        /\ connected' = connected \ {host[Closer]}
        /\ stray' = [stray EXCEPT ![host[Closer]] = "running"]
        /\ host[Closer] \in Hosts
    BY <1>2 DEF GiveUpDisconnect, cacheVars, TypeOK, Tasks
  <2>2. QED BY <2>1 DEF CacheMatchesSession, TypeOK
<1>3. CASE \E h \in Hosts : StrayEnds(h)
  BY <1>3 DEF StrayEnds, cacheVars, CacheMatchesSession, TypeOK
<1>4. CASE ~ \/ GiveUpDisconnect
             \/ \E h \in Hosts : StrayEnds(h)
             \/ \E h \in Hosts, c \in Cmds : Expire(h, c)
  <2>1. UNCHANGED <<cached, connected, session, stray>>
    BY <1>4
    DEF Next, Request, ReceiveExecute, ReceiveOther, ClientLeaves, ShutdownStep,
        BeginShutdown, CloseClient, Snapshot, CloseDevice, Stop, GiveUpWaiting,
        Environment, SessionDies, ExpireKept, vars, deviceVars, cacheVars
  <2>2. QED BY <2>1 DEF CacheMatchesSession
<1>5. QED BY <1>1, <1>2, <1>3, <1>4

(* The caches only hold what the present session of a device produced.      *)
THEOREM CacheFreshness == Spec => []CacheMatchesSession
<1> DEFINE I == TypeOK /\ LockInv /\ SessionInv /\ CacheMatchesSession
<1>1. Init => I
  BY IInit DEF IInv
<1>2. I /\ [Next]_vars => I'
  BY TaskStepType, OtherStepType, LockTaskStep, LockOtherStep, SessionTaskStep,
     SessionOtherStep, CacheTaskStep, CacheOtherStep
<1>3. QED BY <1>1, <1>2, PTL DEF Spec
-----------------------------------------------------------------------------
(* What a request finds in the cache and is answered with.                  *)

\* Dropping a cache does not change what the tasks that looked it up find.
LEMMA DropKeepsFound ==
    ASSUME TypeOK, NEW h \in Hosts, DropCache(h), NEW u \in Tasks,
           host'[u] = host[u], cmd'[u] = cmd[u]
    PROVE  Found(u)' = Found(u)
BY DEF DropCache, Found, TypeOK

\* A step of a task makes no answer, and no cache object a request will look
\* into, older than the request.
LEMMA AgeTaskStep ==
    ASSUME TypeOK, SessionInv, LocalInv, AgeInv, NEW t \in Tasks, TaskStep(t)
    PROVE  AgeInv'
<1>0. /\ host[t] \in Hosts /\ cmd[t] \in Cmds
      /\ \A u \in Tasks \ {t} : SameLocals(u)
  BY TaskFrame DEF TypeOK
<1>1. ASSUME NEW u \in Tasks \ {t}
      PROVE  AgeOK(u)'
  <2>1. /\ SameLocals(u) /\ AgeOK(u) /\ LocalOK(u) /\ host[u] \in Hosts
        /\ since[u] \in Nat /\ session[host[u]] \in Nat /\ Found(u) \in Nat
    BY <1>0, FoundType DEF AgeInv, LocalInv, TypeOK
  <2>2. \/ Found(u)' = Found(u)
        \/ Found(u)' = session[host[u]] /\ host[u] \in connected
    <3>1. CASE NothingToDisconnect(t) \/ Disconnected(t)
      <4>1. DropCache(host[t])
        BY <3>1 DEF NothingToDisconnect, Disconnected
      <4>2. QED BY <1>0, <2>1, <4>1, DropKeepsFound DEF SameLocals
    <3>2. CASE ExecuteOk(t)
      <4>1. /\ cached' = [cached EXCEPT ![host[t]][cmd[t]] = session[host[t]]]
            /\ attached' = attached /\ kept' = kept
            /\ host[t] \in connected
        BY <3>2 DEF ExecuteOk, SessionInv, SessionOK
      <4>2. CASE host[u] = host[t] /\ cmd[u] = cmd[t]
        BY <1>0, <2>1, <4>1, <4>2 DEF SameLocals, Found, TypeOK
      <4>3. CASE ~ (host[u] = host[t] /\ cmd[u] = cmd[t])
        <5>1. cached'[host[u]][cmd[u]] = cached[host[u]][cmd[u]]
          BY <1>0, <2>1, <4>1, <4>3 DEF TypeOK
        <5>2. QED BY <2>1, <4>1, <5>1 DEF SameLocals, Found
      <4>4. QED BY <4>2, <4>3
    <3>3. CASE ~ (NothingToDisconnect(t) \/ Disconnected(t) \/ ExecuteOk(t))
      <4>1. /\ cached' = cached /\ attached'[u] = attached[u]
            /\ kept'[u] = kept[u]
        BY <3>3, RespondFrame
        DEF TaskStep, AnswerFromCache, StartDisconnect, Reuse, UnknownHost,
            AskPermit, GetPermit, ConnectOk, ConnectFailed, ExecuteRejected,
            ExecuteLost, ExecuteBroken, cacheVars
      <4>2. QED BY <2>1, <4>1 DEF SameLocals, Found
    <3>4. QED BY <3>1, <3>2, <3>3
  <2>3. QED BY <2>1, <2>2 DEF AgeOK, LocalOK, SameLocals, NextSession
<1>2. AgeOK(t)'
  <2>1. /\ AgeOK(t) /\ LocalOK(t) /\ since[t] \in Nat
        /\ session[host[t]] \in Nat /\ Found(t) \in Nat
    BY <1>0, FoundType DEF AgeInv, LocalInv, TypeOK
  <2>2. CASE Respond(t)
    BY <2>2, RespondFrame DEF AgeOK, AtRest
  <2>3. CASE ~Respond(t)
    <3>1. pc'[t] # "lock" /\ since' = since
      BY <2>3
      DEF TaskStep, AnswerFromCache, StartDisconnect, NothingToDisconnect,
          Reuse, UnknownHost, AskPermit, GetPermit, ConnectOk, ConnectFailed,
          ExecuteOk, ExecuteRejected, ExecuteLost, ExecuteBroken, Disconnected,
          Finish, Goto, TypeOK, localVars
    <3>2. \/ answer'[t] = answer[t]
          \/ answer'[t] = 0
          \/ answer'[t] = session[host[t]] /\ host[t] \in connected
          \/ answer'[t] = Found(t) /\ pc[t] = "lock" /\ op[t] = "execute"
      BY <2>3
      DEF SessionInv, SessionOK, TaskStep, AnswerFromCache, StartDisconnect, NothingToDisconnect,
          Reuse, UnknownHost, AskPermit, GetPermit, ConnectOk, ConnectFailed,
          ExecuteOk, ExecuteRejected, ExecuteLost, ExecuteBroken, Disconnected,
          Granted, Finish, TypeOK
    <3>3. QED BY <2>1, <3>1, <3>2 DEF AgeOK, LocalOK, NextSession
  <2>4. QED BY <2>2, <2>3
<1>3. QED BY <1>1, <1>2 DEF AgeInv

\* Nor does a request that arrives, shutdown or the environment.
LEMMA AgeOtherStep ==
    ASSUME TypeOK, LocalInv, ShutdownInv, CacheMatchesSession, AgeInv,
           [Next]_vars, ~ \E t \in Tasks : TaskStep(t)
    PROVE  AgeInv'
<1> SUFFICES ASSUME NEW u \in Tasks PROVE AgeOK(u)'
  BY DEF AgeInv
<1>0. /\ Closer \in Tasks /\ Clients \subseteq Tasks /\ Closer \notin Clients
      /\ AgeOK(u) /\ LocalOK(u) /\ host[u] \in Hosts /\ cmd[u] \in Cmds
      /\ since[u] \in Nat
  BY TasksAssumption DEF Tasks, AgeInv, LocalInv, TypeOK
\* Whatever leaves the locals of u and what it finds alone.
<1>1. ASSUME /\ pc'[u] = pc[u] \/ pc'[u] # "lock"
             /\ op'[u] = op[u] /\ since'[u] = since[u] /\ answer'[u] = answer[u]
             /\ Found(u)' = Found(u) \/ Found(u)' = 0
      PROVE  AgeOK(u)'
  BY <1>0, <1>1 DEF AgeOK
<1>2. ASSUME NEW t \in Clients, NEW h \in Hosts, NEW c \in Cmds,
             ReceiveExecute(t, h, c)
      PROVE  AgeOK(u)'
  <2>1. CASE u = t
    <3>1. /\ since'[u] = NextSession(h) /\ answer'[u] = cached[h][c]
          /\ cached' = cached /\ attached'[u] = TRUE
          /\ host'[u] = h /\ cmd'[u] = c
      BY <1>0, <1>2, <2>1 DEF ReceiveExecute, TypeOK
    <3>2. stray[h] = "none"
      BY <1>2 DEF ReceiveExecute, ShutdownInv
    <3>3. cached[h][c] \in {0, NextSession(h)} /\ NextSession(h) \in Nat
      <4>1. cached[h][c] \in (IF h \in connected THEN {0, session[h]} ELSE {0})
        BY <3>2 DEF CacheMatchesSession
      <4>2. session[h] \in Nat
        BY DEF TypeOK
      <4>3. QED BY <4>1, <4>2 DEF NextSession
    <3>4. Found(u)' = cached[h][c]
      BY <3>1 DEF Found
    <3>5. QED BY <3>1, <3>3, <3>4 DEF AgeOK
  <2>2. CASE u # t
    <3>1. /\ pc'[u] = pc[u] /\ op'[u] = op[u] /\ since'[u] = since[u]
          /\ answer'[u] = answer[u] /\ host'[u] = host[u] /\ cmd'[u] = cmd[u]
          /\ attached'[u] = attached[u] /\ kept' = kept /\ cached' = cached
      BY <1>0, <1>2, <2>2 DEF ReceiveExecute, Goto, TypeOK
    <3>2. QED BY <1>1, <3>1 DEF Found
  <2>3. QED BY <2>1, <2>2
<1>3. ASSUME NEW t \in Clients, NEW h \in Hosts, NEW r \in OtherRequests,
             ReceiveOther(t, h, r)
      PROVE  AgeOK(u)'
  <2>1. CASE u = t
    <3>1. op'[u] = r /\ answer'[u] = answer[u] /\ pc[u] = "idle"
      BY <1>0, <1>3, <2>1 DEF ReceiveOther, TypeOK
    <3>2. answer[u] = 0 /\ r # "execute"
      BY <1>0, <3>1, RequestsAssumption DEF LocalOK, AtRest
    <3>3. QED BY <3>1, <3>2 DEF AgeOK
  <2>2. CASE u # t
    <3>1. /\ pc'[u] = pc[u] /\ op'[u] = op[u] /\ since'[u] = since[u]
          /\ answer'[u] = answer[u] /\ host'[u] = host[u] /\ cmd'[u] = cmd[u]
          /\ attached' = attached /\ kept' = kept /\ cached' = cached
      BY <1>0, <1>3, <2>2 DEF ReceiveOther, Goto, TypeOK, cacheVars
    <3>2. QED BY <1>1, <3>1 DEF Found
  <2>3. QED BY <2>1, <2>2
<1>4. CASE \/ \E t \in Clients : ClientLeaves(t) \/ CloseClient(t)
           \/ BeginShutdown \/ Snapshot \/ Stop
           \/ GiveUpWaiting \/ GiveUpDisconnect \/ UNCHANGED vars
           \/ \E h \in Hosts : SessionDies(h) \/ StrayEnds(h)
  <2>1. /\ UNCHANGED <<cacheVars, localVars, answer>>
        /\ pc'[u] = pc[u] \/ pc'[u] # "lock"
    BY <1>0, <1>4
    DEF ClientLeaves, CloseClient, BeginShutdown, Snapshot, Stop, GiveUpWaiting,
        GiveUpDisconnect, SessionDies, StrayEnds, Goto, TypeOK, vars
  <2>2. QED BY <1>1, <2>1 DEF cacheVars, localVars, Found
<1>5. ASSUME NEW h \in Hosts, CloseDevice(h)
      PROVE  AgeOK(u)'
  <2>1. /\ op' = op /\ since' = since /\ answer' = answer /\ cmd' = cmd
        /\ attached' = attached /\ kept' = kept /\ cached' = cached
    BY <1>5 DEF CloseDevice, cacheVars
  <2>2. CASE u = Closer
    BY <1>0, <2>1, <2>2 DEF ShutdownInv, AgeOK
  <2>3. CASE u # Closer
    <3>1. pc'[u] = pc[u] /\ host'[u] = host[u]
      BY <1>0, <1>5, <2>3 DEF CloseDevice, Goto, TypeOK
    <3>2. QED BY <1>1, <2>1, <3>1 DEF Found
  <2>4. QED BY <2>2, <2>3
<1>6. ASSUME NEW h \in Hosts, NEW c \in Cmds, Expire(h, c)
      PROVE  AgeOK(u)'
  <2>1. /\ UNCHANGED <<attached, kept, localVars, pc, answer>>
        /\ cached' = [cached EXCEPT ![h][c] = 0]
    BY <1>6 DEF Expire
  <2>2. \/ cached'[host[u]][cmd[u]] = cached[host[u]][cmd[u]]
        \/ cached'[host[u]][cmd[u]] = 0
    BY <1>0, <2>1 DEF TypeOK
  <2>3. QED BY <1>1, <2>1, <2>2 DEF localVars, Found
<1>7. ASSUME NEW t \in Tasks, ExpireKept(t)
      PROVE  AgeOK(u)'
  <2>1. /\ UNCHANGED <<attached, cached, localVars, pc, answer>>
        /\ kept'[u] = kept[u] \/ kept'[u] = 0
    BY <1>0, <1>7 DEF ExpireKept, TypeOK
  <2>2. QED BY <1>1, <2>1 DEF localVars, Found
<1>8. QED
  BY <1>2, <1>3, <1>4, <1>5, <1>6, <1>7
  DEF Next, ShutdownStep, Request, Environment

(* No answer is older than its request: a client never gets an output that  *)
(* a session produced which was gone before it asked.                      *)
THEOREM AnswerFreshness == Spec => []AnswerNotOlderThanRequest
<1> DEFINE I == /\ TypeOK /\ LockInv /\ SessionInv /\ LocalInv /\ ShutdownInv
                /\ CacheMatchesSession /\ AgeInv
<1>1. Init => I
  BY IInit DEF IInv
<1>2. I /\ [Next]_vars => I'
  BY TaskStepType, OtherStepType, LockTaskStep, LockOtherStep, SessionTaskStep,
     SessionOtherStep, LocalTaskStep, LocalOtherStep, ShutdownStepInv,
     CacheTaskStep, CacheOtherStep, AgeTaskStep, AgeOtherStep
<1>3. I => AnswerNotOlderThanRequest
  BY DEF AgeInv, AgeOK, AnswerNotOlderThanRequest
<1>4. QED BY <1>1, <1>2, <1>3, PTL DEF Spec
-----------------------------------------------------------------------------
(* No command is run that the cache could have answered.                    *)

\* A step of a task starts a command only after a miss, and fills the cache of
\* a device only while no other command runs there.
LEMMA MissTaskStep ==
    ASSUME TypeOK, LockInv, LocalInv, MissInv, NEW t \in Tasks, TaskStep(t)
    PROVE  MissInv'
<1> DEFINE Trying == {"obtain", "permit", "connecting", "executing"}
<1>0. /\ host[t] \in Hosts /\ cmd[t] \in Cmds
      /\ \A u \in Tasks \ {t} : SameLocals(u)
      /\ \A h \in Hosts \ {host[t]} : SameDevice(h)
      /\ \A u \in Tasks : attached'[u] => attached[u]
  BY TaskFrame, Monotone DEF TypeOK
<1>1. ASSUME NEW u \in Tasks \ {t}, pc'[u] \in Trying, attached'[u]
      PROVE  cached'[host'[u]][cmd'[u]] = 0
  <2>1. /\ pc[u] \in Trying /\ attached[u] /\ host'[u] = host[u]
        /\ cmd'[u] = cmd[u] /\ host[u] \in Hosts /\ MissOK(u)
    BY <1>0, <1>1 DEF SameLocals, MissInv, TypeOK
  <2>2. CASE Respond(t)
    BY <2>1, <2>2 DEF Respond, MissOK
  <2>3. CASE ~Respond(t)
    <3>1. host[u] # host[t]
      BY <2>1, <2>3, StepUnderLock, AloneOnDevice DEF Holding, Calling
    <3>2. QED BY <1>0, <2>1, <3>1 DEF SameDevice, MissOK
  <2>4. QED BY <2>2, <2>3
<1>2. ASSUME pc'[t] \in Trying, attached'[t]
      PROVE  cached'[host'[t]][cmd'[t]] = 0
  <2>1. attached[t] /\ LocalOK(t) /\ MissOK(t)
    BY <1>0, <1>2 DEF LocalInv, MissInv
  <2>2. CASE Reuse(t) \/ AskPermit(t) \/ GetPermit(t) \/ ConnectOk(t)
    <3>1. cached' = cached /\ host' = host /\ cmd' = cmd
      BY <2>2
      DEF Reuse, AskPermit, GetPermit, ConnectOk, cacheVars, localVars
    <3>2. pc[t] \in Trying \/ (op[t] = "execute" /\ Found(t) = 0)
      BY <2>1, <2>2
      DEF Reuse, AskPermit, GetPermit, ConnectOk, NeedsConnection, LocalOK
    <3>3. QED BY <2>1, <3>1, <3>2 DEF MissOK, Found
  <2>3. CASE Disconnected(t)
    BY <1>2, <2>3 DEF Disconnected, DropCache
  <2>4. CASE ~ (Reuse(t) \/ AskPermit(t) \/ GetPermit(t) \/ ConnectOk(t)
                  \/ Disconnected(t))
    BY <1>2, <2>4
    DEF TaskStep, AnswerFromCache, StartDisconnect, NothingToDisconnect,
        UnknownHost, ConnectFailed, ExecuteOk, ExecuteRejected, ExecuteLost,
        ExecuteBroken, Respond, Finish, Goto, TypeOK
  <2>5. QED BY <2>2, <2>3, <2>4
<1>3. QED BY <1>1, <1>2 DEF MissInv, MissOK

\* A step that is not a task's fills no cache: at most an output expires.
LEMMA MissOtherStep ==
    ASSUME TypeOK, MissInv, [Next]_vars, ~ \E t \in Tasks : TaskStep(t)
    PROVE  MissInv'
<1> DEFINE Trying == {"obtain", "permit", "connecting", "executing"}
<1> SUFFICES ASSUME NEW u \in Tasks, pc'[u] \in Trying, attached'[u]
             PROVE  cached'[host'[u]][cmd'[u]] = 0
  BY DEF MissInv, MissOK
<1>0. /\ pc'[u] = pc[u] /\ pc[u] # "idle" /\ host'[u] = host[u] /\ MissOK(u)
      /\ host[u] \in Hosts /\ cmd[u] \in Cmds
      /\ Closer \in Tasks /\ Clients \subseteq Tasks
  BY OtherFrame DEF MissInv, TypeOK, Tasks
<1>1. cmd'[u] = cmd[u] /\ attached'[u] = attached[u]
      /\ (cached' = cached \/ \E h \in Hosts, c \in Cmds : Expire(h, c))
  <2>1. ASSUME NEW t \in Clients, Request(t)
        PROVE  <1>1!:
    <3>1. u # t
      BY <1>0, <2>1 DEF Request, ReceiveExecute, ReceiveOther
    <3>2. ASSUME NEW h \in Hosts, NEW c \in Cmds, ReceiveExecute(t, h, c)
          PROVE  <1>1!:
      BY <1>0, <3>1, <3>2 DEF ReceiveExecute, TypeOK
    <3>3. ASSUME NEW h \in Hosts, NEW r \in OtherRequests,
                 ReceiveOther(t, h, r)
          PROVE  <1>1!:
      BY <3>3 DEF ReceiveOther, cacheVars
    <3>4. QED BY <2>1, <3>2, <3>3 DEF Request
  <2>2. CASE ~ \E t \in Clients : Request(t)
    BY <2>2
    DEF Next, ClientLeaves, ShutdownStep, BeginShutdown, CloseClient, Snapshot,
        CloseDevice, Stop, GiveUpWaiting, GiveUpDisconnect, Environment,
        SessionDies, StrayEnds, Expire, ExpireKept, vars, cacheVars, localVars
  <2>3. QED BY <2>1, <2>2
<1>2. cached[host[u]][cmd[u]] = 0
  BY <1>0, <1>1 DEF MissOK
<1>3. ASSUME NEW h \in Hosts, NEW c \in Cmds, Expire(h, c)
      PROVE  cached'[host[u]][cmd[u]] = 0
  <2>1. cached' = [cached EXCEPT ![h][c] = 0]
    BY <1>3 DEF Expire
  <2>2. QED BY <1>0, <1>2, <2>1 DEF TypeOK
<1>4. QED BY <1>0, <1>1, <1>2, <1>3

(* A command is only sent to a device when the cache its request looked up   *)
(* cannot answer it, unless that object is no longer the device's cache.    *)
THEOREM NoRedundancy == Spec => []NoRedundantExecution
<1> DEFINE I == TypeOK /\ LockInv /\ SessionInv /\ LocalInv /\ MissInv
<1>1. Init => I
  BY IInit DEF IInv
<1>2. I /\ [Next]_vars => I'
  BY TaskStepType, OtherStepType, LockTaskStep, LockOtherStep, SessionTaskStep,
     SessionOtherStep, LocalTaskStep, LocalOtherStep, MissTaskStep,
     MissOtherStep
<1>3. I => NoRedundantExecution
  BY DEF MissInv, MissOK, NoRedundantExecution
<1>4. QED BY <1>1, <1>2, <1>3, PTL DEF Spec
-----------------------------------------------------------------------------
(* The semaphore.                                                          *)

Connecting == {t \in Tasks : pc[t] = "connecting"}

\* The tasks inside device.connect() are finitely many, so they can be counted.
LEMMA ConnectingFinite ==
    IsFiniteSet(Connecting) /\ Cardinality(Connecting) \in Nat
<1>1. IsFiniteSet(Tasks)
  BY FiniteAssumption, FS_AddElement DEF Tasks
<1>2. Connecting \in SUBSET Tasks
  BY DEF Connecting
<1>3. QED BY <1>1, <1>2, FS_Subset, FS_CardinalityType

\* A step of a task moves a permit between the semaphore and a connect, or
\* leaves both alone.
LEMMA PermitTaskStep ==
    ASSUME TypeOK, PermitsConserved, NEW t \in Tasks, TaskStep(t)
    PROVE  PermitsConserved'
<1>0. /\ \A u \in Tasks \ {t} : pc'[u] = pc[u]
      /\ IsFiniteSet(Connecting) /\ Cardinality(Connecting) \in Nat
      /\ permits \in Nat /\ MaxConnections \in Nat
      /\ permits + Cardinality(Connecting) = MaxConnections
  BY TaskFrame, ConnectingFinite, LimitsAssumption
  DEF SameLocals, TypeOK, PermitsConserved, Connecting
<1> SUFFICES permits' + Cardinality(Connecting') = MaxConnections
  BY DEF PermitsConserved, Connecting
<1>1. CASE GetPermit(t)
  <2>1. pc[t] = "permit" /\ pc'[t] = "connecting" /\ permits' = permits - 1
    BY <1>1 DEF GetPermit, Goto, TypeOK
  <2>2. Connecting' = Connecting \cup {t} /\ t \notin Connecting
    BY <1>0, <2>1 DEF Connecting
  <2>3. Cardinality(Connecting') = Cardinality(Connecting) + 1
    BY <1>0, <2>2, FS_AddElement
  <2>4. QED BY <1>0, <2>1, <2>3
<1>2. CASE ConnectOk(t) \/ ConnectFailed(t)
  <2>1. pc[t] = "connecting" /\ pc'[t] # "connecting" /\ permits' = permits + 1
    BY <1>2 DEF ConnectOk, ConnectFailed, Finish, Goto, TypeOK
  <2>2. Connecting' = Connecting \ {t} /\ t \in Connecting
    BY <1>0, <2>1 DEF Connecting
  <2>3. Cardinality(Connecting') = Cardinality(Connecting) - 1
    BY <1>0, <2>2, FS_RemoveElement
  <2>4. QED BY <1>0, <2>1, <2>3
<1>3. CASE ~ (GetPermit(t) \/ ConnectOk(t) \/ ConnectFailed(t))
  <2>1. pc[t] # "connecting" /\ pc'[t] # "connecting" /\ permits' = permits
    BY <1>3
    DEF TaskStep, AnswerFromCache, StartDisconnect, NothingToDisconnect, Reuse,
        UnknownHost, AskPermit, ExecuteOk, ExecuteRejected, ExecuteLost,
        ExecuteBroken, Disconnected, Respond, NeedsConnection, Granted, Finish,
        Goto, TypeOK, permitVars
  <2>2. Connecting' = Connecting
    BY <1>0, <2>1 DEF Connecting
  <2>3. QED BY <1>0, <2>1, <2>2
<1>4. QED BY <1>1, <1>2, <1>3

\* A step that is not a task's touches no permit and no task that connects.
LEMMA PermitOtherStep ==
    ASSUME TypeOK, PermitsConserved, [Next]_vars,
           ~ \E t \in Tasks : TaskStep(t)
    PROVE  PermitsConserved'
<1>1. permits' = permits
  BY DEF Next, Request, ReceiveExecute, ReceiveOther, ClientLeaves, ShutdownStep,
         BeginShutdown, CloseClient, Snapshot, CloseDevice, Stop, GiveUpWaiting,
         GiveUpDisconnect, Environment, SessionDies, StrayEnds, Expire,
         ExpireKept, vars, permitVars
<1>2. ASSUME NEW t \in Tasks
      PROVE  pc[t] = "connecting" <=> pc'[t] = "connecting"
  <2>0. Closer \in Tasks /\ Clients \subseteq Tasks
    BY DEF Tasks
  <2>1. pc'[t] = "connecting" => pc[t] = "connecting"
    BY OtherFrame
  <2>2. ASSUME pc[t] = "connecting", pc'[t] # "connecting"
        PROVE  FALSE
    <3>1. ASSUME NEW u \in Clients, Request(u)
          PROVE  FALSE
      <4>1. ASSUME NEW h \in Hosts, NEW c \in Cmds, ReceiveExecute(u, h, c)
            PROVE  FALSE
        BY <2>0, <2>2, <4>1 DEF ReceiveExecute, Goto, TypeOK
      <4>2. ASSUME NEW h \in Hosts, NEW r \in OtherRequests,
                   ReceiveOther(u, h, r)
            PROVE  FALSE
        BY <2>0, <2>2, <4>2 DEF ReceiveOther, Goto, TypeOK
      <4>3. QED BY <3>1, <4>1, <4>2 DEF Request
    <3>2. ASSUME NEW u \in Clients, ClientLeaves(u) \/ CloseClient(u)
          PROVE  FALSE
      BY <2>0, <2>2, <3>2 DEF ClientLeaves, CloseClient, Goto, TypeOK
    <3>3. CASE GiveUpWaiting \/ GiveUpDisconnect
      BY <2>0, <2>2, <3>3 DEF GiveUpWaiting, GiveUpDisconnect, Goto, TypeOK
    <3>4. ASSUME NEW h \in Hosts, CloseDevice(h)
          PROVE  FALSE
      BY <2>0, <2>2, <3>4 DEF CloseDevice, Goto, TypeOK
    <3>5. CASE BeginShutdown \/ Snapshot \/ Stop \/ Environment
               \/ UNCHANGED vars
      BY <2>2, <3>5
      DEF BeginShutdown, Snapshot, Stop, Environment, SessionDies, StrayEnds,
          Expire, ExpireKept, vars
    <3>6. QED BY <3>1, <3>2, <3>3, <3>4, <3>5 DEF Next, ShutdownStep
  <2>3. QED BY <2>1, <2>2
<1>3. Connecting' = Connecting
  BY <1>2 DEF Connecting
<1>4. QED BY <1>1, <1>3 DEF PermitsConserved, Connecting

(* No path through a connect loses a permit of the semaphore or returns one  *)
(* twice, so connects never starve and never exceed max_connections.        *)
THEOREM PermitConservation == Spec => []PermitsConserved
<1> DEFINE I == TypeOK /\ PermitsConserved
<1>1. Init => I
  <2>1. ASSUME Init PROVE PermitsConserved
    <3>1. {t \in Tasks : pc[t] = "connecting"} = {} /\ permits = MaxConnections
      BY <2>1 DEF Init
    <3>2. QED
      BY <3>1, FS_EmptySet, LimitsAssumption DEF PermitsConserved
  <2>2. QED BY <2>1, IInit DEF IInv
<1>2. I /\ [Next]_vars => I'
  BY TaskStepType, OtherStepType, PermitTaskStep, PermitOtherStep
<1>3. QED BY <1>1, <1>2, PTL DEF Spec
-----------------------------------------------------------------------------
(* The broker implements DeviceSession.  The job of a device is the call of *)
(* its lock's owner, so two more facts are needed: who is named by a lock   *)
(* or its queue is at that device and waits, or works, there; and shutdown  *)
(* turns to each device once, so no device gets a second abandoned call.    *)

\* The owner of a lock works on its device or is about to; those queued wait
\* for it, once each, and own nothing there.
QueueOK(h) ==
    /\ owner[h] # NoTask =>
           host[owner[h]] = h /\ pc[owner[h]] \in Holding \cup {"lock"}
    /\ \A i \in 1 .. Len(waiters[h]) :
           /\ pc[waiters[h][i]] = "lock" /\ host[waiters[h][i]] = h
           /\ waiters[h][i] # owner[h]
           /\ \A j \in 1 .. Len(waiters[h]) :
                  waiters[h][i] = waiters[h][j] => i = j
QueueInv == \A h \in Hosts : QueueOK(h)

\* Only a device that shutdown has turned to, and left, has an abandoned call.
StrayInv ==
    /\ phase \in {"up", "closing"} => \A h \in Hosts : stray[h] = "none"
    /\ \A h \in todo : stray[h] = "none"
    /\ pc[Closer] \notin AtRest \cup {"done"} =>
           stray[host[Closer]] = "none" /\ host[Closer] \notin todo

\* What is in a queue is a task.
LEMMA WaiterType ==
    ASSUME TypeOK, NEW h \in Hosts
    PROVE  /\ waiters[h] \in Seq(Tasks) /\ Len(waiters[h]) \in Nat
           /\ \A i \in 1 .. Len(waiters[h]) : waiters[h][i] \in Tasks
<1>1. waiters[h] \in Seq(Tasks)
  BY DEF TypeOK
<1>2. QED BY <1>1, LenProperties, ElementOfSeq

\* A task at rest, or about to respond, is in no queue and owns no lock, so it
\* may change as it likes.
LEMMA QueueAway ==
    ASSUME TypeOK, QueueInv, NEW t \in Tasks,
           pc[t] \notin Holding \cup {"lock"}, UNCHANGED lockVars,
           \A u \in Tasks \ {t} : pc'[u] = pc[u] /\ host'[u] = host[u]
    PROVE  QueueInv'
<1> SUFFICES ASSUME NEW h \in Hosts PROVE QueueOK(h)'
  BY DEF QueueInv
<1>1. /\ QueueOK(h) /\ owner' = owner /\ waiters' = waiters
      /\ owner[h] \in Tasks \cup {NoTask}
  BY DEF QueueInv, lockVars, TypeOK
<1>2. owner[h] # NoTask => owner[h] \in Tasks \ {t}
  BY <1>1 DEF QueueOK
<1>3. ASSUME NEW i \in 1 .. Len(waiters[h])
      PROVE  waiters[h][i] \in Tasks \ {t}
  BY <1>1, WaiterType DEF QueueOK
<1>4. QED BY <1>1, <1>2, <1>3 DEF QueueOK

\* The owner of a lock goes on under it.
LEMMA QueueStay ==
    ASSUME TypeOK, QueueInv, NEW t \in Tasks, NEW label \in Holding,
           owner[host[t]] = t, UNCHANGED <<owner, waiters, host>>, Goto(t, label)
    PROVE  QueueInv'
<1> SUFFICES ASSUME NEW h \in Hosts PROVE QueueOK(h)'
  BY DEF QueueInv
<1>1. /\ QueueOK(h) /\ QueueOK(host[t]) /\ host[t] \in Hosts
      /\ owner[h] \in Tasks \cup {NoTask} /\ pc'[t] = label
      /\ \A u \in Tasks \ {t} : pc'[u] = pc[u]
  BY DEF QueueInv, TypeOK, Goto
<1>2. owner'[h] # NoTask =>
          host'[owner'[h]] = h /\ pc'[owner'[h]] \in Holding \cup {"lock"}
  BY <1>1 DEF QueueOK
<1>3. ASSUME NEW i \in 1 .. Len(waiters[h])
      PROVE  waiters[h][i] \in Tasks \ {t}
  <2>1. waiters[h][i] \in Tasks /\ host[waiters[h][i]] = h
        /\ waiters[h][i] # owner[h]
    BY <1>1, WaiterType DEF QueueOK
  <2>2. QED BY <2>1
<1>4. QED BY <1>1, <1>2, <1>3 DEF QueueOK

\* A request joins the queue of a lock, or takes it.
LEMMA QueueJoin ==
    ASSUME TypeOK, QueueInv, NEW t \in Tasks, NEW h \in Hosts, Lock(t, h),
           pc[t] = "idle", host' = [host EXCEPT ![t] = h], Goto(t, "lock")
    PROVE  QueueInv'
<1> SUFFICES ASSUME NEW g \in Hosts PROVE QueueOK(g)'
  BY DEF QueueInv
<1>1. /\ QueueOK(g) /\ owner[g] \in Tasks \cup {NoTask}
      /\ pc'[t] = "lock" /\ host'[t] = h
      /\ \A u \in Tasks \ {t} : pc'[u] = pc[u] /\ host'[u] = host[u]
  BY DEF QueueInv, TypeOK, Goto
<1>2. /\ owner[g] # NoTask => owner[g] \in Tasks \ {t}
      /\ \A i \in 1 .. Len(waiters[g]) : waiters[g][i] \in Tasks \ {t}
  BY <1>1, WaiterType DEF QueueOK, Holding, Calling
<1>3. CASE g # h
  <2>1. owner'[g] = owner[g] /\ waiters'[g] = waiters[g]
    BY <1>3 DEF Lock, TypeOK
  <2>2. QED BY <1>1, <1>2, <2>1 DEF QueueOK
<1>4. CASE g = h /\ owner[h] = NoTask
  <2>1. owner'[g] = t /\ waiters'[g] = waiters[g]
    BY <1>4 DEF Lock, TypeOK
  <2>2. QED BY <1>1, <1>2, <1>4, <2>1 DEF QueueOK
<1>5. CASE g = h /\ owner[h] # NoTask
  <2> DEFINE w == waiters[g]
             w2 == Append(w, t)
  <2>1. owner'[g] = owner[g] /\ waiters'[g] = w2
    BY <1>5 DEF Lock, TypeOK
  <2>2. w \in Seq(Tasks) /\ Len(w) \in Nat
    BY WaiterType
  <2>3. /\ Len(w2) = Len(w) + 1 /\ w2[Len(w) + 1] = t
        /\ \A i \in 1 .. Len(w) : w2[i] = w[i]
    BY <2>2, AppendProperties
  <2>4. \A i \in 1 .. Len(w2) :
            i = Len(w) + 1 \/ i \in 1 .. Len(w)
    BY <2>2, <2>3
  <2>5. \A i \in 1 .. Len(w) : w[i] # t
    BY <1>2
  <2>6. ASSUME NEW i \in 1 .. Len(w2)
        PROVE  /\ pc'[w2[i]] = "lock" /\ host'[w2[i]] = g
               /\ w2[i] # owner[g]
               /\ \A j \in 1 .. Len(w2) : w2[i] = w2[j] => i = j
    <3> HIDE DEF w2
    <3>1. CASE i = Len(w) + 1
      BY <1>1, <1>2, <1>5, <2>3, <2>4, <2>5, <3>1
    <3>2. CASE i \in 1 .. Len(w)
      <4>1. /\ pc[w[i]] = "lock" /\ host[w[i]] = g /\ w[i] # owner[g]
            /\ \A j \in 1 .. Len(w) : w[i] = w[j] => i = j
        BY <1>1, <3>2 DEF QueueOK
      <4>2. w2[i] = w[i] /\ w[i] \in Tasks \ {t}
        BY <1>2, <2>3, <3>2
      <4>3. ASSUME NEW j \in 1 .. Len(w2), w2[i] = w2[j]
            PROVE  i = j
        BY <2>3, <2>4, <4>1, <4>2, <4>3
      <4>4. QED BY <1>1, <4>1, <4>2, <4>3
    <3>3. QED BY <2>4, <3>1, <3>2
  <2>7. owner'[g] # NoTask =>
            host'[owner'[g]] = g /\ pc'[owner'[g]] \in Holding \cup {"lock"}
    BY <1>1, <1>2, <2>1 DEF QueueOK
  <2> HIDE DEF w2
  <2>8. QED BY <2>1, <2>6, <2>7 DEF QueueOK
<1>6. QED BY <1>3, <1>4, <1>5

\* A lock is released: its next owner is the head of its queue.
LEMMA QueueHandOver ==
    ASSUME TypeOK, QueueInv, NEW t \in Tasks, owner[host[t]] = t,
           Unlock(host[t]), host' = host, Goto(t, "done")
    PROVE  QueueInv'
<1> SUFFICES ASSUME NEW g \in Hosts PROVE QueueOK(g)'
  BY DEF QueueInv
<1>1. /\ QueueOK(g) /\ QueueOK(host[t]) /\ owner[g] \in Tasks \cup {NoTask}
      /\ host[t] \in Hosts
      /\ \A u \in Tasks \ {t} : pc'[u] = pc[u]
  BY DEF QueueInv, TypeOK, Goto
<1>2. \A i \in 1 .. Len(waiters[g]) : waiters[g][i] \in Tasks \ {t}
  <2>1. ASSUME NEW i \in 1 .. Len(waiters[g])
        PROVE  waiters[g][i] \in Tasks /\ waiters[g][i] # t
    BY <1>1, WaiterType DEF QueueOK
  <2>2. QED BY <2>1
<1>3. CASE g # host[t]
  <2>1. owner'[g] = owner[g] /\ waiters'[g] = waiters[g]
    BY <1>3 DEF Unlock, TypeOK
  <2>2. owner[g] # NoTask => owner[g] \in Tasks \ {t}
    BY <1>1, <1>3 DEF QueueOK
  <2>3. QED BY <1>1, <1>2, <2>1, <2>2 DEF QueueOK
<1>4. CASE g = host[t] /\ waiters[g] = <<>>
  <2>1. owner'[g] = NoTask /\ waiters'[g] = <<>>
    BY <1>4 DEF Unlock, TypeOK
  <2>2. QED BY <2>1 DEF QueueOK
<1>5. CASE g = host[t] /\ waiters[g] # <<>>
  <2> DEFINE w == waiters[g]
             w2 == Tail(w)
  <2>1. owner'[g] = Head(w) /\ waiters'[g] = w2
    BY <1>5 DEF Unlock, TypeOK
  <2>2. w \in Seq(Tasks) /\ Len(w) \in Nat
    BY WaiterType
  <2>3. /\ Head(w) = w[1] /\ Len(w) >= 1 /\ 1 \in 1 .. Len(w)
        /\ Len(w2) = Len(w) - 1
        /\ \A i \in 1 .. Len(w2) : w2[i] = w[i + 1] /\ i + 1 \in 1 .. Len(w)
    BY <1>5, <2>2, HeadTailProperties, EmptySeq, LenProperties
  <2>4. /\ pc'[w[1]] = "lock" /\ host'[w[1]] = g
        /\ w[1] \in Tasks
    BY <1>1, <1>2, <2>3 DEF QueueOK
  <2>5. ASSUME NEW i \in 1 .. Len(w2)
        PROVE  /\ pc'[w2[i]] = "lock" /\ host'[w2[i]] = g
               /\ w2[i] # w[1]
               /\ \A j \in 1 .. Len(w2) : w2[i] = w2[j] => i = j
    <3>1. /\ pc[w[i + 1]] = "lock" /\ host[w[i + 1]] = g
          /\ \A j \in 1 .. Len(w) : w[i + 1] = w[j] => i + 1 = j
      BY <1>1, <2>3 DEF QueueOK
    <3>2. w[i + 1] \in Tasks \ {t} /\ i + 1 # 1 /\ w2[i] = w[i + 1]
      BY <1>2, <2>3
    <3>3. ASSUME NEW j \in 1 .. Len(w2), w2[i] = w2[j]
          PROVE  i = j
      <4>1. w2[j] = w[j + 1] /\ j + 1 \in 1 .. Len(w)
        BY <2>3
      <4>2. i + 1 = j + 1
        BY <3>1, <3>2, <3>3, <4>1
      <4>3. QED BY <4>2
    <3>4. QED BY <1>1, <2>3, <3>1, <3>2, <3>3
  <2> HIDE DEF w2
  <2>6. QED BY <2>1, <2>3, <2>4, <2>5 DEF QueueOK
<1>6. QED BY <1>3, <1>4, <1>5

\* The k-th of the queue for the lock of h leaves it.
Leaves(h, k) ==
    waiters' = [waiters EXCEPT
        ![h] = SubSeq(@, 1, k - 1) \o SubSeq(@, k + 1, Len(@))]

\* A task that gives up waiting is then in no queue.
LEMMA QueueLeave ==
    ASSUME TypeOK, QueueInv, NEW t \in Tasks, NEW h \in Hosts, h = host[t],
           NEW k \in 1 .. Len(waiters[h]), waiters[h][k] = t, Leaves(h, k),
           UNCHANGED <<owner, host>>, Goto(t, "done")
    PROVE  QueueInv'
<1> SUFFICES ASSUME NEW g \in Hosts PROVE QueueOK(g)'
  BY DEF QueueInv
<1>1. /\ QueueOK(g) /\ QueueOK(h) /\ owner[g] \in Tasks \cup {NoTask}
      /\ \A u \in Tasks \ {t} : pc'[u] = pc[u]
  BY DEF QueueInv, TypeOK, Goto
<1>2. owner[g] # NoTask => owner[g] \in Tasks \ {t}
  <2>1. t # owner[h]
    BY <1>1 DEF QueueOK
  <2>2. QED BY <1>1, <2>1 DEF QueueOK
<1>a. owner'[g] # NoTask =>
          host'[owner'[g]] = g /\ pc'[owner'[g]] \in Holding \cup {"lock"}
  BY <1>1, <1>2 DEF QueueOK
<1>3. CASE g # h
  <2>1. owner'[g] = owner[g] /\ waiters'[g] = waiters[g]
    BY <1>3 DEF Leaves, TypeOK
  <2>2. ASSUME NEW i \in 1 .. Len(waiters[g])
        PROVE  waiters[g][i] \in Tasks \ {t}
    BY <1>1, <1>3, WaiterType DEF QueueOK
  <2>3. QED BY <1>1, <1>a, <2>1, <2>2 DEF QueueOK
<1>4. CASE g = h
  <2> DEFINE w == waiters[h]
             a == SubSeq(w, 1, k - 1)
             b == SubSeq(w, k + 1, Len(w))
             w2 == a \o b
             Old(i) == IF i < k THEN i ELSE i + 1
  <2>1. owner'[g] = owner[g] /\ waiters'[g] = w2
    BY <1>4 DEF Leaves, TypeOK
  <2>2. w \in Seq(Tasks) /\ Len(w) \in Nat /\ k \in 1 .. Len(w)
    BY WaiterType
  <2>3. /\ a \in Seq(Tasks) /\ Len(a) = k - 1
        /\ \A i \in 1 .. (k - 1) : a[i] = w[i]
    <3>1. 1 \in Int /\ k - 1 \in Int
      BY <2>2
    <3>2. \A i \in 1 .. (k - 1) : w[i] \in Tasks
      BY <2>2, WaiterType
    <3>3. QED BY <2>2, <3>1, <3>2, SubSeqProperties
  <2>4. /\ b \in Seq(Tasks) /\ Len(b) = Len(w) - k
        /\ \A i \in 1 .. (Len(w) - k) : b[i] = w[i + k]
    <3>1. \A i \in (k + 1) .. Len(w) : w[i] \in Tasks
      BY <2>2, WaiterType
    <3>2. QED BY <2>2, <3>1, SubSeqProperties
  <2>5. Len(w2) = Len(w) - 1
    <3> HIDE DEF a, b, w
    <3>1. Len(w2) = Len(a) + Len(b)
      BY <2>3, <2>4, ConcatProperties
    <3>2. QED BY <2>2, <2>3, <2>4, <3>1
  <2>6. ASSUME NEW i \in 1 .. Len(w2)
        PROVE  /\ w2[i] = w[Old(i)] /\ Old(i) \in 1 .. Len(w) /\ Old(i) # k
    <3> HIDE DEF a, b, w
    <3>1. CASE i < k
      <4>1. i \in 1 .. (k - 1) /\ i <= Len(a)
        BY <2>2, <2>3, <2>5, <3>1
      <4>2. w2[i] = a[i]
        BY <2>3, <2>4, <4>1, ConcatProperties
      <4>3. QED BY <2>2, <2>3, <3>1, <4>1, <4>2
    <3>2. CASE i >= k
      <4>1. i > Len(a) /\ i <= Len(a) + Len(b)
            /\ i - Len(a) \in 1 .. (Len(w) - k) /\ (i - Len(a)) + k = i + 1
        BY <2>2, <2>3, <2>4, <2>5, <3>2
      <4>2. w2[i] = b[i - Len(a)]
        BY <2>3, <2>4, <4>1, ConcatProperties
      <4>3. w2[i] = w[i + 1]
        BY <2>4, <4>1, <4>2
      <4>4. QED BY <2>2, <2>5, <3>2, <4>3
    <3>3. QED BY <2>2, <2>5, <3>1, <3>2
  <2>7. ASSUME NEW i \in 1 .. Len(w2)
        PROVE  /\ pc'[w2[i]] = "lock" /\ host'[w2[i]] = g
               /\ w2[i] # owner[g]
               /\ \A j \in 1 .. Len(w2) : w2[i] = w2[j] => i = j
    <3> DEFINE n == Old(i)
    <3>1. n \in 1 .. Len(w) /\ n # k /\ w2[i] = w[n]
      BY <2>6
    <3>2. /\ pc[w[n]] = "lock" /\ host[w[n]] = h /\ w[n] # owner[h]
          /\ \A j \in 1 .. Len(w) : w[n] = w[j] => n = j
      BY <1>1, <3>1 DEF QueueOK
    <3>3. w[n] \in Tasks /\ w[n] # t
      BY <2>2, <3>1, <3>2, WaiterType
    <3>4. ASSUME NEW j \in 1 .. Len(w2), w2[i] = w2[j]
          PROVE  i = j
      <4>1. w2[j] = w[Old(j)] /\ Old(j) \in 1 .. Len(w)
        BY <2>6
      <4>2. n = Old(j)
        BY <3>1, <3>2, <3>4, <4>1
      <4>3. i \in Int /\ j \in Int /\ k \in Int
        BY <2>2, <2>5
      <4> HIDE DEF w2
      <4>4. QED BY <4>2, <4>3
    <3>5. QED BY <1>1, <1>4, <3>1, <3>2, <3>3, <3>4
  <2> HIDE DEF w2
  <2>8. QED BY <1>a, <2>1, <2>7 DEF QueueOK
<1>5. QED BY <1>3, <1>4

\* A step of a task keeps the queues.
LEMMA QueueTaskStep ==
    ASSUME TypeOK, LockInv, QueueInv, NEW t \in Tasks, TaskStep(t)
    PROVE  QueueInv'
<1> USE DEF Holding, Calling
<1>1. CASE Respond(t)
  <2>1. \A u \in Tasks \ {t} : pc'[u] = pc[u] /\ host'[u] = host[u]
    BY <1>1, TaskFrame DEF SameLocals
  <2>2. pc[t] = "done" /\ UNCHANGED lockVars
    BY <1>1 DEF Respond
  <2>3. QED BY <2>1, <2>2, QueueAway
<1>2. CASE ~Respond(t)
  <2>1. owner[host[t]] = t
    BY <1>2, StepUnderLock
  <2>2. ASSUME NEW o, Finish(t, o), host' = host
        PROVE  QueueInv'
    <3>1. Unlock(host[t]) /\ Goto(t, "done")
      BY <2>2 DEF Finish
    <3>2. QED BY <2>1, <2>2, <3>1, QueueHandOver
  <2>3. CASE \/ AnswerFromCache(t) \/ NothingToDisconnect(t) \/ UnknownHost(t)
             \/ ConnectFailed(t) \/ ExecuteOk(t) \/ ExecuteRejected(t)
    BY <2>2, <2>3
    DEF AnswerFromCache, NothingToDisconnect, UnknownHost, ConnectFailed,
        ExecuteOk, ExecuteRejected, localVars
  <2>4. CASE \/ StartDisconnect(t) \/ AskPermit(t) \/ GetPermit(t)
             \/ ExecuteLost(t) \/ ExecuteBroken(t)
    <3>1. /\ UNCHANGED <<owner, waiters, host>>
          /\ \E label \in Holding : Goto(t, label)
      BY <2>4
      DEF StartDisconnect, AskPermit, GetPermit, ExecuteLost, ExecuteBroken,
          lockVars, localVars
    <3>2. QED BY <2>1, <3>1, QueueStay
  <2>5. CASE Reuse(t) \/ ConnectOk(t)
    <3>1. CASE op[t] = "execute"
      <4>1. UNCHANGED <<owner, waiters, host>> /\ Goto(t, "executing")
        BY <2>5, <3>1 DEF Reuse, ConnectOk, lockVars
      <4>2. QED BY <2>1, <4>1, QueueStay
    <3>2. CASE op[t] # "execute"
      BY <2>2, <2>5, <3>2 DEF Reuse, ConnectOk
    <3>3. QED BY <3>1, <3>2
  <2>6. CASE Disconnected(t)
    <3>1. CASE pc[t] = "healing"
      <4>1. UNCHANGED <<owner, waiters, host>> /\ Goto(t, "obtain")
        BY <2>6, <3>1 DEF Disconnected, lockVars
      <4>2. QED BY <2>1, <4>1, QueueStay
    <3>2. CASE pc[t] # "healing"
      BY <2>2, <2>6, <3>2 DEF Disconnected
    <3>3. QED BY <3>1, <3>2
  <2>7. QED BY <1>2, <2>3, <2>4, <2>5, <2>6 DEF TaskStep
<1>3. QED BY <1>1, <1>2

\* So do the clients, shutdown, its timeouts and the environment.
LEMMA QueueOtherStep ==
    ASSUME TypeOK, LockInv, QueueInv, [Next]_vars,
           ~ \E t \in Tasks : TaskStep(t)
    PROVE  QueueInv'
<1>0. Closer \in Tasks /\ Clients \subseteq Tasks /\ host[Closer] \in Hosts
  BY DEF Tasks, TypeOK
<1>1. ASSUME NEW t \in Clients, NEW h \in Hosts, NEW c \in Cmds,
             ReceiveExecute(t, h, c)
      PROVE  QueueInv'
  <2>1. pc[t] = "idle" /\ host' = [host EXCEPT ![t] = h]
    BY <1>1 DEF ReceiveExecute
  <2>2. CASE cached[h][c] # 0
    <3>1. Goto(t, "done") /\ UNCHANGED lockVars
      BY <1>1, <2>2 DEF ReceiveExecute
    <3>2. \A u \in Tasks \ {t} : pc'[u] = pc[u] /\ host'[u] = host[u]
      BY <2>1, <3>1 DEF Goto, TypeOK
    <3>3. QED BY <1>0, <2>1, <3>1, <3>2, QueueAway DEF Holding, Calling
  <2>3. CASE cached[h][c] = 0
    <3>1. Goto(t, "lock") /\ Lock(t, h)
      BY <1>1, <2>3 DEF ReceiveExecute
    <3>2. QED BY <1>0, <2>1, <3>1, QueueJoin
  <2>4. QED BY <2>2, <2>3
<1>2. ASSUME NEW t \in Clients, NEW h \in Hosts, NEW r \in OtherRequests,
             ReceiveOther(t, h, r)
      PROVE  QueueInv'
  BY <1>0, <1>2, QueueJoin DEF ReceiveOther
<1>3. ASSUME NEW h \in Hosts, CloseDevice(h)
      PROVE  QueueInv'
  BY <1>0, <1>3, QueueJoin DEF CloseDevice
<1>4. ASSUME NEW t \in Clients, ClientLeaves(t) \/ CloseClient(t)
      PROVE  QueueInv'
  <2>1. UNCHANGED <<owner, waiters, host>> /\ UNCHANGED lockVars
    BY <1>4 DEF ClientLeaves, CloseClient, lockVars, localVars
  <2>2. CASE pc[t] = "idle"
    <3>1. Goto(t, "closed")
      BY <1>4, <2>2 DEF ClientLeaves, CloseClient
    <3>2. \A u \in Tasks \ {t} : pc'[u] = pc[u] /\ host'[u] = host[u]
      BY <2>1, <3>1 DEF Goto, TypeOK
    <3>3. QED BY <1>0, <2>1, <2>2, <3>2, QueueAway DEF Holding, Calling
  <2>3. CASE pc[t] # "idle"
    <3>1. pc' = pc
      BY <1>4, <2>3 DEF ClientLeaves, CloseClient
    <3>2. QED BY <2>1, <3>1 DEF QueueInv, QueueOK
  <2>4. QED BY <2>2, <2>3
<1>5. CASE BeginShutdown \/ Snapshot \/ Stop \/ Environment \/ UNCHANGED vars
  <2>1. UNCHANGED <<owner, waiters, host, pc>>
    BY <1>5
    DEF BeginShutdown, Snapshot, Stop, Environment, SessionDies, StrayEnds,
        Expire, ExpireKept, vars, lockVars, localVars
  <2>2. QED BY <2>1 DEF QueueInv, QueueOK
<1>6. CASE GiveUpWaiting
  <2>1. host' = host /\ Goto(Closer, "done")
    BY <1>6 DEF GiveUpWaiting, localVars
  <2>2. CASE owner[host[Closer]] = Closer
    <3>1. Unlock(host[Closer])
      BY <1>6, <2>2 DEF GiveUpWaiting
    <3>2. QED BY <1>0, <2>1, <2>2, <3>1, QueueHandOver
  <2>3. CASE owner[host[Closer]] # Closer
    <3>1. PICK h \in Hosts : h = host[Closer]
      BY <1>0
    <3>2. PICK k \in 1 .. Len(waiters[h]) :
              waiters[h][k] = Closer /\ Leaves(h, k)
      BY <1>6, <2>3, <3>1 DEF GiveUpWaiting, Leaves
    <3>3. owner' = owner
      BY <1>6, <2>3 DEF GiveUpWaiting
    <3>4. QED BY <1>0, <2>1, <3>1, <3>2, <3>3, QueueLeave
  <2>4. QED BY <2>2, <2>3
<1>7. CASE GiveUpDisconnect
  <2>1. /\ host' = host /\ Goto(Closer, "done") /\ Unlock(host[Closer])
        /\ pc[Closer] \in Holding
    BY <1>7 DEF GiveUpDisconnect, localVars, Holding, Calling
  <2>2. owner[host[Closer]] = Closer
    BY <1>0, <2>1, OwnerOf
  <2>3. QED BY <1>0, <2>1, <2>2, QueueHandOver
<1>8. QED
  BY <1>1, <1>2, <1>3, <1>4, <1>5, <1>6, <1>7 DEF Next, ShutdownStep, Request

\* A step of a task abandons no call, and moves the closer only away from the
\* device it turned to.
LEMMA StrayTaskStep ==
    ASSUME TypeOK, StrayInv, NEW t \in Tasks, TaskStep(t)
    PROVE  StrayInv'
<1>0. Closer \in Tasks /\ UNCHANGED <<stray, phase, todo>>
  BY TaskFrame DEF Tasks, serverVars
<1>1. CASE t = Closer
  <2>1. CASE Respond(t)
    <3>1. pc'[Closer] \in AtRest
      BY <1>0, <1>1, <2>1, RespondFrame
    <3>2. QED BY <1>0, <3>1 DEF StrayInv
  <2>2. CASE ~Respond(t)
    <3>1. host' = host /\ pc[t] \notin AtRest \cup {"done"}
      BY <2>2
      DEF TaskStep, AnswerFromCache, StartDisconnect, NothingToDisconnect,
          Reuse, UnknownHost, AskPermit, GetPermit, ConnectOk, ConnectFailed,
          ExecuteOk, ExecuteRejected, ExecuteLost, ExecuteBroken, Disconnected,
          NeedsConnection, Granted, localVars, AtRest
    <3>2. QED BY <1>0, <1>1, <3>1 DEF StrayInv
  <2>3. QED BY <2>1, <2>2
<1>2. CASE t # Closer
  <2>1. pc'[Closer] = pc[Closer] /\ host'[Closer] = host[Closer]
    BY <1>0, <1>2, TaskFrame DEF SameLocals
  <2>2. QED BY <1>0, <2>1 DEF StrayInv
<1>3. QED BY <1>1, <1>2

\* Shutdown abandons a call only on a device of its snapshot, which it has
\* taken off the list and does not return to.
LEMMA StrayOtherStep ==
    ASSUME TypeOK, ShutdownInv, StrayInv, [Next]_vars,
           ~ \E t \in Tasks : TaskStep(t)
    PROVE  StrayInv'
<1> USE DEF AtRest
<1>0. Closer \in Tasks /\ Clients \subseteq Tasks \ {Closer}
      /\ host[Closer] \in Hosts /\ todo \subseteq Hosts
  BY TasksAssumption DEF Tasks, TypeOK
<1>1. ASSUME NEW t \in Clients, Request(t) \/ ClientLeaves(t) \/ CloseClient(t)
      PROVE  StrayInv'
  <2>1. UNCHANGED <<stray, phase, todo>>
    BY <1>1
    DEF Request, ReceiveExecute, ReceiveOther, ClientLeaves, CloseClient,
        deviceVars
  <2>2. pc'[Closer] = pc[Closer] /\ host'[Closer] = host[Closer]
    <3>1. ASSUME NEW h \in Hosts, NEW c \in Cmds, ReceiveExecute(t, h, c)
          PROVE  <2>2!:
      BY <1>0, <3>1 DEF ReceiveExecute, Goto, TypeOK
    <3>2. ASSUME NEW h \in Hosts, NEW r \in OtherRequests,
                 ReceiveOther(t, h, r)
          PROVE  <2>2!:
      BY <1>0, <3>2 DEF ReceiveOther, Goto, TypeOK
    <3>3. CASE ClientLeaves(t) \/ CloseClient(t)
      BY <1>0, <3>3 DEF ClientLeaves, CloseClient, Goto, TypeOK, localVars
    <3>4. QED BY <1>1, <3>1, <3>2, <3>3 DEF Request
  <2>3. QED BY <2>1, <2>2 DEF StrayInv
<1>2. CASE BeginShutdown \/ Stop
  BY <1>2
  DEF BeginShutdown, Stop, StrayInv, deviceVars, localVars
<1>3. CASE Snapshot
  <2>1. /\ todo' = connected /\ phase' = "draining" /\ pc[Closer] = "idle"
        /\ UNCHANGED <<stray, pc>> /\ \A h \in Hosts : stray[h] = "none"
    BY <1>3 DEF Snapshot, ShutdownInv, StrayInv, deviceVars
  <2>2. QED BY <2>1 DEF StrayInv, TypeOK
<1>4. ASSUME NEW h \in Hosts, CloseDevice(h)
      PROVE  StrayInv'
  <2>1. /\ h \in todo /\ todo' = todo \ {h} /\ host'[Closer] = h
        /\ UNCHANGED <<stray, phase>> /\ phase = "draining"
    BY <1>0, <1>4 DEF CloseDevice, deviceVars, TypeOK
  <2>2. QED BY <2>1 DEF StrayInv
<1>5. CASE GiveUpWaiting
  <2>1. pc'[Closer] = "done" /\ UNCHANGED <<stray, phase, todo>>
    BY <1>0, <1>5 DEF GiveUpWaiting, Goto, TypeOK, deviceVars, serverVars
  <2>2. QED BY <2>1 DEF StrayInv
<1>6. CASE GiveUpDisconnect
  <2>1. /\ pc[Closer] = "disconnecting" /\ pc'[Closer] = "done"
        /\ stray' = [stray EXCEPT ![host[Closer]] = "running"]
        /\ UNCHANGED <<phase, todo>>
    BY <1>0, <1>6 DEF GiveUpDisconnect, Goto, TypeOK, serverVars
  <2>2. phase = "draining" /\ host[Closer] \notin todo
    BY <2>1 DEF ShutdownInv, StrayInv
  <2>3. \A h \in todo : stray'[h] = stray[h]
    BY <1>0, <2>1, <2>2 DEF TypeOK
  <2>4. QED BY <2>1, <2>2, <2>3 DEF StrayInv
<1>7. ASSUME NEW h \in Hosts, StrayEnds(h)
      PROVE  StrayInv'
  <2>1. /\ stray[h] = "running"
        /\ stray' = [stray EXCEPT ![h] = "ended"]
        /\ UNCHANGED <<phase, todo, pc, host>>
    BY <1>7 DEF StrayEnds, serverVars, localVars
  <2>2. \A g \in Hosts : stray[g] = "none" => stray'[g] = "none"
    BY <2>1 DEF TypeOK
  <2>3. phase \notin {"up", "closing"}
    BY <2>1 DEF StrayInv
  <2>4. QED BY <1>0, <2>1, <2>2, <2>3 DEF StrayInv
<1>8. CASE \/ \E h \in Hosts : SessionDies(h)
           \/ \E h \in Hosts, c \in Cmds : Expire(h, c)
           \/ \E t \in Tasks : ExpireKept(t)
           \/ UNCHANGED vars
  <2>1. UNCHANGED <<stray, phase, todo, pc, host>>
    BY <1>8
    DEF SessionDies, Expire, ExpireKept, vars, deviceVars, localVars, serverVars
  <2>2. QED BY <2>1 DEF StrayInv
<1>9. QED
  BY <1>1, <1>2, <1>3, <1>4, <1>5, <1>6, <1>7, <1>8
  DEF Next, ShutdownStep, Environment

\* What DeviceSpec sees of a device, but for its abandoned call: unchanged, or
\* changed the way one of its actions changes it.
SameSession(h) == (h \in connected') = (h \in connected) /\ session'[h] = session[h]
Unmoved(h) == JobOf(h)' = JobOf(h) /\ SameSession(h)
Moved(h) ==
    \/ Unmoved(h)
    \/ /\ JobOf(h) = "none" /\ h \notin connected
       /\ JobOf(h)' = "connect" /\ SameSession(h)
    \/ /\ JobOf(h) = "connect" /\ JobOf(h)' \in {"none", "execute"}
       /\ h \in connected' /\ session'[h] = session[h] + 1
    \/ /\ JobOf(h) = "connect" /\ JobOf(h)' = "none" /\ SameSession(h)
    \/ /\ JobOf(h) = "none" /\ h \in connected
       /\ JobOf(h)' \in {"execute", "disconnect"} /\ SameSession(h)
    \/ /\ JobOf(h) = "execute" /\ JobOf(h)' \in {"none", "disconnect"}
       /\ SameSession(h)
    \/ /\ JobOf(h) = "disconnect" /\ JobOf(h)' = "none"
       /\ h \notin connected' /\ session'[h] = session[h]

\* A step that moves one device and abandons nothing is a step of DeviceSpec.
LEMMA MoveIsStep ==
    ASSUME TypeOK, TypeOK', NEW h \in Hosts, Moved(h), UNCHANGED stray,
           \A g \in Hosts \ {h} : Unmoved(g)
    PROVE  [Device!Next]_Device!vars
<1> DEFINE job == [g \in Hosts |-> JobOf(g)]
           held == [g \in Hosts |-> g \in connected]
<1>1. /\ job' = [job EXCEPT ![h] = JobOf(h)']
      /\ job[h] = JobOf(h)
  BY DEF Unmoved
<1>2. held' = [held EXCEPT ![h] = (h \in connected')]
  <2>1. \A g \in Hosts \ {h} : (g \in connected') = (g \in connected)
    BY DEF Unmoved, SameSession
  <2>2. QED BY <2>1
<1>3. session' = [session EXCEPT ![h] = session'[h]]
  BY DEF Unmoved, SameSession, TypeOK
<1>4. (h \in connected') = (h \in connected) => held' = held
  BY <1>2
<1>5. session'[h] = session[h] => session' = session
  BY <1>3 DEF TypeOK
<1>6. held[h] = (h \in connected)
  OBVIOUS
<1>7. CASE Unmoved(h)
  <2>1. job' = job
    BY <1>1, <1>7 DEF Unmoved
  <2>2. QED BY <1>4, <1>5, <1>7, <2>1 DEF Unmoved, SameSession, Device!vars
<1> HIDE DEF job, held
<1>8. CASE /\ JobOf(h) = "none" /\ h \notin connected
           /\ JobOf(h)' = "connect" /\ SameSession(h)
  <2>1. Device!StartConnect(h)
    BY <1>1, <1>4, <1>5, <1>6, <1>8
    DEF SameSession, Device!StartConnect, job, held
  <2>2. QED BY <2>1 DEF Device!Next
<1>9. CASE /\ JobOf(h) = "connect" /\ JobOf(h)' \in {"none", "execute"}
           /\ h \in connected' /\ session'[h] = session[h] + 1
  <2>1. held' = [held EXCEPT ![h] = TRUE]
    BY <1>2, <1>9
  <2>2. Device!Connected(h)
    BY <1>1, <1>3, <1>9, <2>1 DEF Device!Connected, job, held
  <2>3. QED BY <2>2 DEF Device!Next
<1>10. CASE JobOf(h) = "connect" /\ JobOf(h)' = "none" /\ SameSession(h)
  <2>1. Device!ConnectFailed(h)
    BY <1>1, <1>4, <1>5, <1>10
    DEF SameSession, Device!ConnectFailed, job, held
  <2>2. QED BY <2>1 DEF Device!Next
<1>11. CASE /\ JobOf(h) = "none" /\ h \in connected
            /\ JobOf(h)' \in {"execute", "disconnect"} /\ SameSession(h)
  <2>1. Device!StartExecute(h) \/ Device!StartDisconnect(h)
    BY <1>1, <1>4, <1>5, <1>6, <1>11
    DEF SameSession, Device!StartExecute, Device!StartDisconnect, job, held
  <2>2. QED BY <2>1 DEF Device!Next
<1>12. CASE /\ JobOf(h) = "execute" /\ JobOf(h)' \in {"none", "disconnect"}
            /\ SameSession(h)
  <2>1. Device!EndExecute(h)
    BY <1>1, <1>4, <1>5, <1>12 DEF SameSession, Device!EndExecute, job, held
  <2>2. QED BY <2>1 DEF Device!Next
<1>13. CASE /\ JobOf(h) = "disconnect" /\ JobOf(h)' = "none"
            /\ h \notin connected' /\ session'[h] = session[h]
  <2>1. held' = [held EXCEPT ![h] = FALSE]
    <3>1. (h \in connected') = FALSE
      BY <1>13
    <3>2. QED BY <1>2, <3>1, Zenon
  <2>2. Device!Disconnected(h)
    BY <1>1, <1>5, <1>13, <2>1 DEF Device!Disconnected, job, held
  <2>3. QED BY <2>2 DEF Device!Next
<1>14. QED BY <1>7, <1>8, <1>9, <1>10, <1>11, <1>12, <1>13 DEF Moved

\* A step of one task changes the job of no device whose lock it neither has
\* nor changes.
LEMMA JobStays ==
    ASSUME TypeOK, NEW t \in Tasks, NEW g \in Hosts, NEW label, Goto(t, label),
           owner'[g] = owner[g], owner[g] # t
    PROVE  JobOf(g)' = JobOf(g)
<1>1. owner[g] \in Tasks \cup {NoTask}
  BY DEF TypeOK
<1>2. CASE owner[g] = NoTask
  BY <1>2 DEF JobOf
<1>3. CASE owner[g] # NoTask
  <2>1. pc'[owner[g]] = pc[owner[g]]
    BY <1>1, <1>3 DEF Goto, TypeOK
  <2>2. QED BY <2>1 DEF JobOf
<1>4. QED BY <1>2, <1>3

\* A task that keeps its lock: the job of its device is the call it makes.
LEMMA JobKept ==
    ASSUME TypeOK, QueueInv, NEW t \in Tasks, NEW label, NEW h \in Hosts,
           h = host[t], owner[h] = t, Goto(t, label), UNCHANGED owner
    PROVE  /\ JobOf(h) = CallOf(pc[t]) /\ JobOf(h)' = CallOf(label)
           /\ \A g \in Hosts \ {h} : JobOf(g)' = JobOf(g)
<1>1. t # NoTask /\ pc'[t] = label
  BY TasksAssumption DEF Goto, TypeOK
<1>2. JobOf(h) = CallOf(pc[t]) /\ JobOf(h)' = CallOf(label)
  BY <1>1 DEF JobOf
<1>3. ASSUME NEW g \in Hosts \ {h}
      PROVE  JobOf(g)' = JobOf(g)
  <2>1. owner[g] # t
    BY <1>1, <1>3 DEF QueueInv, QueueOK
  <2>2. QED BY <2>1, JobStays
<1>4. QED BY <1>2, <1>3

\* A task that is done with its device: nobody calls the device any more, for
\* the next owner of the lock has yet to take it up.
LEMMA JobFreed ==
    ASSUME TypeOK, QueueInv, NEW t \in Tasks, NEW h \in Hosts,
           h = host[t], owner[h] = t, Goto(t, "done"), Unlock(h)
    PROVE  /\ JobOf(h) = CallOf(pc[t]) /\ JobOf(h)' = "none"
           /\ \A g \in Hosts \ {h} : JobOf(g)' = JobOf(g)
<1>1. t # NoTask
  BY TasksAssumption
<1>2. JobOf(h) = CallOf(pc[t])
  BY <1>1 DEF JobOf
<1>3. JobOf(h)' = "none"
  <2>1. CASE waiters[h] = <<>>
    BY <2>1 DEF Unlock, JobOf, TypeOK
  <2>2. CASE waiters[h] # <<>>
    <3>1. owner'[h] = Head(waiters[h])
      BY <2>2 DEF Unlock, TypeOK
    <3>2. Head(waiters[h]) = waiters[h][1] /\ 1 \in 1 .. Len(waiters[h])
      BY <2>2, WaiterType, HeadTailProperties, EmptySeq
    <3>3. waiters[h][1] \in Tasks \ {t} /\ pc[waiters[h][1]] = "lock"
      BY <3>2, WaiterType DEF QueueInv, QueueOK
    <3>4. pc'[owner'[h]] = "lock"
      BY <3>1, <3>2, <3>3 DEF Goto, TypeOK
    <3>5. QED BY <3>4 DEF JobOf, CallOf
  <2>3. QED BY <2>1, <2>2
<1>4. ASSUME NEW g \in Hosts \ {h}
      PROVE  JobOf(g)' = JobOf(g)
  <2>1. owner[g] # t /\ owner'[g] = owner[g]
    BY <1>1, <1>4 DEF QueueInv, QueueOK, Unlock, TypeOK
  <2>2. QED BY <2>1, JobStays
<1>5. QED BY <1>2, <1>3, <1>4

\* Where DeviceSpec sees a call.
LEMMA Calls ==
    /\ \A l \in {"idle", "closed", "lock", "done", "obtain", "permit"} :
           CallOf(l) = "none"
    /\ CallOf("connecting") = "connect" /\ CallOf("executing") = "execute"
    /\ \A l \in {"healing", "failing", "disconnecting"} :
           CallOf(l) = "disconnect"
BY DEF CallOf

\* A step of a task is a step of DeviceSpec on the device of that task, or none.
LEMMA RefineTaskStep ==
    ASSUME TypeOK, TypeOK', LockInv, SessionInv, QueueInv,
           NEW t \in Tasks, TaskStep(t)
    PROVE  [Device!Next]_Device!vars
<1> USE DEF Holding, Calling
<1>1. PICK h \in Hosts : h = host[t]
  BY DEF TypeOK
<1>2. UNCHANGED stray /\ \A g \in Hosts \ {h} : SameSession(g)
  BY <1>1, TaskFrame DEF SameDevice, SameSession
<1>3. CASE Respond(t)
  <2>1. /\ pc[t] = "done" /\ UNCHANGED <<owner, connected, session>>
        /\ \E label : Goto(t, label)
    BY <1>3 DEF Respond, lockVars, deviceVars
  <2>2. ASSUME NEW g \in Hosts
        PROVE  owner[g] # t
    BY <2>1, TasksAssumption DEF QueueInv, QueueOK
  <2>3. \A g \in Hosts : Unmoved(g)
    BY <2>1, <2>2, JobStays DEF Unmoved, SameSession
  <2>4. QED BY <1>2, <2>3, MoveIsStep DEF Moved
<1>4. CASE ~Respond(t)
  <2>1. owner[h] = t
    BY <1>1, <1>4, StepUnderLock
  <2>2. ASSUME Moved(h), \A g \in Hosts \ {h} : JobOf(g)' = JobOf(g)
        PROVE  [Device!Next]_Device!vars
    BY <1>2, <2>2, MoveIsStep DEF Unmoved
  <2> DEFINE Ends == /\ JobOf(h) = CallOf(pc[t]) /\ JobOf(h)' = "none"
                     /\ \A g \in Hosts \ {h} : JobOf(g)' = JobOf(g)
             GoesTo(label) ==
                 /\ JobOf(h) = CallOf(pc[t]) /\ JobOf(h)' = CallOf(label)
                 /\ \A g \in Hosts \ {h} : JobOf(g)' = JobOf(g)
  <2>3. ASSUME NEW o, Finish(t, o)
        PROVE  Ends
    <3>1. Goto(t, "done") /\ Unlock(h)
      BY <1>1, <2>3 DEF Finish
    <3>2. QED BY <1>1, <2>1, <3>1, JobFreed
  <2>4. ASSUME NEW label, Goto(t, label), owner' = owner
        PROVE  GoesTo(label)
    BY <1>1, <2>1, <2>4, JobKept
  <2>5. ASSUME UNCHANGED deviceVars
        PROVE  SameSession(h)
    BY <2>5 DEF deviceVars, SameSession
  <2>6. NeedsConnection(t) => CallOf(pc[t]) = "none"
    BY Calls DEF NeedsConnection, Granted
  <2>7. CASE \/ AnswerFromCache(t) \/ NothingToDisconnect(t) \/ UnknownHost(t)
    <3>1. Ends /\ SameSession(h) /\ CallOf(pc[t]) = "none"
      BY <2>3, <2>5, <2>6, <2>7, Calls
      DEF AnswerFromCache, NothingToDisconnect, UnknownHost, Granted
    <3>2. QED BY <2>2, <3>1 DEF Moved, Unmoved
  <2>8. CASE ConnectFailed(t) \/ ExecuteOk(t) \/ ExecuteRejected(t)
    <3>1. /\ Ends /\ SameSession(h)
          /\ CallOf(pc[t]) = "connect" \/ CallOf(pc[t]) = "execute"
      BY <2>3, <2>5, <2>8, Calls DEF ConnectFailed, ExecuteOk, ExecuteRejected
    <3>2. QED BY <2>2, <3>1 DEF Moved
  <2>9. CASE StartDisconnect(t)
    <3>1. GoesTo("disconnecting") /\ SameSession(h) /\ h \in connected
          /\ CallOf(pc[t]) = "none"
      BY <1>1, <2>4, <2>5, <2>9, Calls DEF StartDisconnect, Granted, lockVars
    <3>2. QED BY <2>2, <3>1, Calls DEF Moved
  <2>10. CASE AskPermit(t)
    <3>1. GoesTo("permit") /\ SameSession(h) /\ CallOf(pc[t]) = "none"
      BY <2>4, <2>5, <2>6, <2>10 DEF AskPermit, lockVars
    <3>2. QED BY <2>2, <3>1, Calls DEF Moved, Unmoved
  <2>11. CASE GetPermit(t)
    <3>1. GoesTo("connecting") /\ SameSession(h) /\ CallOf(pc[t]) = "none"
      BY <2>4, <2>5, <2>11, Calls DEF GetPermit, lockVars
    <3>2. h \notin connected
      BY <1>1, <2>11 DEF GetPermit, SessionInv, SessionOK
    <3>3. QED BY <2>2, <3>1, <3>2, Calls DEF Moved
  <2>12. CASE ExecuteLost(t) \/ ExecuteBroken(t)
    <3>1. /\ SameSession(h) /\ CallOf(pc[t]) = "execute"
          /\ \E label \in {"healing", "failing"} : GoesTo(label)
      BY <2>4, <2>5, <2>12, Calls DEF ExecuteLost, ExecuteBroken, lockVars
    <3>2. JobOf(h)' = "disconnect"
      BY <3>1, Calls
    <3>3. QED BY <2>2, <3>1, <3>2 DEF Moved
  <2>13. CASE Reuse(t)
    <3>1. /\ SameSession(h) /\ CallOf(pc[t]) = "none" /\ h \in connected
          /\ Ends \/ GoesTo("executing")
      BY <1>1, <2>3, <2>4, <2>5, <2>6, <2>13 DEF Reuse, lockVars
    <3>2. QED BY <2>2, <3>1, Calls DEF Moved, Unmoved
  <2>14. CASE ConnectOk(t)
    <3>1. /\ CallOf(pc[t]) = "connect" /\ h \in connected'
          /\ Ends \/ GoesTo("executing")
      BY <1>1, <2>3, <2>4, <2>14, Calls DEF ConnectOk, lockVars
    <3>2. session'[h] = session[h] + 1
      BY <1>1, <2>14 DEF ConnectOk, TypeOK
    <3>3. QED BY <2>2, <3>1, <3>2, Calls DEF Moved
  <2>15. CASE Disconnected(t)
    <3>1. /\ CallOf(pc[t]) = "disconnect" /\ h \notin connected'
          /\ session'[h] = session[h]
          /\ Ends \/ GoesTo("obtain")
      BY <1>1, <2>3, <2>4, <2>15, Calls DEF Disconnected, lockVars
    <3>2. QED BY <2>2, <3>1, Calls DEF Moved
  <2>16. QED
    BY <1>4, <2>7, <2>8, <2>9, <2>10, <2>11, <2>12, <2>13, <2>14, <2>15
    DEF TaskStep
<1>5. QED BY <1>3, <1>4

\* A request that arrives, or shutdown turning to a device, may take its lock,
\* but calls nothing yet.
LEMMA JobJoined ==
    ASSUME TypeOK, QueueInv, NEW t \in Tasks, NEW h \in Hosts,
           pc[t] = "idle", Goto(t, "lock"), Lock(t, h)
    PROVE  \A g \in Hosts : JobOf(g)' = JobOf(g)
<1>1. t # NoTask /\ pc'[t] = "lock"
  BY TasksAssumption DEF Goto, TypeOK
<1>2. ASSUME NEW g \in Hosts
      PROVE  owner[g] # t
  BY <1>1 DEF QueueInv, QueueOK, Holding, Calling
<1>3. ASSUME NEW g \in Hosts
      PROVE  JobOf(g)' = JobOf(g)
  <2>1. CASE g = h /\ owner[h] = NoTask
    <3>1. owner'[g] = t
      BY <2>1 DEF Lock, TypeOK
    <3>2. JobOf(g)' = "none" /\ JobOf(g) = "none"
      BY <1>1, <2>1, <3>1 DEF JobOf, CallOf
    <3>3. QED BY <3>2
  <2>2. CASE g # h \/ owner[h] # NoTask
    <3>1. owner'[g] = owner[g]
      BY <2>2 DEF Lock, TypeOK
    <3>2. QED BY <1>2, <3>1, JobStays
  <2>3. QED BY <2>1, <2>2
<1>4. QED BY <1>3

\* Of the other steps DeviceSpec sees two: an abandoned disconnect that starts
\* to run on its own, and one that ends.
LEMMA RefineOtherStep ==
    ASSUME TypeOK, TypeOK', LockInv, ShutdownInv, QueueInv, StrayInv,
           [Next]_vars, ~ \E t \in Tasks : TaskStep(t)
    PROVE  [Device!Next]_Device!vars
<1> DEFINE job == [g \in Hosts |-> JobOf(g)]
           held == [g \in Hosts |-> g \in connected]
<1>0. Closer \in Tasks /\ Clients \subseteq Tasks
  BY DEF Tasks
<1>1. PICK d \in Hosts : d = host[Closer]
  BY <1>0 DEF TypeOK
<1>2. ASSUME UNCHANGED <<connected, session, stray>>,
             \A g \in Hosts : JobOf(g)' = JobOf(g)
      PROVE  [Device!Next]_Device!vars
  BY <1>2 DEF Device!vars
<1>3. ASSUME NEW t \in Clients, Request(t)
      PROVE  [Device!Next]_Device!vars
  <2>1. ASSUME NEW h \in Hosts, NEW c \in Cmds, ReceiveExecute(t, h, c)
        PROVE  [Device!Next]_Device!vars
    <3>1. pc[t] = "idle" /\ UNCHANGED <<connected, session, stray>>
      BY <2>1 DEF ReceiveExecute, deviceVars
    <3>2. CASE cached[h][c] = 0
      <4>1. Goto(t, "lock") /\ Lock(t, h)
        BY <2>1, <3>2 DEF ReceiveExecute
      <4>2. QED BY <1>0, <1>2, <3>1, <4>1, JobJoined
    <3>3. CASE cached[h][c] # 0
      <4>1. Goto(t, "done") /\ owner' = owner
        BY <2>1, <3>3 DEF ReceiveExecute, lockVars
      <4>2. \A g \in Hosts : owner[g] # t
        BY <1>0, <3>1, TasksAssumption DEF QueueInv, QueueOK, Holding, Calling
      <4>3. QED BY <1>0, <1>2, <3>1, <4>1, <4>2, JobStays
    <3>4. QED BY <3>2, <3>3
  <2>2. ASSUME NEW h \in Hosts, NEW r \in OtherRequests, ReceiveOther(t, h, r)
        PROVE  [Device!Next]_Device!vars
    <3>1. /\ pc[t] = "idle" /\ UNCHANGED <<connected, session, stray>>
          /\ Goto(t, "lock") /\ Lock(t, h)
      BY <2>2 DEF ReceiveOther, deviceVars
    <3>2. QED BY <1>0, <1>2, <3>1, JobJoined
  <2>3. QED BY <1>3, <2>1, <2>2 DEF Request
<1>4. ASSUME NEW t \in Clients, ClientLeaves(t) \/ CloseClient(t)
      PROVE  [Device!Next]_Device!vars
  <2>1. UNCHANGED <<connected, session, stray, owner>>
    BY <1>4 DEF ClientLeaves, CloseClient, deviceVars, lockVars
  <2>2. CASE pc[t] = "idle"
    <3>1. Goto(t, "closed")
      BY <1>4, <2>2 DEF ClientLeaves, CloseClient
    <3>2. \A g \in Hosts : owner[g] # t
      BY <1>0, <2>2, TasksAssumption DEF QueueInv, QueueOK, Holding, Calling
    <3>3. QED BY <1>0, <1>2, <2>1, <3>1, <3>2, JobStays
  <2>3. CASE pc[t] # "idle"
    <3>1. pc' = pc
      BY <1>4, <2>3 DEF ClientLeaves, CloseClient
    <3>2. QED BY <1>2, <2>1, <3>1 DEF JobOf
  <2>4. QED BY <2>2, <2>3
<1>5. ASSUME NEW h \in Hosts, CloseDevice(h)
      PROVE  [Device!Next]_Device!vars
  <2>1. /\ pc[Closer] = "idle" /\ UNCHANGED <<connected, session, stray>>
        /\ Goto(Closer, "lock") /\ Lock(Closer, h)
    BY <1>5 DEF CloseDevice, deviceVars
  <2>2. QED BY <1>0, <1>2, <2>1, JobJoined
<1>6. CASE GiveUpWaiting
  <2>1. /\ pc[Closer] = "lock" /\ UNCHANGED <<connected, session, stray>>
        /\ Goto(Closer, "done")
    BY <1>6 DEF GiveUpWaiting, deviceVars
  <2>2. CASE owner[d] = Closer
    <3>1. Unlock(d)
      BY <1>1, <1>6, <2>2 DEF GiveUpWaiting
    <3>2. \A g \in Hosts : JobOf(g)' = JobOf(g)
      BY <1>0, <1>1, <2>1, <2>2, <3>1, JobFreed, Calls
    <3>3. QED BY <1>2, <2>1, <3>2
  <2>3. CASE owner[d] # Closer
    <3>1. owner' = owner
      BY <1>1, <1>6, <2>3 DEF GiveUpWaiting
    <3>2. \A g \in Hosts : owner[g] # Closer
      BY <1>0, <1>1, <2>3, TasksAssumption DEF QueueInv, QueueOK
    <3>3. QED BY <1>0, <1>2, <2>1, <3>1, <3>2, JobStays
  <2>4. QED BY <2>2, <2>3
<1>7. CASE GiveUpDisconnect
  <2>1. /\ pc[Closer] = "disconnecting" /\ UNCHANGED session
        /\ Goto(Closer, "done") /\ Unlock(d)
        /\ stray' = [stray EXCEPT ![d] = "running"]
        /\ connected' = connected \ {d}
    BY <1>1, <1>7 DEF GiveUpDisconnect
  <2>2. owner[d] = Closer
    BY <1>0, <1>1, <2>1, OwnerOf DEF Holding, Calling
  <2>3. /\ JobOf(d) = "disconnect" /\ JobOf(d)' = "none"
        /\ \A g \in Hosts \ {d} : JobOf(g)' = JobOf(g)
    BY <1>0, <1>1, <2>1, <2>2, JobFreed, Calls
  <2>4. job' = [job EXCEPT ![d] = "none"] /\ job[d] = "disconnect"
    BY <2>3
  <2>5. held' = [held EXCEPT ![d] = FALSE]
    <3>1. \A g \in Hosts \ {d} : (g \in connected') = (g \in connected)
      BY <2>1
    <3>2. (d \in connected') = FALSE
      BY <2>1
    <3>3. QED BY <3>1, <3>2, Zenon
  <2>6. stray[d] = "none"
    BY <1>1, <2>1 DEF StrayInv, AtRest
  <2>7. Device!Abandon(d)
    BY <2>1, <2>4, <2>5, <2>6 DEF Device!Abandon
  <2>8. QED BY <2>7 DEF Device!Next
<1>8. ASSUME NEW h \in Hosts, StrayEnds(h)
      PROVE  [Device!Next]_Device!vars
  <2>1. /\ stray[h] = "running" /\ stray' = [stray EXCEPT ![h] = "ended"]
        /\ UNCHANGED <<connected, session, owner, pc>>
    BY <1>8 DEF StrayEnds, lockVars
  <2>2. job' = job /\ held' = held
    BY <2>1 DEF JobOf
  <2>3. Device!StrayEnds(h)
    BY <2>1, <2>2 DEF Device!StrayEnds
  <2>4. QED BY <2>3 DEF Device!Next
<1>9. CASE \/ BeginShutdown \/ Snapshot \/ Stop
           \/ \E h \in Hosts : SessionDies(h)
           \/ \E h \in Hosts, c \in Cmds : Expire(h, c)
           \/ \E t \in Tasks : ExpireKept(t)
           \/ UNCHANGED vars
  <2>1. UNCHANGED <<connected, session, stray, owner, pc>>
    BY <1>9
    DEF BeginShutdown, Snapshot, Stop, SessionDies, Expire, ExpireKept, vars,
        deviceVars, lockVars
  <2>2. QED BY <1>2, <2>1 DEF JobOf
<1>10. QED
  BY <1>3, <1>4, <1>5, <1>6, <1>7, <1>8, <1>9
  DEF Next, ShutdownStep, Environment

\* At the start no device has a session and nobody calls one.
LEMMA RefineInit == Init => Device!Init
<1> SUFFICES ASSUME Init PROVE Device!Init
  OBVIOUS
<1>1. /\ connected = {} /\ session = [h \in Hosts |-> 0]
      /\ stray = [h \in Hosts |-> "none"]
      /\ \A h \in Hosts : owner[h] = NoTask
  BY DEF Init
<1>2. [h \in Hosts |-> JobOf(h)] = [h \in Hosts |-> "none"]
  BY <1>1 DEF JobOf
<1>3. [h \in Hosts |-> h \in connected] = [h \in Hosts |-> FALSE]
  <2>1. \A h \in Hosts : (h \in connected) = FALSE
    BY <1>1
  <2>2. QED BY <2>1, Zenon
<1>4. QED BY <1>1, <1>2, <1>3 DEF Device!Init

(* The broker implements DeviceSession: on every device, whatever clients,  *)
(* shutdown and its timeouts do, calls come one at a time, commands only on *)
(* an open session, every connect opens a new one, and a disconnect is      *)
(* abandoned at most once.                                                  *)
THEOREM Refinement == Spec => DeviceSpec
<1> DEFINE I == /\ TypeOK /\ LockInv /\ SessionInv /\ LocalInv /\ ShutdownInv
                /\ QueueInv /\ StrayInv
<1>1. Init => I
  <2>1. ASSUME Init
        PROVE  QueueInv /\ StrayInv
    BY <2>1 DEF Init, Tasks, QueueInv, QueueOK, StrayInv, AtRest
  <2>2. QED BY <2>1, IInit DEF IInv
<1>2. I /\ [Next]_vars => I'
  BY TaskStepType, OtherStepType, LockTaskStep, LockOtherStep, SessionTaskStep,
     SessionOtherStep, LocalTaskStep, LocalOtherStep, ShutdownStepInv,
     QueueTaskStep, QueueOtherStep, StrayTaskStep, StrayOtherStep
<1>3. I /\ I' /\ [Next]_vars => [Device!Next]_Device!vars
  BY RefineTaskStep, RefineOtherStep
<1> HIDE DEF I
<1>4. QED
  BY <1>1, <1>2, <1>3, RefineInit, PTL DEF Spec, DeviceSpec, Device!Spec
=============================================================================
