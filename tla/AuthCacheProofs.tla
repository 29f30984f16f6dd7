-------------------------- MODULE AuthCacheProofs --------------------------
(***************************************************************************)
(* Safety of AuthCache for any runs and tests, with and without crashes.   *)
(***************************************************************************)
EXTENDS AuthCache, FiniteSetTheorems, TLAPS

\* A process inside the critical section has locked the file at the path, until
\* somebody removes it.  What holds afterwards does not depend on the lock.
LockInv == ~broken => \A p \in Procs : pc[p] \in Inside => lockFile = p

\* What a process knows of the cache file while it has the lock.
FileInv ==
    ~broken => \A p \in Procs :
        /\ pc[p] = "login" => ~Valid
        /\ pc[p] = "read" => file # NoFile
        /\ pc[p] = "write" => p \in handles /\ file = Torn
        /\ pc[p] = "chmod" => file = got[p]
        /\ pc[p] # "error"

\* Whoever has logged in has a token that is not the one of before; that one
\* can only be in the cache as long as no pre-flight check has emptied it, and a
\* check that has not can only take it if its invalidation failed.
NewTokenInv ==
    \A p \in Procs :
        /\ pc[p] \in {"open", "write", "chmod"} => got[p] # 0
        /\ IsPreflight(p) /\ file = 0 =>
               pc[p] \in {"invalidate", "unlink", "skipped", "dead"} \/ p \in gaveUp
        /\ IsPreflight(p) /\ pc[p] = "ok" => got[p] # 0 \/ p \in gaveUp
        /\ pc[p] \in {"invalidate", "unlink", "cleanup"} => IsPreflight(p)

\* The processes that may still log in.
BeforeLogin ==
    {p \in Procs : pc[p] \in {"waiting", "invalidate", "unlink", "cleanup", "get", "check",
                              "read", "login"}}

\* There is a token for each of them.
IssuedInv == issued + Cardinality(BeforeLogin) <= Cardinality(Procs)

IInv == TypeOK /\ LockInv /\ FileInv /\ NewTokenInv /\ IssuedInv

\* There are finitely many processes.
LEMMA ProcsFinite == IsFiniteSet(Procs) /\ Cardinality(Procs) \in Nat
<1>1. IsFiniteSet(Tests \cup {Preflight})
  BY FiniteAssumption, FS_AddElement
<1>2. IsFiniteSet(Procs)
  BY <1>1, FiniteAssumption, FS_Product DEF Procs
<1>3. QED BY <1>2, FS_CardinalityType

\* The token of before the runs is a token.
LEMMA ZeroToken == 0 \in Tokens
BY ProcsFinite DEF Tokens

\* What is left of the lock file once it has been removed under its holder.
LEMMA StillWhole ==
    ASSUME NEW p \in Procs, RemoveLockFile(p), ~broken'
    PROVE  ~broken /\ lockFile \notin Procs
BY DEF RemoveLockFile

\* A step that keeps the number of logins lets no process back before its login.
LEMMA IssuedFrame ==
    ASSUME IssuedInv, TypeOK, issued' = issued, BeforeLogin' \subseteq BeforeLogin
    PROVE  IssuedInv'
<1>1. BeforeLogin \subseteq Procs
  BY DEF BeforeLogin
<1>2. IsFiniteSet(BeforeLogin)
  BY <1>1, ProcsFinite, FS_Subset
<1>3. /\ Cardinality(BeforeLogin) \in Nat /\ Cardinality(BeforeLogin') \in Nat
      /\ Cardinality(BeforeLogin') <= Cardinality(BeforeLogin)
  BY <1>2, FS_Subset, FS_CardinalityType
<1>4. QED BY <1>3, ProcsFinite DEF IssuedInv, TypeOK, Tokens

\* A login uses up the token of its process.
LEMMA LoginStep ==
    ASSUME IssuedInv, TypeOK, NEW p \in Procs, LoginOk(p)
    PROVE  issued + 1 \in Tokens /\ IssuedInv'
<1>1. BeforeLogin \subseteq Procs /\ p \in BeforeLogin
  BY DEF BeforeLogin, LoginOk
<1>2. BeforeLogin' = BeforeLogin \ {p}
  BY DEF BeforeLogin, LoginOk, Goto, TypeOK
<1>3. IsFiniteSet(BeforeLogin)
  BY <1>1, ProcsFinite, FS_Subset
<1>4. /\ Cardinality(BeforeLogin) \in Nat
      /\ Cardinality(BeforeLogin \ {p}) = Cardinality(BeforeLogin) - 1
      /\ Cardinality(BeforeLogin \ {p}) \in Nat
  BY <1>1, <1>3, FS_RemoveElement, FS_CardinalityType
<1>5. QED BY <1>2, <1>4, ProcsFinite DEF IssuedInv, TypeOK, Tokens, LoginOk

\* The invariant holds before anybody has started.
LEMMA InitInv == Init => IInv
<1> SUFFICES ASSUME Init PROVE IInv
  OBVIOUS
<1>1. TypeOK
  <2>1. pc \in [Procs -> {"waiting", "invalidate"}]
    BY DEF Init
  <2>2. got \in [Procs -> Tokens]
    BY ZeroToken DEF Init
  <2>3. QED BY <2>1, <2>2, ZeroToken DEF Init, TypeOK, Inside, Ended, Passed, Caching
<1>2. LockInv /\ FileInv /\ NewTokenInv
  BY DEF Init, LockInv, FileInv, NewTokenInv, Inside, Caching, Procs, IsPreflight
<1>3. IssuedInv
  <2>1. BeforeLogin \subseteq Procs
    BY DEF BeforeLogin
  <2>2. Cardinality(BeforeLogin) <= Cardinality(Procs) /\ Cardinality(BeforeLogin) \in Nat
    BY <2>1, ProcsFinite, FS_Subset, FS_CardinalityType
  <2>3. QED BY <2>2, ProcsFinite DEF Init, IssuedInv
<1>4. QED BY <1>1, <1>2, <1>3 DEF IInv

\* Every step keeps files, locks and processes well-typed.
LEMMA TypeStep ==
    ASSUME IInv, Next
    PROVE  TypeOK'
<1>0. TypeOK /\ IssuedInv /\ NewTokenInv
  BY DEF IInv
<1>1. ASSUME NEW p \in Procs, SkipCheck(p) \/ LockToInvalidate(p) \/ Unlink(p) \/ InvalidationFails(p)
                              \/ RemoveLockFile(p) \/ LockFileStays(p)
      PROVE  TypeOK'
  BY <1>0, <1>1 DEF SkipCheck, LockToInvalidate, Unlink, InvalidationFails, RemoveLockFile,
     LockFileStays, TypeOK, NewTokenInv, Goto, Acquire, Release, lockVars, fileVars, tokenVars,
     Inside, Caching, Ended, Passed
<1>2. ASSUME NEW p \in Procs, StartTest(p) \/ Lock(p) \/ Check(p)
      PROVE  TypeOK'
  BY <1>0, <1>2 DEF StartTest, Lock, Check, TypeOK, Goto, Acquire,
     Release, lockVars, fileVars, tokenVars, Inside, Caching, Ended, Passed
<1>3. ASSUME NEW p \in Procs, ReadHit(p) \/ ReadMiss(p) \/ ReadGone(p)
      PROVE  TypeOK'
  BY <1>0, <1>3 DEF ReadHit, ReadMiss, ReadGone, TypeOK, Goto, Valid,
     Release, lockVars, fileVars, tokenVars, Inside, Caching, Ended, Passed
<1>4. ASSUME NEW p \in Procs, LoginOk(p)
      PROVE  TypeOK'
  <2>1. issued' \in Tokens
    BY <1>0, <1>4, LoginStep DEF LoginOk
  <2>2. QED
    BY <1>0, <1>4, <2>1 DEF LoginOk, TypeOK, Goto, lockVars, fileVars, Inside, Caching
<1>5. ASSUME NEW p \in Procs, LoginRefused(p) \/ Open(p) \/ Write(p) \/ Chmod(p) \/ Crash(p)
      PROVE  TypeOK'
  BY <1>0, <1>5 DEF LoginRefused, Open, Write, Chmod, Crash, TypeOK, Goto, Release, IsPreflight,
     lockVars, fileVars, tokenVars, Inside, Caching, Ended, Passed
<1>6. ASSUME NEW n \in Tokens, Expire(n)
      PROVE  TypeOK'
  BY <1>0, <1>6 DEF Expire, TypeOK, lockVars, fileVars
<1>7. QED BY <1>1, <1>2, <1>3, <1>4, <1>5, <1>6 DEF Next, Step

\* Every step leaves those inside the critical section with the lock, or breaks it.
LEMMA LockStep ==
    ASSUME IInv, Next
    PROVE  LockInv'
<1>0. TypeOK /\ LockInv
  BY DEF IInv
<1>a. ASSUME NEW p \in Procs, RemoveLockFile(p)
      PROVE  LockInv'
  BY <1>0, <1>a, StillWhole DEF RemoveLockFile, TypeOK, Goto, Inside, Caching, LockInv
<1>1. ASSUME NEW p \in Procs, SkipCheck(p) \/ LockToInvalidate(p) \/ Unlink(p) \/ InvalidationFails(p)
                              \/ LockFileStays(p)
      PROVE  LockInv'
  BY <1>0, <1>1, FileAssumption DEF SkipCheck, LockToInvalidate, Unlink, InvalidationFails, LockFileStays, TypeOK,
     Goto, Acquire, Release, lockVars, Inside, Caching, LockInv
<1>2. ASSUME NEW p \in Procs, StartTest(p) \/ Lock(p) \/ Check(p) \/ ReadHit(p) \/ ReadMiss(p)
                              \/ ReadGone(p)
      PROVE  LockInv'
  BY <1>0, <1>2, FileAssumption DEF StartTest, Lock, Check, ReadHit, ReadMiss, ReadGone, TypeOK,
     Goto, Acquire, Release, lockVars, Inside, Caching, LockInv
<1>3. ASSUME NEW p \in Procs, LoginOk(p) \/ LoginRefused(p) \/ Open(p) \/ Write(p) \/ Chmod(p)
      PROVE  LockInv'
  BY <1>0, <1>3 DEF LoginOk, LoginRefused, Open, Write, Chmod, TypeOK, Goto, Release, IsPreflight,
     lockVars, Inside, Caching, LockInv
<1>4. ASSUME NEW p \in Procs, Crash(p)
      PROVE  LockInv'
  BY <1>0, <1>4 DEF Crash, TypeOK, Goto, Inside, Caching, LockInv
<1>5. ASSUME NEW n \in Tokens, Expire(n)
      PROVE  LockInv'
  BY <1>5, <1>0 DEF Expire, lockVars, LockInv
<1>6. QED BY <1>a, <1>1, <1>2, <1>3, <1>4, <1>5 DEF Next, Step

\* Every step keeps what the holder of the lock knows of the cache file.
LEMMA FileStep ==
    ASSUME IInv, Next
    PROVE  FileInv'
<1>0. TypeOK /\ LockInv /\ FileInv
  BY DEF IInv
<1> USE <1>0, FileAssumption DEF TypeOK, LockInv, FileInv, Goto, Valid, Inside, Caching
<1>1. ASSUME NEW p \in Procs, SkipCheck(p) \/ LockToInvalidate(p) \/ InvalidationFails(p) \/ LockFileStays(p)
      PROVE  FileInv'
  BY <1>1 DEF SkipCheck, LockToInvalidate, InvalidationFails, LockFileStays, Release, lockVars, fileVars, tokenVars
<1>a. ASSUME NEW p \in Procs, RemoveLockFile(p)
      PROVE  FileInv'
  BY <1>a, StillWhole DEF RemoveLockFile, fileVars, tokenVars
<1>2. ASSUME NEW p \in Procs, Unlink(p)
      PROVE  FileInv'
  BY <1>2 DEF Unlink, tokenVars
<1>3. ASSUME NEW p \in Procs, StartTest(p) \/ Lock(p) \/ Check(p)
      PROVE  FileInv'
  BY <1>3 DEF StartTest, Lock, Check, lockVars, fileVars, tokenVars
<1>4. ASSUME NEW p \in Procs, ReadHit(p) \/ ReadMiss(p) \/ ReadGone(p)
      PROVE  FileInv'
  BY <1>4 DEF ReadHit, ReadMiss, ReadGone, lockVars, fileVars, tokenVars
<1>5. ASSUME NEW p \in Procs, LoginOk(p) \/ LoginRefused(p)
      PROVE  FileInv'
  BY <1>5 DEF LoginOk, LoginRefused, lockVars, fileVars, tokenVars
<1>6. ASSUME NEW p \in Procs, Open(p)
      PROVE  FileInv'
  BY <1>6 DEF Open, lockVars, tokenVars
<1>7. ASSUME NEW p \in Procs, Write(p)
      PROVE  FileInv'
  BY <1>7 DEF Write, lockVars, tokenVars
<1>8. ASSUME NEW p \in Procs, Chmod(p) \/ Crash(p)
      PROVE  FileInv'
  BY <1>8 DEF Chmod, Crash, fileVars, tokenVars
<1>9. ASSUME NEW n \in Tokens, Expire(n)
      PROVE  FileInv'
  BY <1>9 DEF Expire, lockVars, fileVars
<1>10. QED
  BY <1>1, <1>a, <1>2, <1>3, <1>4, <1>5, <1>6, <1>7, <1>8, <1>9 DEF Next, Step

\* No step gives the old token to a check, or to anybody who has logged in.
LEMMA NewTokenStep ==
    ASSUME IInv, Next
    PROVE  NewTokenInv'
<1>0. TypeOK /\ NewTokenInv
  BY DEF IInv
<1> USE <1>0, FileAssumption DEF TypeOK, NewTokenInv, Goto
<1>1. ASSUME NEW p \in Procs, SkipCheck(p) \/ LockToInvalidate(p) \/ Unlink(p) \/ InvalidationFails(p)
                              \/ RemoveLockFile(p) \/ LockFileStays(p)
      PROVE  NewTokenInv'
  BY <1>1, ZeroToken DEF SkipCheck, LockToInvalidate, Unlink, InvalidationFails, RemoveLockFile, LockFileStays, fileVars
<1>2. ASSUME NEW p \in Procs, StartTest(p) \/ Lock(p) \/ Check(p)
      PROVE  NewTokenInv'
  BY <1>2 DEF StartTest, Lock, Check, fileVars
<1>3. ASSUME NEW p \in Procs, ReadHit(p) \/ ReadMiss(p) \/ ReadGone(p)
      PROVE  NewTokenInv'
  BY <1>3 DEF ReadHit, ReadMiss, ReadGone, fileVars, Valid
<1>4. ASSUME NEW p \in Procs, LoginOk(p)
      PROVE  NewTokenInv'
  <2>1. issued + 1 # 0
    BY DEF Tokens
  <2>2. QED
    BY <1>4, <2>1 DEF LoginOk, fileVars
<1>5. ASSUME NEW p \in Procs, LoginRefused(p)
      PROVE  NewTokenInv'
  BY <1>5 DEF LoginRefused, fileVars, IsPreflight
<1>6. ASSUME NEW p \in Procs, Open(p) \/ Write(p)
      PROVE  NewTokenInv'
  BY <1>6, ZeroToken DEF Open, Write
<1>7. ASSUME NEW p \in Procs, Chmod(p) \/ Crash(p)
      PROVE  NewTokenInv'
  BY <1>7 DEF Chmod, Crash, fileVars, Ended, Passed
<1>8. ASSUME NEW n \in Tokens, Expire(n)
      PROVE  NewTokenInv'
  BY <1>8 DEF Expire, fileVars
<1>9. QED
  BY <1>1, <1>2, <1>3, <1>4, <1>5, <1>6, <1>7, <1>8 DEF Next, Step

\* No step takes a process back before its login.
LEMMA IssuedStep ==
    ASSUME IInv, Next
    PROVE  IssuedInv'
<1>0. TypeOK /\ IssuedInv
  BY DEF IInv
<1>1. ASSUME NEW p \in Procs, LoginOk(p)
      PROVE  IssuedInv'
  BY <1>0, <1>1, LoginStep
<1>2. ASSUME NEW p \in Procs, NEW label, Goto(p, label), issued' = issued,
             label \in {"waiting", "invalidate", "unlink", "cleanup", "get", "check", "read", "login"}
                 => p \in BeforeLogin
      PROVE  IssuedInv'
  <2>1. BeforeLogin' \subseteq BeforeLogin
    BY <1>0, <1>2 DEF BeforeLogin, Goto, TypeOK
  <2>2. QED BY <1>0, <1>2, <2>1, IssuedFrame
<1>3. ASSUME NEW p \in Procs, SkipCheck(p) \/ LockToInvalidate(p) \/ Unlink(p) \/ InvalidationFails(p)
                              \/ RemoveLockFile(p) \/ LockFileStays(p)
                              \/ StartTest(p) \/ Lock(p) \/ Check(p) \/ ReadMiss(p)
      PROVE  IssuedInv'
  <2>1. p \in BeforeLogin /\ issued' = issued /\ \E label : Goto(p, label)
    BY <1>3 DEF SkipCheck, LockToInvalidate, Unlink, InvalidationFails, RemoveLockFile, LockFileStays, StartTest, Lock, Check,
       ReadMiss, BeforeLogin, tokenVars
  <2>2. QED BY <1>2, <2>1
<1>4. ASSUME NEW p \in Procs, ReadHit(p) \/ ReadGone(p) \/ LoginRefused(p) \/ Open(p) \/ Write(p)
                              \/ Chmod(p) \/ Crash(p)
      PROVE  IssuedInv'
  <2>1. issued' = issued /\ \E label : /\ Goto(p, label)
                                       /\ label \in {"ok", "error", "refused", "skipped", "write",
                                                    "chmod", "dead"}
    BY <1>4 DEF ReadHit, ReadGone, LoginRefused, Open, Write, Chmod, Crash, tokenVars
  <2>2. QED BY <1>2, <2>1
<1>5. ASSUME NEW n \in Tokens, Expire(n)
      PROVE  IssuedInv'
  <2>1. BeforeLogin' = BeforeLogin /\ issued' = issued
    BY <1>5 DEF Expire, BeforeLogin
  <2>2. QED BY <1>0, <2>1, IssuedFrame
<1>6. QED BY <1>1, <1>3, <1>4, <1>5 DEF Next, Step

\* A step that changes nothing keeps the invariant.
LEMMA Stutter ==
    ASSUME IInv, UNCHANGED vars
    PROVE  IInv'
BY DEF IInv, TypeOK, LockInv, FileInv, Valid, NewTokenInv, IssuedInv, BeforeLogin, vars

\* The invariant holds in every state.
LEMMA Invariance == Spec => []IInv
<1>1. IInv /\ [Next]_vars => IInv'
  BY TypeStep, LockStep, FileStep, NewTokenStep, IssuedStep, Stutter DEF IInv
<1>2. QED BY InitInv, <1>1, PTL DEF Spec

\* Every variable keeps its type; in particular no process logs in twice.
THEOREM TypeCorrect == Spec => []TypeOK
<1>1. IInv => TypeOK
  BY DEF IInv
<1>2. QED BY <1>1, Invariance, PTL

\* Whatever is killed, refused or torn, only the removal of a lock file that
\* others hold lets a second process into the critical section.
THEOREM LockExcludes == Spec => []OneHolderUnlessBroken
<1>1. IInv => OneHolderUnlessBroken
  BY DEF IInv, LockInv, OneHolderUnlessBroken, OneHolder
<1>2. QED BY <1>1, Invariance, PTL

\* Until then, the processes of all runs share one login.
THEOREM LoginsAreShared == Spec => []NoNeedlessLogin
<1>1. IInv => NoNeedlessLogin
  BY DEF IInv, LockInv, FileInv, NoNeedlessLogin, Inside, Caching
<1>2. QED BY <1>1, Invariance, PTL

\* Until then, no process meets a file that its predecessors, killed or not,
\* should not have left.
THEOREM FilesAreSafe == Spec => []NoFileError
<1>1. IInv => NoFileError
  BY DEF IInv, FileInv, NoFileError
<1>2. QED BY <1>1, Invariance, PTL

\* A pre-flight check whose invalidation did not fail never passes on the token
\* that was there before, with the lock broken or not.
THEOREM PreflightIsFresh == Spec => []PreflightSeesNewToken
<1>1. IInv => PreflightSeesNewToken
  BY DEF IInv, NewTokenInv, PreflightSeesNewToken
<1>2. QED BY <1>1, Invariance, PTL
=============================================================================
