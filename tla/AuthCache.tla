----------------------------- MODULE AuthCache -----------------------------
(***************************************************************************)
(* nac_test/core/auth_cache.py: the token of one controller account, shared *)
(* through a cache file by the processes of all nac-test runs on a machine, *)
(* and the pre-flight check of core/controller_auth.py, which empties the   *)
(* cache before its own login.                                              *)
(*                                                                         *)
(* A run starts with the pre-flight check; if the check does not fail, the  *)
(* run's test processes start, and each asks for a token.  A step is one    *)
(* operation on the file system or one login.  The file system may refuse   *)
(* invalidate() any operation, for the pre-flight check goes on after that; *)
(* elsewhere it refuses none on a file that is there.                       *)
(*                                                                         *)
(* Definitions whose comment begins with "Mutant" are faulty versions of   *)
(* the definition after them; no specification uses them.                  *)
(***************************************************************************)
EXTENDS Naturals, FiniteSets

CONSTANTS
    Runs,        \* the nac-test runs on the machine
    Tests,       \* the test processes of a run
    Preflight,   \* the pre-flight check of a run
    NoFile,      \* no file at a path
    Unlocked,    \* a lock file that nobody has locked
    Torn,        \* a cache file whose content is not valid JSON
    Crashes      \* may processes be killed?

ASSUME PreflightAssumption == Preflight \notin Tests
ASSUME FiniteAssumption == IsFiniteSet(Runs) /\ IsFiniteSet(Tests)

Procs  == Runs \X (Tests \cup {Preflight})
RunOf(p) == p[1]
IsPreflight(p) == p[2] = Preflight

\* Token 0 was in the cache before; every process logs in at most once.
Tokens == 0 .. Cardinality(Procs)

ASSUME FileAssumption ==
    /\ NoFile \notin Procs \cup Tokens /\ Unlocked \notin Procs /\ Torn \notin Tokens
    /\ NoFile # Unlocked /\ NoFile # Torn

VARIABLES
    lockFile,   \* the lock file: NoFile, Unlocked, or the process that locked
                \* the file now at its path
    file,       \* the cache file: NoFile, Torn, or a token
    handles,    \* processes that have the file now at its path open to write
    issued,     \* number of logins so far: token n is that of the n-th
    stale,      \* tokens whose expires_at has passed
    gaveUp,     \* checks whose invalidate() failed, which only a debug line tells
    broken,     \* has a lock file been removed while another process held it?
    pc,
    got         \* got[p]: the token p has from its login or from the cache

vars == <<lockFile, file, handles, issued, stale, gaveUp, broken, pc, got>>

\* The steps of _cache_auth_data under the lock, and those of invalidate.
Caching == {"check", "read", "login", "open", "write", "chmod"}
Inside  == Caching \cup {"unlink"}
Passed  == {"ok", "skipped"}
Ended   == Passed \cup {"refused", "error", "dead"}

TypeOK ==
    /\ lockFile \in Procs \cup {NoFile, Unlocked}
    /\ file \in {NoFile, Torn} \cup Tokens
    /\ handles \subseteq {p \in Procs : pc[p] = "write"}
    /\ issued \in Tokens
    /\ stale \subseteq Tokens
    /\ gaveUp \subseteq {p \in Procs : IsPreflight(p)}
    /\ broken \in BOOLEAN
    /\ pc \in [Procs -> {"waiting", "invalidate", "cleanup", "get"}
                            \cup Inside \cup Ended]
    /\ got \in [Procs -> Tokens]

Init ==
    /\ lockFile \in {NoFile, Unlocked}
    /\ file \in {NoFile, Torn, 0}
    /\ handles = {}
    /\ issued = 0
    /\ stale \in SUBSET {0}
    /\ gaveUp = {}
    /\ broken = FALSE
    /\ pc = [p \in Procs |-> IF IsPreflight(p) THEN "invalidate" ELSE "waiting"]
    /\ got = [p \in Procs |-> 0]

Goto(p, label) == pc' = [pc EXCEPT ![p] = label]

lockVars  == <<lockFile, broken>>
fileVars  == <<file, handles, gaveUp>>
tokenVars == <<issued, stale>>
-----------------------------------------------------------------------------
(* filelock.FileLock: whoever creates or finds an unlocked file at the path  *)
(* has the lock; a release unlinks whatever is at the path.                 *)

\* Mutant: nobody waits for the lock.
AcquireAlways(p) == lockFile' = p

Acquire(p) ==
    /\ lockFile \in {NoFile, Unlocked}
    /\ lockFile' = p

Release(p) == lockFile' = NoFile
-----------------------------------------------------------------------------
(* The pre-flight check, and invalidate() which it calls.                   *)

\* No adapter to log in with: the check counts as passed.
SkipCheck(p) ==
    /\ pc[p] = "invalidate"
    /\ Goto(p, "skipped")
    /\ UNCHANGED <<lockVars, fileVars, tokenVars, got>>

LockToInvalidate(p) ==
    /\ pc[p] = "invalidate"
    /\ Acquire(p)
    /\ Goto(p, "unlink")
    /\ UNCHANGED <<broken, fileVars, tokenVars, got>>

\* Mutant: the cache file is left in place.
UnlinkNothing(p) ==
    /\ pc[p] = "unlink"
    /\ Release(p)
    /\ Goto(p, "cleanup")
    /\ UNCHANGED <<broken, fileVars, tokenVars, got>>

\* The cache file is removed if it is there, and the lock released.
Unlink(p) ==
    /\ pc[p] = "unlink"
    /\ file' = NoFile
    /\ handles' = {}
    /\ Release(p)
    /\ Goto(p, "cleanup")
    /\ UNCHANGED <<gaveUp, broken, tokenVars, got>>

\* The lock file cannot be opened or locked, or the cache file not be removed:
\* invalidate() logs it at debug level and returns, the lock released, and the
\* check goes on to authenticate.
InvalidationFails(p) ==
    /\ \/ pc[p] = "invalidate" /\ UNCHANGED lockFile
       \/ pc[p] = "unlink" /\ Release(p)
    /\ gaveUp' = gaveUp \cup {p}
    /\ Goto(p, "get")
    /\ UNCHANGED <<file, handles, broken, tokenVars, got>>

\* "Clean up the lock file after releasing the lock": whoever locked it since.
RemoveLockFile(p) ==
    /\ pc[p] = "cleanup"
    /\ broken' = (broken \/ lockFile \in Procs)
    /\ lockFile' = NoFile
    /\ Goto(p, "get")
    /\ UNCHANGED <<fileVars, tokenVars, got>>

\* The lock file cannot be removed, or is gone already.
LockFileStays(p) ==
    /\ pc[p] = "cleanup"
    /\ Goto(p, "get")
    /\ UNCHANGED <<lockVars, fileVars, tokenVars, got>>
-----------------------------------------------------------------------------
(* _cache_auth_data(), called by the tests and by the pre-flight check.     *)

\* A test process starts once the pre-flight check of its run has passed.
StartTest(p) ==
    /\ pc[p] = "waiting" /\ pc[<<RunOf(p), Preflight>>] \in Passed
    /\ Goto(p, "get")
    /\ UNCHANGED <<lockVars, fileVars, tokenVars, got>>

Lock(p) ==
    /\ pc[p] = "get"
    /\ Acquire(p)
    /\ Goto(p, "check")
    /\ UNCHANGED <<broken, fileVars, tokenVars, got>>

Check(p) ==
    /\ pc[p] = "check"
    /\ Goto(p, IF file = NoFile THEN "login" ELSE "read")
    /\ UNCHANGED <<lockVars, fileVars, tokenVars, got>>

Valid == file \in Tokens /\ file \notin stale

\* Mutant: the file that was found is not used.
ReadNothing(p) ==
    /\ pc[p] = "read"
    /\ Goto(p, "login")
    /\ UNCHANGED <<lockVars, fileVars, tokenVars, got>>

\* A valid token is returned, the lock released.
ReadHit(p) ==
    /\ pc[p] = "read" /\ Valid
    /\ got' = [got EXCEPT ![p] = file]
    /\ Release(p)
    /\ Goto(p, "ok")
    /\ UNCHANGED <<broken, fileVars, tokenVars>>

\* Not valid JSON, or expired: a new login.
ReadMiss(p) ==
    /\ pc[p] = "read" /\ file # NoFile /\ ~Valid
    /\ Goto(p, "login")
    /\ UNCHANGED <<lockVars, fileVars, tokenVars, got>>

\* The file that exists() saw is gone: open() raises FileNotFoundError, which
\* no handler in the method catches.
ReadGone(p) ==
    /\ pc[p] = "read" /\ file = NoFile
    /\ Release(p)
    /\ Goto(p, "error")
    /\ UNCHANGED <<broken, fileVars, tokenVars, got>>

LoginOk(p) ==
    /\ pc[p] = "login"
    /\ issued' = issued + 1
    /\ got' = [got EXCEPT ![p] = issued + 1]
    /\ Goto(p, "open")
    /\ UNCHANGED <<lockVars, fileVars, stale>>

\* Mutant: the lock is not released when auth_func raises.
LoginRefusedKeepsLock(p) ==
    /\ pc[p] = "login"
    /\ Goto(p, "refused")
    /\ UNCHANGED <<lockVars, fileVars, tokenVars, got>>

\* auth_func raises, and the exception goes to the caller.  The pre-flight
\* check takes a ValueError for missing settings, and passes.
LoginRefused(p) ==
    /\ pc[p] = "login"
    /\ Release(p)
    /\ \E end \in {"refused"} \cup (IF IsPreflight(p) THEN {"skipped"} ELSE {}) :
           Goto(p, end)
    /\ UNCHANGED <<broken, fileVars, tokenVars, got>>

\* open(cache_file, "w") empties the file, or creates it.
Open(p) ==
    /\ pc[p] = "open"
    /\ file' = Torn
    /\ handles' = handles \cup {p}
    /\ Goto(p, "write")
    /\ UNCHANGED <<gaveUp, lockVars, tokenVars, got>>

\* The buffered JSON reaches the file when it is closed.  Over what another
\* writer put there in between, it may leave a tail of the longer text; in a
\* file that was unlinked in between it is lost.
Write(p) ==
    /\ pc[p] = "write"
    /\ IF p \in handles
       THEN file' \in {got[p]} \cup (IF file = Torn THEN {} ELSE {Torn})
       ELSE UNCHANGED file
    /\ handles' = handles \ {p}
    /\ Goto(p, "chmod")
    /\ UNCHANGED <<gaveUp, lockVars, tokenVars, got>>

Chmod(p) ==
    /\ pc[p] = "chmod"
    /\ Release(p)
    /\ Goto(p, IF file = NoFile THEN "error" ELSE "ok")
    /\ UNCHANGED <<broken, fileVars, tokenVars, got>>
-----------------------------------------------------------------------------
(* The environment.                                                         *)

\* expires_at, one minute before the controller drops the token, passes.
Expire(n) ==
    /\ n <= issued /\ n \notin stale
    /\ stale' = stale \cup {n}
    /\ UNCHANGED <<lockVars, fileVars, issued, pc, got>>

\* A process is killed; the operating system frees the file it had locked.
Crash(p) ==
    /\ Crashes /\ pc[p] \notin Ended \cup {"waiting"}
    /\ lockFile' = IF lockFile = p THEN Unlocked ELSE lockFile
    /\ handles' = handles \ {p}
    /\ Goto(p, "dead")
    /\ UNCHANGED <<gaveUp, broken, file, tokenVars, got>>
-----------------------------------------------------------------------------
Step(p) ==
    \/ SkipCheck(p) \/ LockToInvalidate(p) \/ Unlink(p) \/ InvalidationFails(p)
    \/ RemoveLockFile(p) \/ LockFileStays(p)
    \/ StartTest(p) \/ Lock(p) \/ Check(p)
    \/ ReadHit(p) \/ ReadMiss(p) \/ ReadGone(p)
    \/ LoginOk(p) \/ LoginRefused(p) \/ Open(p) \/ Write(p) \/ Chmod(p)

Next ==
    \/ \E p \in Procs : Step(p) \/ Crash(p)
    \/ \E n \in Tokens : Expire(n)

Spec == Init /\ [][Next]_vars

\* A live process goes on; a process that waits for the lock polls it, and gets
\* it once the others, which make one call each, are done.
FairSpec == Spec /\ \A p \in Procs : WF_vars(Step(p))
-----------------------------------------------------------------------------
\* The critical section of the lock file has one process in it.  Violated when
\* two runs overlap: a pre-flight check removes a lock file others hold.
OneHolder == \A p, q \in Procs : pc[p] \in Inside /\ pc[q] \in Inside => p = q

\* That removal is the only thing that lets a second process in: no release,
\* kill or failure does, and each leaves the lock to be had again.
OneHolderUnlessBroken == ~broken => OneHolder

\* Nobody logs in while the cache has a valid token or another process fetches
\* one: the parallel test processes of all runs share one login (and start a
\* new one only after an expiry, an invalidation, a refusal or a crash).
NoNeedlessLogin ==
    ~broken =>
        \A p \in Procs :
            pc[p] = "login" =>
                /\ ~Valid
                /\ \A q \in Procs \ {p} : pc[q] \notin {"login", "open", "write"}

\* The file system never surprises a call: as long as the lock excludes, the
\* only error a process meets is a refused login, although its predecessors may
\* have been killed at any step, and what it writes stays until it is done.
NoFileError ==
    ~broken =>
        \A p \in Procs :
            /\ pc[p] # "error"
            /\ pc[p] = "chmod" => file = got[p]

\* "Invalidate any stale cached token so we validate the current credentials"
\* (preflight_auth_check): a check passes on the token that was there when the
\* runs began only if its own invalidate() failed, whatever processes of other
\* runs write, keep or remove in the meantime, and with the lock broken too.
PreflightSeesNewToken ==
    \A p \in Procs :
        IsPreflight(p) /\ pc[p] = "ok" /\ got[p] = 0 => p \in gaveUp

\* Every call ends, also when a process was killed inside the lock, or two are
\* in it.
CallsEnd ==
    \A p \in Procs : pc[p] # "waiting" ~> pc[p] \in Ended
=============================================================================
