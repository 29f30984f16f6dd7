--------------------------- MODULE CleanupManager ---------------------------
(***************************************************************************)
(* The files nac-test removes when it ends (utils/cleanup.py).  Whoever    *)
(* creates a file registers it later; run_cleanup() removes what is        *)
(* registered, from atexit and from the handlers of SIGTERM and SIGINT.    *)
(***************************************************************************)
EXTENDS Integers, FiniteSets

CONSTANTS
    Files,        \* the files of a run
    KeepIfDebug,  \* those registered with keep_if_debug
    Debug         \* DEBUG_MODE
ASSUME DebugAssumption == Debug \in BOOLEAN /\ KeepIfDebug \subseteq Files

VARIABLES
    disk,        \* the files that exist
    registered,  \* CleanupManager._files
    main,        \* the main thread: "running", "interrupted" or "over"
    signal       \* history: the last signal

cleanupVars == <<disk, registered, main, signal>>

CleanupInit(first, known) ==
    /\ disk = first /\ registered = known
    /\ main = "running" /\ signal = "none"

Create(f) == disk' = disk \cup {f} /\ UNCHANGED <<registered, main, signal>>
Unlink(f) == disk' = disk \ {f} /\ UNCHANGED <<registered, main, signal>>

\* register() of several files.
Register(F) == registered' = registered \cup F /\ UNCHANGED <<disk, main, signal>>

\* Mutant: files that are kept for debugging are kept always.
DebugKept == registered \cap KeepIfDebug

Kept == IF Debug THEN registered \cap KeepIfDebug ELSE {}

\* run_cleanup(), which the handler may enter again: everything is forgotten,
\* what is kept as well.
RunCleanup == disk' = disk \ (registered \ Kept) /\ registered' = {}

\* _signal_handler(): it restores the original handler, so that SIGTERM ends the
\* process at once and SIGINT is a KeyboardInterrupt.
Terminate == /\ main # "over"
             /\ RunCleanup
             /\ main' = "over" /\ signal' = "SIGTERM"

Interrupt == /\ main = "running"
             /\ RunCleanup
             /\ main' = "interrupted" /\ signal' = "SIGINT"

Kill == /\ main # "over"
        /\ main' = "over" /\ signal' = "SIGKILL"
        /\ UNCHANGED <<disk, registered>>

\* atexit.
AtExit == RunCleanup /\ main' = "over" /\ UNCHANGED signal
=============================================================================
