----------------------------- MODULE MCBatching -----------------------------
(* Small instances of BatchingReporter for TLC. *)
EXTENDS BatchingReporter
=============================================================================
