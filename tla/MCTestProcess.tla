---------------------------- MODULE MCTestProcess ----------------------------
(***************************************************************************)
(* Instances of TestProcess for TLC.                                       *)
(***************************************************************************)
EXTENDS TestProcess
=============================================================================
