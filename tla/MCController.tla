---------------------------- MODULE MCController ----------------------------
(***************************************************************************)
(* ControllerResolution for TLC: a controller with one credential set, one *)
(* with two methods and one with two URLs.                                 *)
(***************************************************************************)
EXTENDS ControllerResolution
=============================================================================
