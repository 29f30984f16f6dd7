---------------------------- MODULE MCAuthCache ----------------------------
(* Small instances of AuthCache for TLC. *)
EXTENDS AuthCache
=============================================================================
