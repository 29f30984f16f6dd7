------------------------------ MODULE MCBroker ------------------------------
(* Small instances of ConnectionBroker for TLC. *)
EXTENDS ConnectionBroker, TLC

ClientSymmetry == Permutations(Clients)
=============================================================================
