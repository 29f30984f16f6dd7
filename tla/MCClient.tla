------------------------------ MODULE MCClient ------------------------------
(* Small instances of BrokerClient for TLC. *)
EXTENDS BrokerClient
=============================================================================
