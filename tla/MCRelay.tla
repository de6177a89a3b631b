------------------------------- MODULE MCRelay ------------------------------
(* A small instance of Relay: one reconnection of the host, a second pairing   *)
(* after a failed one, a restart of the relay and a failing write.             *)
EXTENDS Relay
=============================================================================
