-------------------------- MODULE MCConnectionPool ---------------------------
(***************************************************************************)
(* Two components on a device that has a direct connector, the relay's, or *)
(* both; one retry (the code has five) is enough for a timer to outlive    *)
(* what set it.                                                            *)
(***************************************************************************)
EXTENDS ConnectionPool, TLC

CONSTANTS c1, c2
MCConsumers == {c1, c2}
MCDevices == {<<"direct_ws">>, <<"relay">>, <<"direct_ws", "relay">>}
Symmetry == Permutations(MCConsumers)
=============================================================================
