---------------------------- MODULE MCSessionLane ----------------------------
(* Small instances of SessionLane: three messages are enough for two follow-ups *)
(* to race each other while a third turn runs.                                 *)
EXTENDS SessionLane, TLC

Symmetry == Permutations(Msg)
=============================================================================
