----------------------------- MODULE MCEventSync -----------------------------
(* Small instances of EventSync.  Two clients: one attaches while the other is  *)
(* attached or attaches too.                                                   *)
EXTENDS EventSync, TLC

Symmetry == Permutations(Client)
=============================================================================
