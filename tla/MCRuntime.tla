------------------------------ MODULE MCRuntime ------------------------------
(* Small instances of Runtime.  Two tool calls are enough for a cancel to come  *)
(* before, between and after them.                                             *)
EXTENDS Runtime, TLC

Symmetry == Permutations(Call)
=============================================================================
