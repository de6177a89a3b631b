---------------------------- MODULE MCFileTools ----------------------------
(* Two agents and somebody else on one file of up to two lines. *)
EXTENDS FileTools, TLC

CONSTANTS a1, a2

MCAgents == {a1, a2}
Agents2 == Permutations(MCAgents)
=============================================================================
