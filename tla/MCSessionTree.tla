---------------------------- MODULE MCSessionTree ----------------------------
(***************************************************************************)
(* SessionTree on a small instance: event identities are interchangeable.  *)
(***************************************************************************)
EXTENDS SessionTree, TLC

Symmetry == Permutations(EventId)
=============================================================================
