------------------------------ MODULE MCTurnTree -----------------------------
(* Small instances of TurnTree: two messages, so that one turn follows another, *)
(* and two tool calls, so that nodes come between the results of one message.  *)
EXTENDS TurnTree
=============================================================================
