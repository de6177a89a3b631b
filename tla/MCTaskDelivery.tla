---------------------------- MODULE MCTaskDelivery ---------------------------
(* A small instance of TaskDelivery: one task of each kind, a change of model   *)
(* while they may run, and polls enough to ask again after an answer.          *)
EXTENDS TaskDelivery
=============================================================================
