----------------------------- MODULE TurnEvents ------------------------------
(***************************************************************************)
(* The events of a runtime turn, as the host that consumes them may rely   *)
(* on: handleRuntimeEvent (packages/daemon/src/index.ts) turns message_end *)
(* and tool_execution_end into nodes of the conversation and broadcasts    *)
(* the others, in the order they come, and keeps no state to put a stream  *)
(* right that breaks this grammar.                                         *)
(***************************************************************************)
EXTENDS FiniteSets

CONSTANT Call

VARIABLES
  event,      \* the last event, "none" between two turns
  unanswered  \* tool calls of the last message_end that have no result

eventVars == <<event, unanswered>>

Init == event = "none" /\ unanswered = {}

TurnStart == event = "none" /\ event' = "turn_start" /\ unanswered' = {}

\* The model is called again only when it got all the results it asked for
MessageStart ==
  /\ event \in {"turn_start", "tool_execution_end"} /\ unanswered = {}
  /\ event' = "message_start" /\ UNCHANGED unanswered

Delta ==
  /\ event \in {"message_start", "delta"}
  /\ event' = "delta" /\ UNCHANGED unanswered

MessageEnd ==
  /\ event \in {"message_start", "delta"}
  /\ event' = "message_end" /\ unanswered' \in SUBSET Call

ToolStart ==
  /\ event \in {"message_end", "tool_execution_end"} /\ unanswered # {}
  /\ event' = "tool_execution_start" /\ UNCHANGED unanswered

ToolEnd ==
  /\ event = "tool_execution_start" /\ event' = "tool_execution_end"
  /\ \E c \in unanswered : unanswered' = unanswered \ {c}

Error ==
  /\ event \in {"message_start", "delta", "message_end"}
  /\ event' = "error" /\ UNCHANGED unanswered

\* One turn_end, last, never between the two events of a tool
TurnEnd ==
  /\ event \notin {"none", "turn_end", "tool_execution_start"}
  /\ event' = "turn_end" /\ UNCHANGED unanswered

\* The stream is over, or its consumer threw
Close == event # "none" /\ event' = "none" /\ UNCHANGED unanswered

Next ==
  \/ TurnStart \/ MessageStart \/ Delta \/ MessageEnd \/ ToolStart \/ ToolEnd
  \/ Error \/ TurnEnd \/ Close

Spec == Init /\ [][Next]_eventVars
=============================================================================
