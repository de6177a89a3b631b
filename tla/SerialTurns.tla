----------------------------- MODULE SerialTurns -----------------------------
(***************************************************************************)
(* What a lane promises its clients about their messages: the turns of one *)
(* session run one at a time, a message gets at most one turn, and it is   *)
(* answered "completed" only when that turn is over.                       *)
(*                                                                         *)
(* Nothing here says that a message is run: a host that dies, a failed     *)
(* write or a steer leave it without a turn (Promised, in SessionLane,     *)
(* says when it is).                                                       *)
(***************************************************************************)
CONSTANTS Msg, Nobody

VARIABLES
  sent,      \* messages a client has sent
  ran,       \* messages that got their turn: the tree has their user message
  current,   \* the message whose turn is in progress
  answered   \* messages answered "completed"

turnVars == <<sent, ran, current, answered>>

Init == sent = {} /\ ran = {} /\ current = Nobody /\ answered = {}

Send(m) ==
  /\ m \notin sent
  /\ sent' = sent \cup {m}
  /\ UNCHANGED <<ran, current, answered>>

Run(m) ==
  /\ current = Nobody /\ m \in sent \ ran
  /\ current' = m /\ ran' = ran \cup {m}
  /\ UNCHANGED <<sent, answered>>

\* Not every turn is answered: the host may die, or a follow-up's requester be gone
Finish(m) ==
  /\ current = m
  /\ current' = Nobody
  /\ answered' \in {answered, answered \cup {m}}
  /\ UNCHANGED <<sent, ran>>

Next == \E m \in Msg : Send(m) \/ Run(m) \/ Finish(m)

Spec == Init /\ [][Next]_turnVars
=============================================================================
