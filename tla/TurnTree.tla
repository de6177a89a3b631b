------------------------------ MODULE TurnTree -------------------------------
(***************************************************************************)
(* Where the host (packages/daemon/src/index.ts) hangs the events of a     *)
(* session's turns in the conversation tree, and which of them the model   *)
(* is shown at each call: the path from the root to a leaf.                *)
(*                                                                         *)
(* A node's parent is chosen when its write is chained to lane.appendQueue *)
(* and the node exists some time later.  The turn in progress chains its   *)
(* own nodes to state.parentId; everything else (supervision alerts, the   *)
(* notices of background tasks, memory and compact events, the next user   *)
(* message) hangs on session.activeLeafId, the newest node, as it is at    *)
(* that moment; only a follow-up's message hangs on the node that was the  *)
(* newest before the turn's preparation.                                   *)
(*                                                                         *)
(* Abstracted: the lane's queues (SessionLane; whether a message is a      *)
(* follow-up is decided when its turn starts), what the runtime streams    *)
(* (Runtime), the contents of nodes and what buildContext does with a      *)
(* path.  Clients send without options.parentId, as those of this          *)
(* repository do.                                                          *)
(***************************************************************************)
EXTENDS Integers, Sequences, FiniteSets

CONSTANTS
  \* Bounds: messages, notices, alerts, steers and context events of the
  \* session; tool calls of a message; model calls of a turn after the first
  MaxMessages, MaxNotices, MaxAlerts, MaxSteers, MaxContexts, MaxCalls, MaxRounds

ASSUME TurnTreeAssumption ==
  {MaxMessages, MaxNotices, MaxAlerts, MaxSteers, MaxContexts, MaxCalls, MaxRounds} \subseteq Nat

VARIABLES
  nodes,     \* the conversation events in the order they were written; a node is its index
  pending,   \* lane.appendQueue
  jobs,      \* lane.queue: 0 for a user message, n for a reminder turn on notice n
  turn,      \* the turn in progress
  finished,  \* history: what is done: the nodes of turns that are over, and the context
             \* events but those of a follow-up's preparation
  sent       \* messages sent

vars == <<nodes, pending, jobs, turn, finished, sent>>

Kind == {"user", "assistant", "result", "steer", "alert", "context", "notice"}
Node == [kind : Kind, parent : Nat]

\* "prepare": the awaits of runUserTurn; "summarise": autoCompactIfNeeded or
\* ensureMemoryHarness has read the leaf; "model": the provider runs on the path to
\* `leaf`; "supervise": checkTaskSupervision; "tool": a tool executes; "refresh":
\* refreshContext.  In the steps named after a kind that node is chained.
Step == {"none", "prepare", "summarise", "model", "supervise", "tool", "refresh", "end"} \cup Kind

\* followUp: its message is a queued item; parent: state.parentId; leaf: the leaf the
\* context was built from; base: the parent of the turn's first node; own: its nodes;
\* heard: notices and alerts written while the runtime ran; calls: tool calls without
\* a result
NoTurn == [step |-> "none", reminder |-> 0, followUp |-> FALSE, parent |-> 0, leaf |-> 0,
           base |-> 0, own |-> {}, heard |-> {}, calls |-> 0, asked |-> FALSE, rounds |-> 0]

\* JsonlSession.activeLeafId, the last leaf in conversation order, is the newest
\* node (SessionTree, ActiveLeafIsNewest); 0 when there is none
ActiveLeaf == Len(nodes)

\* SessionTree.getPath, as a set
Path(leaf) ==
  LET up[n \in 0..Len(nodes)] == IF n = 0 THEN {} ELSE {n} \cup up[nodes[n].parent]
  IN up[leaf]

Running == turn.step \in {"model", "assistant", "supervise", "alert", "tool", "result",
                          "refresh", "steer"}

Count(kind) ==
  Cardinality({n \in DOMAIN nodes : nodes[n].kind = kind})
    + Cardinality({i \in DOMAIN pending : pending[i].kind = kind})

\* appendPersistent
Chain(kind, parent) == pending' = Append(pending, [kind |-> kind, parent |-> parent])

Init ==
  /\ nodes = <<>> /\ pending = <<>> /\ jobs = <<>>
  /\ turn = NoTurn /\ finished = {} /\ sent = 0

Send ==
  /\ sent < MaxMessages /\ sent' = sent + 1
  /\ jobs' = Append(jobs, 0)
  /\ UNCHANGED <<nodes, pending, turn, finished>>

\* drainFollowUps takes the active leaf with the item
StartTurn ==
  /\ turn = NoTurn /\ jobs # <<>>
  /\ \E followUp \in BOOLEAN :
       /\ followUp => Head(jobs) = 0
       /\ turn' = [NoTurn EXCEPT !.step = "prepare", !.reminder = Head(jobs),
                                 !.followUp = followUp,
                                 !.base = IF followUp THEN ActiveLeaf ELSE 0]
  /\ jobs' = Tail(jobs)
  /\ UNCHANGED <<nodes, pending, finished, sent>>

\* autoCompactIfNeeded reads the leaf, summarises, and hangs the compact event on it
BeginContext ==
  /\ turn.step = "prepare" /\ Count("context") < MaxContexts
  /\ turn' = [turn EXCEPT !.step = "summarise", !.leaf = ActiveLeaf]
  /\ UNCHANGED <<nodes, pending, jobs, finished, sent>>

AppendContext ==
  /\ turn.step = "summarise"
  /\ turn' = [turn EXCEPT !.step = "context"]
  /\ Chain("context", turn.leaf)
  /\ UNCHANGED <<nodes, jobs, finished, sent>>

\* Mutant: it hangs on the leaf the preparation began with.
AppendUserBeforeContext ==
  /\ turn.step = "prepare" /\ turn.reminder = 0
  /\ turn' = [turn EXCEPT !.step = "user"]
  /\ Chain("user", IF turn.followUp THEN turn.base ELSE IF turn.leaf # 0 THEN turn.leaf ELSE ActiveLeaf)
  /\ UNCHANGED <<nodes, jobs, finished, sent>>

\* A follow-up's parent is the leaf it was taken from the queue with
AppendUser ==
  /\ turn.step = "prepare" /\ turn.reminder = 0
  /\ turn' = [turn EXCEPT !.step = "user"]
  /\ Chain("user", IF turn.followUp THEN turn.base ELSE ActiveLeaf)
  /\ UNCHANGED <<nodes, jobs, finished, sent>>

\* runSystemReminderTurn has no user message: it continues from the notice
BeginReminder ==
  /\ turn.step = "prepare" /\ turn.reminder # 0
  /\ turn' = [turn EXCEPT !.step = "model", !.parent = turn.reminder, !.leaf = turn.reminder,
                          !.base = turn.reminder]
  /\ UNCHANGED <<nodes, pending, jobs, finished, sent>>

\* message_end, with the tool calls the model asks for
AppendAssistant ==
  /\ turn.step = "model"
  /\ \E calls \in 0..MaxCalls :
       /\ turn.rounds = MaxRounds => calls = 0
       /\ turn' = [turn EXCEPT !.step = "assistant", !.calls = calls, !.asked = calls > 0]
  /\ Chain("assistant", turn.parent)
  /\ UNCHANGED <<nodes, jobs, finished, sent>>

AfterSupervision ==
  IF turn.calls > 0 THEN "tool" ELSE IF turn.asked THEN "refresh" ELSE "end"

\* checkTaskSupervision finds a violation not alerted in this turn, or none
AppendAlert ==
  /\ turn.step = "supervise" /\ Count("alert") < MaxAlerts
  /\ turn' = [turn EXCEPT !.step = "alert"]
  /\ Chain("alert", ActiveLeaf)
  /\ UNCHANGED <<nodes, jobs, finished, sent>>

EndSupervision ==
  /\ turn.step = "supervise"
  /\ turn' = [turn EXCEPT !.step = AfterSupervision]
  /\ UNCHANGED <<nodes, pending, jobs, finished, sent>>

\* Mutant: the result hangs on the active leaf.
AppendResultOnLeaf ==
  /\ turn.step = "tool"
  /\ turn' = [turn EXCEPT !.step = "result"]
  /\ Chain("result", ActiveLeaf)
  /\ UNCHANGED <<nodes, jobs, finished, sent>>

\* tool_execution_end
AppendResult ==
  /\ turn.step = "tool"
  /\ turn' = [turn EXCEPT !.step = "result"]
  /\ Chain("result", turn.parent)
  /\ UNCHANGED <<nodes, jobs, finished, sent>>

\* consumeSteer, the item
AppendSteer ==
  /\ turn.step = "refresh" /\ Count("steer") < MaxSteers
  /\ turn' = [turn EXCEPT !.step = "steer"]
  /\ Chain("steer", turn.parent)
  /\ UNCHANGED <<nodes, jobs, finished, sent>>

\* buildContext on the newest leaf, the next model call
CallAgain(leaf) == [turn EXCEPT !.step = "model", !.leaf = leaf, !.rounds = @ + 1]

\* Mutant: the next call has the context of the last one.
RefreshNothing ==
  /\ turn.step = "refresh"
  /\ turn' = CallAgain(turn.leaf)
  /\ UNCHANGED <<nodes, pending, jobs, finished, sent>>

RefreshContext ==
  /\ turn.step = "refresh"
  /\ turn' = CallAgain(ActiveLeaf)
  /\ UNCHANGED <<nodes, pending, jobs, finished, sent>>

\* A cancel: the tools not started are skipped, the turn is over
CancelTurn ==
  /\ turn.step \in {"tool", "refresh"}
  /\ turn' = [turn EXCEPT !.step = "end"]
  /\ UNCHANGED <<nodes, pending, jobs, finished, sent>>

EndTurn ==
  /\ turn.step = "end"
  /\ turn' = NoTurn /\ finished' = finished \cup turn.own
  /\ UNCHANGED <<nodes, pending, jobs, sent>>

\* handleBackgroundBashCompleted, handleSubagentCompleted
AppendNotice ==
  /\ Count("notice") < MaxNotices /\ ActiveLeaf # 0
  /\ Chain("notice", ActiveLeaf)
  /\ UNCHANGED <<nodes, jobs, turn, finished, sent>>

-----------------------------------------------------------------------------
(* lane.appendQueue. *)

Written == Len(nodes) + 1

\* The turn has a new node of its own: the next one hangs on it
Extend(step) == [turn EXCEPT !.step = step, !.parent = Written, !.own = @ \cup {Written}]

LandTurnNode ==
  /\ pending # <<>> /\ Head(pending).kind # "notice"
  /\ pending' = Tail(pending) /\ nodes' = Append(nodes, Head(pending))
  /\ turn' = CASE turn.step = "user" ->
                    [Extend("model") EXCEPT !.leaf = Written, !.base = Head(pending).parent]
               [] turn.step = "assistant" -> Extend("supervise")
               [] turn.step = "result" -> [Extend("supervise") EXCEPT !.calls = @ - 1]
               [] turn.step = "steer" ->
                    [Extend("model") EXCEPT !.leaf = Written, !.rounds = @ + 1]
               [] turn.step = "alert" ->
                    [turn EXCEPT !.step = AfterSupervision, !.heard = @ \cup {Written}]
               [] turn.step = "context" -> [turn EXCEPT !.step = "prepare"]
  /\ finished' = IF turn.step = "context" /\ ~turn.followUp
                 THEN finished \cup {Written} ELSE finished
  /\ UNCHANGED <<jobs, sent>>

\* With the runtime idle a reminder turn is chained
LandNotice ==
  /\ pending # <<>> /\ Head(pending).kind = "notice"
  /\ pending' = Tail(pending) /\ nodes' = Append(nodes, Head(pending))
  /\ IF Running
     THEN turn' = [turn EXCEPT !.heard = @ \cup {Written}] /\ UNCHANGED jobs
     ELSE jobs' = Append(jobs, Written) /\ UNCHANGED turn
  /\ UNCHANGED <<finished, sent>>

Next ==
  \/ Send \/ StartTurn \/ BeginContext \/ AppendContext \/ AppendUser \/ BeginReminder
  \/ AppendAssistant \/ AppendAlert \/ EndSupervision \/ AppendResult \/ AppendSteer
  \/ RefreshContext \/ CancelTurn \/ EndTurn \/ AppendNotice
  \/ LandTurnNode \/ LandNotice

Spec == Init /\ [][Next]_vars

-----------------------------------------------------------------------------
(* Properties. *)

\* Every variable has its type, and every node's parent is an earlier node (0 for
\* the root), chained or written: what assertCanAppend accepts.
TypeOK ==
  /\ nodes \in Seq(Node) /\ \A n \in DOMAIN nodes : nodes[n].parent < n
  /\ pending \in Seq(Node) /\ \A i \in DOMAIN pending : pending[i].parent \in 0..Len(nodes)
  /\ jobs \in Seq(0..Len(nodes))
  /\ turn \in [step : Step, reminder : 0..Len(nodes), followUp : BOOLEAN, parent : 0..Len(nodes),
               leaf : 0..Len(nodes), base : 0..Len(nodes), own : SUBSET (1..Len(nodes)),
               heard : SUBSET (1..Len(nodes)), calls : 0..MaxCalls, asked : BOOLEAN,
               rounds : 0..MaxRounds]
  /\ finished \in SUBSET (1..Len(nodes))
  /\ sent \in 0..MaxMessages

\* The turn's own nodes are one chain from its base, whatever else is written
\* during it: "串行排列（不分叉）", each result after its message (runtime.md, section 7).
TurnIsPath == turn.own # {} => Path(turn.parent) = Path(turn.base) \cup turn.own

\* A model call is shown all of its turn so far, every result with its call, unless a
\* notice was written while the turn's loop ran.
ContextHasTurn ==
  turn.step = "model" /\ (\A n \in turn.heard : nodes[n].kind # "notice")
    => turn.own \subseteq Path(turn.leaf)

\* With no notice in the session, a model call is shown every turn that is over and what
\* summarises them, whatever alerts, steers and context events came between and whether the
\* messages were follow-ups.  Set aside are only the context events of a follow-up's own
\* preparation: its message is their sibling, so no later call is shown them.
ContextHasEarlierTurns ==
  turn.step = "model" /\ Count("notice") = 0 => finished \subseteq Path(turn.leaf)
=============================================================================
