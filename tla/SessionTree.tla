----------------------------- MODULE SessionTree -----------------------------
(***************************************************************************)
(* One session: the append-only events.jsonl on disk and the SessionTree   *)
(* a JsonlSession keeps of it in memory (packages/core/src/session).       *)
(*                                                                         *)
(* An append checks the event against the tree, awaits appendFile and only *)
(* then applies the event to the tree, so the file and the tree move in    *)
(* separate steps and the process may stop, or the write may fail, between *)
(* them.  loadSession rebuilds the tree from the file, line by line.       *)
(*                                                                         *)
(* The only caller of append outside the tests serialises its calls        *)
(* (appendQueue, packages/daemon/src/index.ts:2015): one append at a time. *)
(*                                                                         *)
(* Abstracted: message payloads; the five conversation event types are one *)
(* kind; a control event replaces the content of one slot (the two queues, *)
(* the instruction snapshot), content being an opaque value.               *)
(***************************************************************************)
EXTENDS Integers, Sequences, FiniteSets

CONSTANTS
  EventId,       \* identities of events
  Slot,          \* slots of controlState that an event replaces whole
  Content,       \* what a slot may hold
  EmptyContent,  \* what it holds in a new tree
  NoEvent,       \* null: no parent, no root, no append in progress
  Garbage,       \* a line JSON.parse rejects
  MaxSeq         \* bound: the largest seq a caller assigns

ASSUME ConstantsAssumption ==
  /\ EmptyContent \in Content
  /\ NoEvent \notin EventId
  /\ MaxSeq \in Nat

\* A conversation event hangs under parent (null for the first); a control
\* event carries the slot it replaces and the new content.
ConversationEvent ==
  [kind : {"conversation"}, id : EventId, seq : 1..MaxSeq, parent : EventId \cup {NoEvent}]
ControlEvent ==
  [kind : {"control"}, id : EventId, seq : 1..MaxSeq, slot : Slot, content : Content]
Event == ConversationEvent \cup ControlEvent

\* JSON.parse tells Garbage from an event; null is not an event either.
ASSUME EventAssumption == NoEvent \notin Event /\ Garbage \notin Event

VARIABLES
  file,          \* the complete lines of events.jsonl after the header
  tail,          \* what follows the last newline, see TailState
  order,         \* tree: the events applied, in order
  convOrder,     \* tree: ids of the conversation events, in order
  children,      \* tree: children of each node
  rootId,        \* tree
  currentSeq,    \* tree
  control,       \* tree: controlState
  phase,         \* of the process that owns the session
  pending,       \* the event whose append is between its check and its apply
  written,       \* appendFile of pending has reached the disk
  acknowledged   \* history: the events whose append returned to its caller

treeVars == <<order, convOrder, children, rootId, currentSeq, control>>
vars == <<file, tail, order, convOrder, children, rootId, currentSeq, control,
          phase, pending, written, acknowledged>>

\* "clean": the file ends with a newline.  "unterminated": the last element of
\* file is a whole event that lacks its newline.  "torn": a fragment of an
\* event follows the lines of file.
TailState == {"clean", "unterminated", "torn"}
\* "closed" no process holds the session, "loading" loadSession replays it,
\* "open" a JsonlSession holds it.
Phase == {"closed", "loading", "open"}

-----------------------------------------------------------------------------
(* The tree. *)

IsConversation(e) == e.kind = "conversation"
Nodes == {convOrder[i] : i \in DOMAIN convOrder}

\* Mutant: a caller that reuses a seq is not caught.
CanAppendAnySeq(e) ==
  /\ \A i \in DOMAIN order : order[i].id # e.id
  /\ IsConversation(e) => IF e.parent = NoEvent THEN rootId = NoEvent
                                             ELSE e.parent \in Nodes

\* assertCanAppend
CanAppend(e) ==
  /\ \A i \in DOMAIN order : order[i].id # e.id
  /\ e.seq > currentSeq
  /\ IsConversation(e) => IF e.parent = NoEvent THEN rootId = NoEvent
                                             ELSE e.parent \in Nodes

\* SessionTree.append, after its check
Apply(e) ==
  /\ order' = Append(order, e)
  /\ currentSeq' = e.seq
  /\ IF IsConversation(e)
     THEN /\ convOrder' = Append(convOrder, e.id)
          /\ children' = IF e.parent = NoEvent THEN children
                         ELSE [children EXCEPT ![e.parent] = @ \cup {e.id}]
          /\ rootId' = IF e.parent = NoEvent THEN e.id ELSE rootId
          /\ UNCHANGED control
     ELSE /\ control' = [control EXCEPT ![e.slot] = e.content]
          /\ UNCHANGED <<convOrder, children, rootId>>

EmptyTree ==
  /\ order' = <<>>
  /\ convOrder' = <<>>
  /\ children' = [n \in EventId |-> {}]
  /\ rootId' = NoEvent
  /\ currentSeq' = 0
  /\ control' = [s \in Slot |-> EmptyContent]

\* getLeaves: the nodes without children, as positions in convOrder
Leaves == {i \in DOMAIN convOrder : children[convOrder[i]] = {}}

\* Mutant: the first leaf instead of the last.
FirstLeafId ==
  IF Leaves = {} THEN NoEvent
  ELSE convOrder[CHOOSE i \in Leaves : \A j \in Leaves : i <= j]

\* activeLeafId: the last of them
ActiveLeafId ==
  IF Leaves = {} THEN NoEvent
  ELSE convOrder[CHOOSE i \in Leaves : \A j \in Leaves : j <= i]

-----------------------------------------------------------------------------
(* The file. *)

Init ==
  /\ file = <<>>
  /\ tail = "clean"
  /\ order = <<>>
  /\ convOrder = <<>>
  /\ children = [n \in EventId |-> {}]
  /\ rootId = NoEvent
  /\ currentSeq = 0
  /\ control = [s \in Slot |-> EmptyContent]
  /\ phase = "open"
  /\ pending = NoEvent
  /\ written = FALSE
  /\ acknowledged = {}

\* JsonlSession.append up to its await; a rejected event changes nothing
BeginAppend(e) ==
  /\ phase = "open"
  /\ pending = NoEvent
  /\ CanAppend(e)
  /\ pending' = e
  /\ UNCHANGED <<file, tail, treeVars, phase, written, acknowledged>>

Writing == pending # NoEvent /\ ~written

\* appendFile puts the line and its newline at the end of whatever is there
WriteLine ==
  /\ Writing
  /\ file' = CASE tail = "clean"        -> Append(file, pending)
               [] tail = "unterminated" -> [file EXCEPT ![Len(file)] = Garbage]
               [] tail = "torn"         -> Append(file, Garbage)
  /\ tail' = "clean"
  /\ written' = TRUE
  /\ UNCHANGED <<treeVars, phase, pending, acknowledged>>

\* Mutant: the write is not awaited.
FinishAppendUnwritten ==
  /\ pending # NoEvent
  /\ Apply(pending)
  /\ acknowledged' = acknowledged \cup {pending}
  /\ pending' = NoEvent
  /\ written' = FALSE
  /\ UNCHANGED <<file, tail, phase>>

\* The continuation of the await: tree.append, then the call is answered
FinishAppend ==
  /\ written
  /\ Apply(pending)
  /\ acknowledged' = acknowledged \cup {pending}
  /\ pending' = NoEvent
  /\ written' = FALSE
  /\ UNCHANGED <<file, tail, phase>>

\* What an interrupted appendFile leaves behind: nothing, a fragment, or the
\* event without its newline
Interrupted ==
  \/ UNCHANGED <<file, tail>>
  \/ /\ tail' = "torn"
     /\ file' = IF tail = "unterminated" THEN SubSeq(file, 1, Len(file) - 1) ELSE file
  \/ /\ tail = "clean"
     /\ tail' = "unterminated"
     /\ file' = Append(file, pending)

\* Mutant: the tree was updated before the write and keeps the event.
FailWriteApplied ==
  /\ Writing
  /\ Interrupted
  /\ Apply(pending)
  /\ pending' = NoEvent
  /\ UNCHANGED <<phase, written, acknowledged>>

\* appendFile rejects (a full disk): append throws, the tree is not touched
FailWrite ==
  /\ Writing
  /\ Interrupted
  /\ pending' = NoEvent
  /\ UNCHANGED <<treeVars, phase, written, acknowledged>>

\* The process stops
Crash ==
  /\ phase # "closed"
  /\ IF Writing THEN Interrupted ELSE UNCHANGED <<file, tail>>
  /\ EmptyTree
  /\ phase' = "closed"
  /\ pending' = NoEvent
  /\ written' = FALSE
  /\ UNCHANGED acknowledged

\* Every line is parsed before any is applied
Parses == tail # "torn" /\ \A i \in DOMAIN file : file[i] # Garbage

BeginLoad ==
  /\ phase = "closed"
  /\ IF Parses THEN phase' = "loading" ELSE phase' = "closed"
  /\ UNCHANGED <<file, tail, treeVars, pending, written, acknowledged>>

\* tree.append of the next line throws: loadSession rejects
LoadRejected == CanAppend(file[Len(order) + 1]) = FALSE

LoadLine ==
  /\ phase = "loading"
  /\ Len(order) < Len(file)
  /\ IF LoadRejected
     THEN EmptyTree /\ phase' = "closed"
     ELSE Apply(file[Len(order) + 1]) /\ UNCHANGED phase
  /\ UNCHANGED <<file, tail, pending, written, acknowledged>>

EndLoad ==
  /\ phase = "loading"
  /\ Len(order) = Len(file)
  /\ phase' = "open"
  /\ UNCHANGED <<file, tail, treeVars, pending, written, acknowledged>>

Next ==
  \/ \E e \in Event : BeginAppend(e)
  \/ WriteLine
  \/ FinishAppend
  \/ FailWrite
  \/ Crash
  \/ BeginLoad
  \/ LoadLine
  \/ EndLoad

Spec == Init /\ [][Next]_vars

-----------------------------------------------------------------------------
(* Properties. *)

TypeOK ==
  /\ file \in Seq(Event \cup {Garbage})
  /\ tail \in TailState
  /\ order \in Seq(Event)
  /\ convOrder \in Seq(EventId)
  /\ children \in [EventId -> SUBSET EventId]
  /\ rootId \in EventId \cup {NoEvent}
  /\ currentSeq \in 0..MaxSeq
  /\ control \in [Slot -> Content]
  /\ phase \in Phase
  /\ pending \in Event \cup {NoEvent}
  /\ written \in BOOLEAN
  /\ acknowledged \subseteq Event

\* s is a log loadSession accepts: seqs grow, ids are new, every conversation
\* event but the first hangs under an earlier conversation event.
SeqsGrow(s) == \A i, j \in DOMAIN s : i < j => s[i].seq < s[j].seq
IdsDiffer(s) == \A i, j \in DOMAIN s : i # j => s[i].id # s[j].id
ParentsPrecede(s) ==
  \A i \in DOMAIN s : IsConversation(s[i]) =>
    IF s[i].parent = NoEvent
    THEN \A j \in 1..(i - 1) : ~IsConversation(s[j])
    ELSE \E j \in 1..(i - 1) : IsConversation(s[j]) /\ s[j].id = s[i].parent
ValidLog(s) == SeqsGrow(s) /\ IdsDiffer(s) /\ ParentsPrecede(s)

StartsWith(s, prefix) ==
  /\ Len(prefix) <= Len(s)
  /\ \A i \in DOMAIN prefix : prefix[i] = s[i]

\* Whatever the crashes, the failed writes and the reloads, a file whose lines
\* all parse is one loadSession accepts: its check (assertCanAppend) rejects no
\* line an earlier append wrote.
LogReplayable == Parses => ValidLog(file)

\* The tree never holds an event the file lost, and once every line is whole
\* it holds all of them but the one being written (JsonlSession.append writes
\* before it applies).
TreeMirrorsLog ==
  (Parses /\ tail = "clean") =>
    /\ StartsWith(file, order)
    /\ phase = "open" => Len(file) = Len(order) + (IF written THEN 1 ELSE 0)

\* The incremental structures of the tree agree with the events they were
\* built from: children and root with the parent links, currentSeq with the
\* last event.
TreeConsistent ==
  /\ \A i \in DOMAIN order :
       IsConversation(order[i]) =>
         /\ order[i].id \in Nodes
         /\ IF order[i].parent = NoEvent THEN rootId = order[i].id
                                         ELSE order[i].id \in children[order[i].parent]
  /\ \A n \in EventId : \A c \in children[n] :
       \E i \in DOMAIN order :
         IsConversation(order[i]) /\ order[i].id = c /\ order[i].parent = n
  /\ currentSeq = IF order = <<>> THEN 0 ELSE order[Len(order)].seq

\* activeLeafId, computed from the leaves, is the newest conversation event,
\* whichever branch it is on: a fork never leaves the session pointing at an
\* older branch or at an inner node.
ActiveLeafIsNewest ==
  convOrder # <<>> => ActiveLeafId = convOrder[Len(convOrder)]

\* A session whose file parses is always loaded: replay rejects no line.
LoadNeverRejects ==
  (phase = "loading" /\ Len(order) < Len(file)) => ~LoadRejected

\* No session opens without an event it once acknowledged: whatever crashes, failed
\* and glued writes happened since, loadSession either brings back every event whose
\* append returned or refuses the file.
AcknowledgedIsKept ==
  phase = "open" => \A e \in acknowledged : \E i \in DOMAIN order : order[i] = e
=============================================================================
