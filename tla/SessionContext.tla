---------------------------- MODULE SessionContext ---------------------------
(***************************************************************************)
(* What a model call is shown of a session (buildContext,                  *)
(* packages/core/src/session/index.ts) while the host compacts the context, *)
(* hides turns (Snip) and maintains the session memory that compactions     *)
(* take their summary from (packages/daemon/src/index.ts).                  *)
(*                                                                         *)
(* Updates of the session memory run one after the other, beside the        *)
(* turns; a compaction waits five seconds for the newest.  A text is the    *)
(* number of conversation events it was made from.                          *)
(*                                                                         *)
(* Abstracted: tokens (the threshold may be reached at any turn), message   *)
(* text, the lines the summariser is given, settings; what else hangs nodes *)
(* beside a running turn (TurnTree).                                        *)
(*                                                                         *)
(* SessionProofs extends this module and SessionTree, hence the names with  *)
(* Context in them.                                                         *)
(***************************************************************************)
EXTENDS Integers, Sequences, FiniteSets, FiniteSetsExt

CONSTANTS
  Retained,  \* AUTO_COMPACT_RETAINED_EVENTS
  MaxNodes,  \* bound: conversation events
  MaxTurns,  \* bound: turns
  MaxSnips   \* bound: hidden turns

ASSUME ContextAssumption == {Retained, MaxNodes, MaxTurns, MaxSnips} \subseteq Nat

VARIABLES
  nodes,     \* the conversation events in the order they were written; a node is its index
  hidden,    \* the context_control events
  turn,      \* the turn in progress
  memory,    \* the session memory's file: what its text was made from, 0 when it has none
  updates,   \* the updates scheduled and not over, in order; the first of them runs
  latest,    \* #sessionMemoryUpdates: the newest update, 0 when none
  made,      \* updates scheduled, ever
  due,       \* history: what the newest update has to be made from, 0 once it failed
  turns

contextVars == <<nodes, hidden, turn, memory, updates, latest, made, due, turns>>

\* "harness": steers, notices, the memory, skill and channel items; "calls": an assistant
\* message with a tool call; of: the calls a result answers; through: what a summary was made from
Kind == {"user", "harness", "calls", "result", "reply", "compact"}
Node == [kind : Kind, parent : Nat, of : Nat, through : Nat]
Control == [from : Nat, to : Nat, at : Nat]
Update == [id : Nat, step : {"generate", "truncate", "write"}, text : Nat]

\* "check" to "append": autoCompactIfNeeded; "run": the runtime's loop, chained to `parent`
Step == {"none", "check", "wait", "read", "summarise", "append", "start", "run"}
Turn == [step : Step, reminder : Nat, leaf : Nat, awaits : Nat, late : BOOLEAN,
         source : {"none", "session_memory", "foreground_compact"}, summary : Nat,
         parent : Nat, calls : Nat]
NoTurn == [step |-> "none", reminder |-> 0, leaf |-> 0, awaits |-> 0, late |-> FALSE,
           source |-> "none", summary |-> 0, parent |-> 0, calls |-> 0]

ActiveLeaf == Len(nodes)
Now == Len(nodes)

ContextInit ==
  /\ nodes = <<>> /\ hidden = {} /\ turn = NoTurn
  /\ memory = 0 /\ updates = <<>> /\ latest = 0 /\ made = 0 /\ due = 0 /\ turns = 0

-----------------------------------------------------------------------------
\* buildContext

\* getPath
Path(leaf) ==
  LET up[n \in 0..Len(nodes)] == IF n = 0 THEN <<>> ELSE Append(up[nodes[n].parent], n)
  IN  up[leaf]

In(seq) == {seq[i] : i \in DOMAIN seq}

\* What of seq is not hidden
Visible(seq, hid) ==
  LET kept[i \in 0..Len(seq)] ==
        IF i = 0 THEN <<>> ELSE IF seq[i] \in hid THEN kept[i - 1] ELSE Append(kept[i - 1], seq[i])
  IN  kept[Len(seq)]

\* hiddenContextEventIds; a control that is newer than the leaf does not count.
HiddenIds(path, leaf) ==
  {path[k] : k \in {k \in DOMAIN path :
     \E c \in hidden : /\ c.at < leaf
                       /\ \E i \in 1..k, j \in k..Len(path) : path[i] = c.from /\ path[j] = c.to}}

IsRetainedStart(n) == nodes[n].kind \in {"user", "compact", "calls"}

Compacts(seq) == {i \in DOMAIN seq : nodes[seq[i]].kind = "compact"}

\* What is left of seq behind its last compact event, which is first
Behind(seq) ==
  IF Compacts(seq) = {} THEN seq ELSE SubSeq(seq, Max(Compacts(seq)), Len(seq))

\* Mutant: the retained part starts anywhere.
RetainedFromAnywhere(path, hid) ==
  Behind(Visible(SubSeq(path, Max({1, Len(path) - Retained + 1}), Len(path)), hid))

\* retainedMessagesBeforeCompact
RetainedBefore(path, hid) ==
  LET starts == {i \in DOMAIN path : i > Len(path) - Retained /\ IsRetainedStart(path[i])}
  IN  IF starts = {} THEN <<>> ELSE Behind(Visible(SubSeq(path, Min(starts), Len(path)), hid))

Context(leaf) ==
  LET path == Path(leaf)
      hid == HiddenIds(path, leaf)
      barriers == {i \in Compacts(path) : path[i] \notin hid}
  IN  IF barriers = {} THEN Visible(path, hid)
      ELSE LET c == Max(barriers)
           IN  <<path[c]>> \o RetainedBefore(SubSeq(path, 1, c - 1), hid)
                 \o Visible(SubSeq(path, c + 1, Len(path)), hid)

-----------------------------------------------------------------------------
\* The turns

Add(kind, parent, of, through) ==
  nodes' = Append(nodes, [kind |-> kind, parent |-> parent, of |-> of, through |-> through])

Free == Len(nodes) < MaxNodes

\* runUserTurn and, on the notice it answers, runSystemReminderTurn
BeginTurn(reminder) ==
  /\ turn = NoTurn /\ turns < MaxTurns /\ turns' = turns + 1
  /\ reminder = 0 \/ (reminder \in DOMAIN nodes /\ nodes[reminder].kind = "harness")
  /\ turn' = [NoTurn EXCEPT !.step = "check", !.reminder = reminder]
  /\ UNCHANGED <<nodes, hidden, memory, updates, latest, made, due>>

\* A harness item before the turn: a notice, or what the turn's preparation adds
AddHarness ==
  /\ turn.step \in {"none", "check"} /\ Free
  /\ Add("harness", ActiveLeaf, 0, 0)
  /\ UNCHANGED <<hidden, turn, memory, updates, latest, made, due, turns>>

\* autoCompactIfNeeded
NoCompact ==
  /\ turn.step = "check" /\ turn' = [turn EXCEPT !.step = "start"]
  /\ UNCHANGED <<nodes, hidden, memory, updates, latest, made, due, turns>>

BeginCompact ==
  /\ turn.step = "check" /\ ActiveLeaf # 0 /\ nodes[ActiveLeaf].kind # "compact"
  /\ turn' = [turn EXCEPT !.step = "wait", !.leaf = ActiveLeaf, !.awaits = latest]
  /\ UNCHANGED <<nodes, hidden, memory, updates, latest, made, due, turns>>

\* waitForSessionMemoryUpdate: the update is over, or the time is
Waited ==
  /\ turn.step = "wait"
  /\ LET over == \A i \in DOMAIN updates : updates[i].id # turn.awaits
     IN  \E late \in BOOLEAN :
           /\ ~over => late
           /\ turn' = [turn EXCEPT !.step = "read", !.late = late /\ ~over]
  /\ UNCHANGED <<nodes, hidden, memory, updates, latest, made, due, turns>>

\* The session memory is the summary when there is any.
ReadMemory ==
  /\ turn.step = "read"
  /\ turn' = IF memory = 0 THEN [turn EXCEPT !.step = "summarise", !.source = "foreground_compact"]
             ELSE [turn EXCEPT !.step = "append", !.source = "session_memory", !.summary = memory]
  /\ UNCHANGED <<nodes, hidden, memory, updates, latest, made, due, turns>>

\* generateForegroundCompactSummary, or its fallback
Summarise ==
  /\ turn.step = "summarise"
  /\ turn' = [turn EXCEPT !.step = "append", !.summary = Now]
  /\ UNCHANGED <<nodes, hidden, memory, updates, latest, made, due, turns>>

AppendCompact ==
  /\ turn.step = "append" /\ Free
  /\ Add("compact", turn.leaf, 0, turn.summary)
  /\ turn' = [turn EXCEPT !.step = "start"]
  /\ UNCHANGED <<hidden, memory, updates, latest, made, due, turns>>

\* The user message, or the notice, is what the first model call is built from.
StartRun ==
  /\ turn.step = "start"
  /\ IF turn.reminder # 0
     THEN turn' = [turn EXCEPT !.step = "run", !.parent = turn.reminder] /\ UNCHANGED nodes
     ELSE /\ Free /\ Add("user", ActiveLeaf, 0, 0)
          /\ turn' = [turn EXCEPT !.step = "run", !.parent = Now + 1]
  /\ UNCHANGED <<hidden, memory, updates, latest, made, due, turns>>

\* The runtime's messages: calls, their results, steers and, last, a reply
Round(kind) ==
  /\ turn.step = "run" /\ Free
  /\ \/ kind = "calls" /\ turn.calls = 0 /\ Add(kind, turn.parent, 0, 0)
        /\ turn' = [turn EXCEPT !.parent = Now + 1, !.calls = Now + 1]
     \/ kind = "result" /\ turn.calls # 0 /\ Add(kind, turn.parent, turn.calls, 0)
        /\ \E more \in BOOLEAN :
             turn' = [turn EXCEPT !.parent = Now + 1, !.calls = IF more THEN @ ELSE 0]
     \/ kind = "harness" /\ turn.calls = 0 /\ Add(kind, turn.parent, 0, 0)
        /\ turn' = [turn EXCEPT !.parent = Now + 1]
  /\ UNCHANGED <<hidden, memory, updates, latest, made, due, turns>>

\* snipUserTurn: the turn of user message n, up to the next user message, is hidden.
Snip(n) ==
  /\ turn.step = "run" /\ turn.calls # 0 /\ turn.reminder = 0 /\ Cardinality(hidden) < MaxSnips
  /\ LET path == Path(ActiveLeaf)
         users == {i \in DOMAIN path : nodes[path[i]].kind = "user"}
     IN  \E i \in users :
           /\ path[i] = n
           /\ LET after == {j \in users : j > i}
              IN  /\ after # {} /\ Min(after) - 1 # i
                  /\ hidden' = hidden \cup {[from |-> n, to |-> path[Min(after) - 1], at |-> Now]}
  /\ UNCHANGED <<nodes, turn, memory, updates, latest, made, due, turns>>

\* scheduleSessionMemoryUpdate, which the end of a turn calls
Schedule ==
  /\ made' = made + 1 /\ latest' = made + 1 /\ due' = Now + 1
  /\ updates' = Append(updates, [id |-> made + 1, step |-> "generate", text |-> 0])

CompleteTurn ==
  /\ turn.step = "run" /\ turn.calls = 0 /\ Free
  /\ Add("reply", turn.parent, 0, 0) /\ Schedule /\ turn' = NoTurn
  /\ UNCHANGED <<hidden, memory, turns>>

\* A cancel, an error: no update is scheduled.
FailTurn ==
  /\ turn.step # "none" /\ turn' = NoTurn
  /\ UNCHANGED <<nodes, hidden, memory, updates, latest, made, due, turns>>

-----------------------------------------------------------------------------
\* The session memory

\* maintainSessionMemory reads the tree ...
Generate ==
  /\ updates # <<>> /\ Head(updates).step = "generate"
  /\ updates' = [updates EXCEPT ![1] = [@ EXCEPT !.step = "truncate", !.text = Now]]
  /\ UNCHANGED <<nodes, hidden, turn, memory, latest, made, due, turns>>

\* ... and writes the file.
TruncateMemory ==
  /\ updates # <<>> /\ Head(updates).step = "truncate"
  /\ updates' = [updates EXCEPT ![1] = [@ EXCEPT !.step = "write"]] /\ memory' = 0
  /\ UNCHANGED <<nodes, hidden, turn, latest, made, due, turns>>

\* Mutant: whatever update is over takes the newest out of the map.
OverForgetting == updates' = Tail(updates) /\ latest' = 0

\* The update is over: it leaves the map if it is still there.
Over ==
  /\ updates' = Tail(updates)
  /\ latest' = IF latest = Head(updates).id THEN 0 ELSE latest

WriteMemory ==
  /\ updates # <<>> /\ Head(updates).step = "write"
  /\ memory' = Head(updates).text /\ Over
  /\ UNCHANGED <<nodes, hidden, turn, made, due, turns>>

\* Mutant: an update that fails fails those behind it.
FailAll ==
  /\ updates # <<>> /\ updates' = <<>> /\ latest' = 0
  /\ due' = IF Head(updates).id = made THEN 0 ELSE due
  /\ UNCHANGED <<nodes, hidden, turn, memory, made, turns>>

\* A file operation fails; the update behind it runs.
FailUpdate ==
  /\ updates # <<>> /\ Over
  /\ due' = IF Head(updates).id = made THEN 0 ELSE due
  /\ UNCHANGED <<nodes, hidden, turn, memory, made, turns>>

-----------------------------------------------------------------------------
Maintain == Generate \/ TruncateMemory \/ WriteMemory \/ FailUpdate

ContextNext ==
  \/ \E n \in 0..Len(nodes) : BeginTurn(n)
  \/ AddHarness \/ NoCompact \/ BeginCompact \/ Waited \/ ReadMemory \/ Summarise \/ AppendCompact
  \/ StartRun \/ (\E kind \in Kind : Round(kind)) \/ (\E n \in DOMAIN nodes : Snip(n))
  \/ CompleteTurn \/ FailTurn \/ Maintain

\* An update's model call and its file operations end.  Users and providers owe nothing.
ContextSpec == ContextInit /\ [][ContextNext]_contextVars /\ WF_contextVars(Maintain)

-----------------------------------------------------------------------------
\* Every variable has its type; a parent and a summary are older than their node.
ContextTypeOK ==
  /\ nodes \in Seq(Node)
  /\ \A n \in DOMAIN nodes : nodes[n].parent < n /\ nodes[n].of < n /\ nodes[n].through < n
  /\ hidden \subseteq Control /\ turn \in Turn /\ memory \in 0..Len(nodes)
  /\ updates \in Seq(Update) /\ latest \in 0..made /\ made \in 0..MaxTurns
  /\ due \in 0..Len(nodes) /\ turns \in 0..MaxTurns

\* Whatever was compacted, retained, hidden or cancelled, a context holds no tool result
\* without the message that called the tool before it (buildContext).
ResultsHaveCalls ==
  LET context == Context(ActiveLeaf)
  IN  \A j \in DOMAIN context :
        nodes[context[j]].kind = "result" =>
          \E i \in 1..(j - 1) : context[i] = nodes[context[j]].of

\* A compaction that did not run out of time takes a session memory made from every completed
\* turn, unless the newest update failed (waitForSessionMemoryUpdate).
CompactionIsFresh ==
  turn.step = "append" /\ turn.source = "session_memory" /\ ~turn.late /\ due # 0 => turn.summary >= due

\* A completed turn reaches the session memory in the end, whichever updates before its own
\* failed, unless its own did (scheduleSessionMemoryUpdate).
MemoryCatchesUp == []<>(due = 0 \/ memory >= due)
=============================================================================
