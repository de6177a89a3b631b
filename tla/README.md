# Scorel: specifications

TLA+ specifications of Scorel's host (the daemon), its agent runtime and tools, the
relay and the clients attached to it, with the TLC configurations that check them and
TLAPS proofs of theorems about them. Every definition is written from the source
under `src/`; `PROJECT.json` maps each one to the lines it stands for.

- Check a module: `tlc -config MCSessionTree.cfg MCSessionTree.tla`
- Check the proofs: `tlapm SessionProofs.tla`, and so for each `*Proofs` module

## 1. Inventory

Paths are relative to `src/`. "Daemon" is `packages/daemon/src/index.ts`.

### The session and its turns

| Component | State | Operations | Interacts with |
|---|---|---|---|
| **Session log and tree**, `packages/core/src/session` | `events.jsonl` on disk; the tree in memory: nodes, children, root, `currentSeq`, the conversation order, control state (queues, instruction snapshot) | `createSession`, `append`, `loadSession`, `activeLeafId`, `buildContext` | written by the lane's append queue; read by `load_session`, `resync_events` and every context |
| **Session lane**, Daemon `SessionLane` | `queue` and `appendQueue` (promise chains), `followUpWaiters`, the two queues of control state, the runtime | `send_message` (chain, follow-up, steer), `rewrite_queue`, `cancel`, drains, system reminder turns | clients, background tasks, the runtime, the log |
| **Turn** (`runUserTurn`, `handleRuntimeEvent`, `consumeSteer`, `checkTaskSupervision`, `autoCompactIfNeeded`, notices) | `RuntimeEventState.parentId` | append user, assistant, result, steer, alert, notice and compact nodes; build the next context | the runtime's events in, the tree out |
| **Agent runtime**, `packages/core/src/runtime` | the abort controller; the attempt, text and thinking of a provider call | `executeTurn` (an async generator), `cancel` | the provider, the tools, the lane as its consumer |
| **Event log, buffer, resync**, Daemon `#events`, `#seqs` | the sequence counter and the recorded events of a session | broadcast, `load_session`, `resync_events`, cold load (`getLane`) | the log below, the clients above |
| **WebUI attach**, `apps/webui/lib/connection/session.ts`, `lib/store/attach-cache.ts`, `lib/events/projector.ts` | the cache (outlives the connection), the projected view and its applied seqs | attach: subscribe, connect, load, resync | the host through the client library |

### Around it

| Component | State | Why it is interesting |
|---|---|---|
| File tools, `core/src/tools/coding-tools.ts` | per runtime: a snapshot of each file read, with the lines shown | others write the file between any two awaits of a call |
| Background bash and subagent tasks, `core/src/tools` | per task: completed, waiters, delivery started, event delivered | a result must reach the model once, by a poll or by a notice |
| Task supervision, `core/src/task-supervision` | counters over events | derived again after a restart; alerts once per turn |
| Memory, Daemon `#memoryDreams` and `core/src/memory` | dirty flag, idle timer, running flag, session memory files | a note written during a run must cause another run |
| MCP servers, `daemon/src/mcp-manager.ts` | connections by server | external processes |
| Project registry, `daemon/src/projects` | `projects.json`, a mutation chain | removal against creation of a session |
| IM bindings and channels, Daemon `#imBindings` | conversation to session | check, then create, across awaits |
| Relay server, `apps/relay/src` | presence (sockets of devices and clients), pairing codes, binding store | stale sockets, a failed store write, pairing |
| Host relay client, `daemon/src/relay` | the socket, one host connection per client, a reconnect timer | reconnection, frames handled concurrently |
| Client library, `packages/client/src` | pending requests, connection state | a request in flight when the connection breaks |
| WebUI connection pool, `apps/webui/lib/connection/pool.ts` | per device: state, retry count, timer, pending connect | retries, manual disconnect, fallback connector |
| Configuration, skills, instructions, provider adapters, observability, CLI, GUI, IM adapters | files and external services | I/O and presentation; nothing shared between steps |

### What is hard

*Concurrency.* The host is one JavaScript thread, and every `await` is a point
where another handler runs. Two promise chains per session order things: `lane.queue`
runs jobs one after another, `lane.appendQueue` writes one event after
another. What an event says (its parent, the new content of a queue) is
computed when it is chained, its sequence number when it is written.
*Failure.* A job that throws leaves `lane.queue` rejected; an append that fails
leaves `appendQueue` usable; an append interrupted by a crash leaves a fragment in the file.
*Ordering.* Clients see events live, in a resync's answer, and from their
cache, and must end with the same transcript.
*Timeouts and retries.* A provider call is retried with backoff, only before
any text, and a cancel may arrive at each suspension point. A compaction gives the
session memory five seconds; a device's connection is retried, kept idle for a
while and may be closed by the user at any moment.
*Files.* `projects.json` is replaced by a rename, the relay's store and
`im-bindings.json` are truncated and rewritten in place, a session's log is appended to:
each is read back after a stop as it was left.

## 2. The modules

One module per component, an instance for TLC beside each (`MC*`), and theorems about each
in a module `*Proofs`: `SessionProofs` has those of `SessionTree` and `SessionContext`, `ToolProofs` those
of `FileTools` and `TaskDelivery`, `ConnectionProofs` those of `Relay` and `ConnectionPool`, the
others those of the module they are named after. Where two modules share a module of theorems, one of
them has a prefix in the names of its variables' tuple, `Init`, `Next` and specification
(`ContextSpec`, `TaskSpec`, `PoolSpec`).

| Module | Models | Main variables and the code's |
|---|---|---|
| `SessionTree` | the session log and tree | `file`, `tail`: events.jsonl; `order`, `convOrder`, `children`, `rootId`, `currentSeq`, `control`: `SessionTree`'s fields; `pending`, `written`: an `append` around its await; `acknowledged`: what has returned |
| `SessionLane` | jobs, queues and turns of a lane | `chain`, `broken`: `lane.queue`; `appends`: `lane.appendQueue`; `recording`: handlers in `appendDiagnostic`; `followUp`, `steer`: `controlState.queues`; `waiters`: `followUpWaiters`; `turn`: the call of `runUserTurn` or `runSystemReminderTurn` in progress |
| `SerialTurns` | abstract: turns are serial, at most one per message, answered when over | implemented by `SessionLane` |
| `TurnTree` | where a turn's nodes go in the tree, and what the model is shown | `nodes`: the tree; `pending`: `lane.appendQueue`; `turn.parent`: `state.parentId`; `turn.leaf`: the leaf the context was built from |
| `SessionContext` | `buildContext` with compactions, retained events and hidden turns; automatic compaction; the session memory | `nodes`, `hidden`: the tree's conversation and `context_control` events; `turn`: `autoCompactIfNeeded` and the turn behind it; `memory`: the memory's file; `updates`, `latest`: the chain of updates and `#sessionMemoryUpdates` |
| `Runtime` | `executeTurn` | `controller`: `#controller`; `at`: where the generator is suspended or what it awaits; `attempt`, `text`, `own`, `thinking`: locals of `runProviderTurn` |
| `TurnEvents` | abstract: the grammar of a turn's events | implemented by `Runtime` |
| `FileTools` | Read, Write and Edit of one file by several agents | `reads`: `state.reads`; `call`: a tool call at one of its awaits; `file`, `clock`: the file with its mtime |
| `TaskDelivery` | background commands and subagents, their polls and notices, change of runtime, shutdown | `life`, `owner`, `returned`, `delivery`: a task's record and its `returnedRunning`, `deliveryPromise`, `delivered`; `call`: the tool call that waits; `path`, `side`: what the active branch holds and what was written beside it; `detached`: the runtime whose tools shutdown detached |
| `EventSync` | sequence numbers, buffer, resync, WebUI attach | `log`; `seqs`, `buffer`: `#seqs`, `#events`; `writing`: an append in its await; `client`: attach controllers with their caches |
| `HostSessions` | the project registry, the map of lanes, IM bindings | `projects`: projects.json; `header`: the sessions' files; `stored`: im-bindings.json; `lane`: `#sessions`; `bindings`: `#imBindings`; `chain`: `#mutation`; `req`: handlers, each at one of its awaits |
| `Relay` | relay server, host relay client, pairing, a client's requests | `presence`: `RelayPresence.#devices`; `hostSocket`, `timer`: the host's `#socket`, `#reconnectTimer`; `connection`: `#connections`; `file`, `jobs`, `broken`: the store and its `#queue`; `code`, `pair`, `auth`: pairing and relay-auth.json |
| `ConnectionPool` | the WebUI's pool with its state machine and transports | `entry`: pool entries with `state`, `pending`, `retryAttempt`, timers, `refCount`; `current`: `#entries`; `handle`: components' `ManagedConnection`s; `socket`: WebSockets with the promise of `connect` |

The modules meet at these assumptions. `TurnTree` uses that the active leaf is
the newest node; `SessionTree` checks and proves it (`ActiveLeafIsNewest`, theorem
`NewestIsActive`). `SessionLane` treats a turn as a few events between its user
message and its end; `Runtime` has the events in full and shows by refinement of
`TurnEvents` that one `turn_end` ends a turn. `SessionTree` takes one append at a time and
refuses a seq that does not grow; `SessionLane` and `TurnTree` model the chain that
serialises the appends, `EventSync` the counter that assigns the seqs. `TurnTree` has a
context as the path from the root to a leaf, `SessionContext` what `buildContext` makes of that
path. `TaskDelivery` writes a notice in one step; what its node's parent is, and
what that does to the turn, is `TurnTree`'s. `HostSessions` says when a session gets a lane
and how many; `SessionLane` is one of them. `Relay` carries requests whatever they
ask; `ConnectionPool` decides when a connection exists; `EventSync` starts at an
established one.

Variables called *history* in a module's comments are not state of the program; the properties
need them to speak of the past. Definitions marked *Mutant* are variations of the one that
follows them, as a plausible bug would have it; `PROJECT.json` names for each
property the mutant that breaks it. Nothing else uses them.

## 3. The runs

| Run | Instance | States | Shows |
|---|---|---|---|
| `session_tree` | 3 events, 1 slot, 2 contents, seq up to 3 | 8.3k | the log stays replayable, the tree mirrors it, the newest node is active, what was acknowledged comes back |
| `session_lane` | 3 messages, 1 task, 1 round, 1 fault, 1 restart, fair | 507k | serial turns, nothing runs after its request failed, queued follow-ups keep their waiter, chained messages are answered |
| `turn_tree` | 2 messages, 1 notice, 1 alert, 1 steer, 1 compaction, 2 calls, 1 round | 1.7M | a turn is one chain, contexts hold the turn and earlier turns where no notice forks |
| `session_context` | 6 nodes, 3 turns, 2 retained, 1 hidden turn, fair | 1.7M | no result without its call, compactions in time are fresh, a turn reaches the memory |
| `runtime` | 2 calls, 2 retries, 2 deltas, 1 round, 2 turns, fair | 8.4k | the event grammar, text neither repeated nor lost, a cancel is heeded |
| `file_tools` | 2 agents, texts of up to 2 lines out of 2, 3 calls, 1 foreign write or new runtime, 1 tick | 4.9M | nothing unseen is replaced, what was seen may be |
| `task_delivery` | 1 command, 1 subagent, 2 runtimes, 2 polls, 1 failing notice or diagnostic, fair | 231k | no result twice, none forgotten, shutdown stops what it detaches |
| `event_sync` | 2 clients, 2 persistent events, 3 recorded, 1 restart | 2.2M | the log's seqs increase, clients see only durable events, an attached client shows the log |
| `host_sessions` | 2 requests at a time, 3 in all, 2 directories, 2 sessions, 2 conversations, 2 projects, 1 stop, fair | 350k | the registry loses nothing, sessions keep their project, bindings lead to sessions, requests are answered |
| `relay` | 2 sockets, 2 requests, 2 pair codes, 1 restart, 1 failing write, fair | 300k | a pairing stays, the host becomes reachable, requests leave |
| `connection_pool` | 2 components, 1 retry, 2 entries, 3 asks, 4 sockets, direct, relay or both, fair | 183k | connected means connected, unused devices are let go, retries end |
| `one_runtime` | as `host_sessions` | | a violation, see below |

Every bound is a CONSTANT tested in a guard, but for the data of `FileTools` (the lines of a text).
They suffice for the cases that make the properties hard:

- `session_tree`: three events are a root, a branch and a new leaf after a reload.
- `session_lane`: two messages race for the queue while a third's turn runs; one round of tools
  lets a steer be consumed; one fault hits any write, any diagnostic or any preparation.
- `turn_tree`: two calls let another node come between two results; one round of tools,
  after which the model is called again on the refreshed context; one notice, before,
  during or after either turn; either turn may be a follow-up's, and the compaction in its preparation.
- `session_context`: with two retained events a compaction may have to start at a tool result,
  and six nodes hold a turn with a call, a compaction and a turn after it; three turns are
  two updates in the chain while a third compacts.
- `runtime`: two retries distinguish the first, a middle and the last attempt.
- `file_tools`: two lines are read in two Reads; a tick may or may not pass between two
  writes, so that mtime and size may agree though the text differs; a second agent is a
  foreign writer with the same tools, besides one that has none.
- `task_delivery`: two polls are one that waits when the task ends and one after;
  two runtimes are the one that owns the task and the one that polls, or the one that shutdown
  detaches and the one that a turn in its preparation selects then.
- `event_sync`: with three recorded events the buffer can start above a client's anchor, hold
  a transient between two persistent events, and be emptied by a restart.
- `host_sessions`: two mutations queue, or one crosses a creation, and a third request sees
  what they left, before or after a stop.
- `relay`: a second socket while the relay still holds the first; a second pair code
  after a failed one; a restart, or a failed write, between any two steps of these. The pair command may
  leave `relay-auth.json` half written at any time, without a bound.
- `connection_pool`: the code retries five times, and the state machine treats the attempts
  between first and last alike; one retry is enough for a timer to outlive what set it. Two entries
  are one torn down with its attempts still under way and the one that replaced it.

Symmetry is declared for event identities in `session_tree`, for clients in `event_sync`
and for agents in `file_tools`, whose runs check no liveness. Runs whose program may really stop
(all sent, nothing left within the bounds) do not check deadlock; `session_tree` does.

**Fairness.** Weak fairness throughout, of steps the program takes by itself.

- `SessionLane`: each step of the host's event loop once its promise is settled: starting a job,
  continuing a turn, finishing a write. Clients need not send, tasks need not complete,
  nothing has to fail or restart. `EndLoop` is fair: the model stops asking for tools at some
  point, which `MaxRounds` bounds anyway.
- `Runtime.FairSpec`: `Step`, every step of `executeTurn` with its provider, tools and refresh: the
  consumer asks for each next event (the daemon's `for await` does), and the awaited
  calls settle, an aborted one because it is given the signal; a provider or a tool that
  hangs for ever is outside the model. Cancels, new turns and a throwing consumer are not fair.
- `SessionContext`: `Maintain`: the model call and the file operations of a memory update
  end, well or not. Users and the turns' providers owe nothing.
- `TaskDelivery`: `CallStep` and `Post`: the wait of a tool call ends (each has a timeout), and so does
  the writing of a notice. Tasks need not end.
- `HostSessions`: `Continue(r)`: each awaited file operation succeeds or fails. A turn need not end.
- `Relay`: the reconnect timer, the close events of a broken socket at either end, handlers and writes,
  and each frame whose socket works. Users, networks and pair codes owe nothing.
- `ConnectionPool`: the idle timer and the retry timers. Networks, hosts and users owe nothing.

### Properties

`SessionTree`
- `LogReplayable`: `assertCanAppend` rejects no line that an append wrote, over crashes,
  failed writes and reloads.
- `TreeMirrorsLog`, `ActiveLeafIsNewest`: the memory is what the file says, and the
  active leaf, computed from the leaves, is the newest event.
- `AcknowledgedIsKept`: no session opens without an event whose append had returned: a reload brings
  back all of them, or refuses the file. What speaks of a log speaks of lines that parse.

`SessionLane`
- `SerialTurnsSpec`: refinement of `SerialTurns`.
- `NoRunAfterFailure`: a request that failed does not run or steer later (a client may send it
  again). The exception is one whose item was written and whose diagnostic then failed (`disowned`).
- `QueuedIsAnswerable`: a queued follow-up that waits has its requester on record. It says nothing
  of one that another rewrite removed, or that was popped and whose preparation failed.
- `Promised`, `NoticeHandled`: chained messages are answered and notices
  recorded, unless there was a failure or a restart.

`TurnTree`
- `TurnIsPath`: a turn's own nodes are one chain whatever else is written meanwhile.
- `ContextHasTurn`, `ContextHasEarlierTurns`: a model call is shown its whole
  turn if no notice was written while it ran, and every earlier turn, with the context events before
  it, if there is no notice. Alerts, steers, compactions and follow-ups do not disturb this; set aside
  is only a compaction or memory event in the preparation of a follow-up, which ends beside it.

`SessionContext`
- `ResultsHaveCalls`: no context has a tool result before, or without, its call.
- `CompactionIsFresh`: a compaction whose wait did not run out summarises every completed
  turn, unless the newest update failed.
- `MemoryCatchesUp`: what was completed reaches the memory's file, whatever older updates did. The host
  is not restarted in this module: a restart drops the chain of updates, which is in memory only.

`Runtime`
- `TurnEventsSpec`: refinement of `TurnEvents`.
- `TextIsWhatWasStreamed`, `CallsAreUnanswered`, `OnlyCancelLeavesCalls`,
  `NothingBeginsAfterCancel`, `CancelEnds`.

`FileTools`
- `OnlySeenIsReplaced`: whoever wrote the file before the check, a rename by Write or Edit replaces
  only a text whose every line the agent was shown or wrote.
- `SeenMayBeReplaced`: an agent that has seen all of it, in however many Reads, is not refused.

`TaskDelivery`
- `DeliveredOnce`: the context never has a result twice, by notice and by poll, unless the diagnostic
  after the notice failed or a subagent outlives its runtime.
- `Reported`: a task that was reported as running has its result written when it ends.
- `ShutdownStopsPresent`: after shutdown no command runs of the runtime the lane had then, not even
  of a call that was about to spawn it.

`EventSync`
- `LogIncreases`: across restarts, and counters that were set back, the seqs in the log
  grow: the tree's check is what ensures it. One lane owns the file here; two over one file, as
  `one_runtime` has them, are not modelled with their appends.
- `ShownIsDurable`: an event shown or cached is in the log under the same seq.
- `AttachedShowsLog`: an attached client whose cache had no gap below its
  anchor, under a counter that was not set back, shows exactly the log, except what was recorded
  between a full reload's answer and its receipt.

`HostSessions`
- `RegistryKeeps`: a directory is registered once, and an acknowledged project is there until
  somebody removes it.
- `AckedSessionKeepsProject`: no removal of a project with a session acknowledged before it was asked.
  A session created while the removal runs is not covered (divergences).
- `BoundSessionExists`: a binding, in memory or on disk, leads to a session whose file has its header.
  That it can be loaded takes a project besides, which a removal may have taken from it.
- `RequestsAnswered`: no request stays behind another's failed mutation.

`Relay`
- `AckedIsBound`: an acknowledged pairing stays in the store, over later failures and restarts.
- `HostReachable`: the relay comes to route to the socket on which the host listens.
- `RequestsLeave`: no request stays under way: it is answered, refused, or was sent to a socket that
  broke or is the pair command's, unless `relay-auth.json` is half written after it was sent.

`ConnectionPool`
- `ConnectedIsConnected`: a device shown as connected has a socket with a completed handshake.
- `UnusedIsLetGo`: a device without users leaves the pool.
- `RetriesEnd`: the pool stops retrying.

### Where the program departs from what the repository says

`one_runtime` checks `OneRuntimePerSession` ("at most one Runtime for an active session",
`docs/spec/daemon.md:133`) and TLC finds it violated: `getLane` looks a session up, awaits its
file and then sets the map, so two requests for a session that is not in memory, or is
still being created, work on two lanes. A lane that is created late sets the counter of
the loaded one back to 0.

Others were met while modelling and have no run of their own. Where they limit
a property, the property says so in its antecedent. "Daemon" is `packages/daemon/src/index.ts`.

*Log and lane*
- An interrupted append leaves a fragment, and `loadSession` rejects the whole session
  (`docs/spec/session.md:32` and `docs/spec/runtime.md:89` expect the message in progress to be lost).
- Of two follow-ups computed from the same queue the second rewrite removes the first
  (`docs/spec/ship/S0052:9`). Two rewrites of the steer queue that cross may keep an item that was consumed.
- A follow-up queued after the last drain of a job, or during a reminder turn,
  stays in the queue until the next message (S0052:152 expects it consumed when
  the turn ends). A steer queued after the loop's last look waits likewise.
- A follow-up or steer whose queue rewrite has landed and whose diagnostic fails then (Daemon:1625, 1650) is
  answered with an error and stays queued: it runs or steers later. A notice whose
  diagnostic fails stays in the log and gets no reminder turn (Daemon:1432). A popped follow-up whose preparation
  fails is never answered (Daemon:1670).
- `rewrite_queue` (Daemon:1188) with a view older than a pop brings the item back, and it runs twice. The
  code promises nothing of it, so it is no action of `SessionLane`.
- `load_session` during an append sets the counter back and the next append is refused
  (`docs/spec/events.md:64`; Daemon:1140): `EventSync.AppendIsAccepted` states what does not hold.

*Turns and contexts*
- A notice or an alert takes the active leaf as its parent; the turn's next own
  node is its sibling, so later contexts contain one or the other: the model may see a call without its
  result (`docs/spec/runtime.md:125`), or never the notice (S0116:82 relies on the refresh).
- A cancelled turn writes no "Cancelled by user" results (runtime.md:130), and
  a cancel before any text but after thinking still persists a message (runtime.md:88).
- Thinking of a failed attempt has been streamed when the retry begins, and is streamed again;
  only text is protected. The lines after `retryLoop` in `runProviderTurn` are
  unreachable: the last attempt's error ends the turn inside the loop.
- Hiding (Snip) the turn before a compaction hides the compact event with it and so undoes
  the compaction (`packages/core/src/session/index.ts:516`, Daemon:3360; S0086:89). A compaction before a
  reminder turn is written on a branch the reminder does not continue (Daemon:1334). Before a follow-up
  likewise: its message hangs on the leaf `drainFollowUps` read (Daemon:1674, 1232), so a compaction or a memory
  event of its own preparation becomes its sibling and no later context has it.
- When the wait for the session memory runs out the code reads the file as it is
  (Daemon:2184); S0086:61 expects a foreground compaction then.

*Tools and tasks*
- Between its check and its rename a Write or an Edit looks at nothing again: what somebody
  else writes there is overwritten unseen, and the snapshot then counts it as read
  (`docs/spec/tools.md:61` has every external modification fail the call). The same
  for a Write to a path that was absent when it looked.
- Edit without `replace_all` hands the new text to `String.replace`, which reads `$&` and `$$` in it
  as patterns (`packages/core/src/tools/coding-tools.ts:349`; tools.md:61 has an exact replacement).
- A cancel of the parent while Task starts a subagent leaves it running unreported; the commands
  of a replaced runtime survive shutdown (S0115:106). So do those of a runtime that comes after it: nothing
  in the preparation of a turn looks at `#shuttingDown`, so a turn that awaits `createRuntime` (Daemon:3440), or
  is queued, goes on and may start commands that nothing detaches.
- When the notice of a result is written and its diagnostic is not, the tool resets its delivery
  (`coding-tools.ts:962`, `subagent-tools.ts:129`): a later poll returns the result a second time.

*Clients, relay and host*
- Live events are cached before the resync is answered; a break leaves a gap below the anchor
  that no later attach fills (S0026:20). A full reload's client drops what was broadcast between
  the host's answer and its receipt (S0026:30). The projector ignores a seq it has applied, so an event
  with a seq used again after the counter was set back is not shown.
- A request in flight when its socket closes, or refused by the relay (`RelayTransport` drops
  `relay_error`), is never settled in the client. A host whose socket broke may answer on one that is not
  present any more (`docs/spec/relay.md:314`).
- `authorizeRelayClient` rewrites `relay-auth.json` in place (`packages/daemon/src/relay/auth.ts:94`) in a process of its own. A
  request that the host admits meanwhile is dropped: `isRelayClientAuthorized` throws, only a diagnostic is
  recorded (`host-client.ts:89`), and the client is neither answered nor refused. A command that dies in the
  write leaves the file so, and nobody is admitted or can pair until it is removed.
- Two sockets may serve one entry of the pool (S0035-webui-device-handshake.md:46), a lost connection is not
  shown since nothing dispatches `lost` (S0035:51), a failed WebSocket is categorised `unknown` and not
  retried (S0035:33), and a socket that closes during the handshake leaves the attempt pending for ever.
- Two first messages of one IM conversation create two sessions and the second binding
  wins (`docs/spec/channels.md:66`). Overlapping or interrupted writes of im-bindings.json may leave a text that
  cannot be parsed, with which the host does not start.
- A session created while its project is removed is left without it; the path for a file that
  exists already skips the check of the project (Daemon:1106).
- The dream over the daily notes (Daemon:2585, not modelled): the end of a run deletes the timer that its
  own rescheduling has set, so a note written during a run waits for the next one (S0089:38).

## 4. The proofs

TLAPS checks each theorem for every value of the constants that the named assumption
allows; every safety property of a passing run is one of them, and so are both
refinements. In each module the theorems follow from one inductive invariant per
specification: the properties are not inductive by themselves, since they say what is so in the end and not what
holds half-way through an append, a call or a turn. The invariant says that, each of its parts has a
name and a comment, and the proof that a step keeps it has a lemma per action.

### The session's log and tree: `SessionProofs`, first part

For any sets of events, slots and contents and any `MaxSeq`, from `ConstantsAssumption` and
`EventAssumption`:

| Theorem | Property |
|---|---|
| `TypeCorrect` | `TypeOK` |
| `Replayable` | `LogReplayable`, `LoadNeverRejects` |
| `MemoryIsLog` | `TreeMirrorsLog`, `TreeConsistent` |
| `NewestIsActive` | `ActiveLeafIsNewest` |
| `NothingAcknowledgedIsLost` | `AcknowledgedIsKept` |

That the file is a valid log depends on the event in flight having passed its check against a
tree that mirrors the file. The invariant `IInv` is `TypeOK` with `TreeInv` (the
events in memory form a valid log, and the newest node has no children),
`AppendInv` (a pending event would still pass its check) and `FileInv` (the file
without garbage is a valid log; a load's tree is a prefix of the file; the line just
written is the pending one). The lemmas follow the code: `ValidAppend` (an accepted
event extends a valid log), `ApplyTree` (the incremental structures stay exact),
`ReplayAccepts` (a reload accepts each line). `NothingAcknowledgedIsLost` adds `KeptInv`: while every line of the file parses, each
acknowledged event is among those that end with a newline, which no later write, whole or interrupted, takes away.

### Contexts and compaction: `SessionProofs`, second part

For any numbers of nodes, turns, retained events and hidden turns, from `ContextAssumption`:

| Theorem | Property |
|---|---|
| `ContextTypeCorrect` | `ContextTypeOK` |
| `ResultsFollowCalls` | `ResultsHaveCalls` |
| `CompactionsAreFresh` | `CompactionIsFresh` |

`ResultsFollowCalls` is about every context `buildContext` could return in every reachable state,
with compactions that retain a suffix and controls that hide turns. Its argument: a tool result hangs on
the node written right before it, a call or a result of the same call (`NodesOK`), and what a
control hides ends where a turn begins (`HiddenOK`). So in the path from the root each result is right behind
its predecessor (`PathChain`), and a set of nodes that has with every result also that predecessor
(it is *closed*) has its call (`ClosedHasCalls`). The context is closed because each thing it is made
by keeps that: a path, what hiding leaves of it (`VisibleClosed`), what follows a compaction
(`BehindClosed`), what a compaction retains, which the code moves forward past
results (`RetainedClosed`), and their joining (`JoinedClosed`). `CompactionsAreFresh` needs the queue
of memory updates: they run in order, only the first has begun, the memory's file has what the last
finished one wrote (`UpdatesOK`), and a compaction waits for the newest (`AwaitsOK`). `ContextInv` is the
conjunction.

### Turns in the tree: `TurnTreeProofs`

For any numbers of messages, notices, alerts, steers, compactions, calls and rounds, from
`TurnTreeAssumption`:

| Theorem | Property |
|---|---|
| `NodesHangOnEarlierNodes` | `TypeOK`, which has that parents are older than their children |
| `TurnNodesArePath` | `TurnIsPath` |
| `CallShowsTurn` | `ContextHasTurn` |
| `CallShowsEarlierTurns` | `ContextHasEarlierTurns` |

The invariant: what the turn waits for hangs on its own last node or, for an alert or a context event,
on the node that was newest when it was chained, which is still the newest when it is written unless a
notice came between (`PendingOK`); the turn's nodes are the path from its base to its last
node, and on the path to the newest node if no notice was written while its loop ran (`PathOK`); with no
notice in the session all turns hang together, those of follow-ups on the leaf they were taken from the
queue with (`EarlierOK`). `Quiet` and `NoNotice`, the conditions of these parts,
are the antecedents of the properties, where the program does fork (§3, divergences).

### The lane: `SessionLaneProofs`

For any messages, tasks, rounds, faults and restarts, from `LaneAssumption`:

| Theorem | Property |
|---|---|
| `TypeCorrect` | `TypeOK` |
| `QueuedFollowUpIsAnswerable` | `QueuedIsAnswerable` |
| `FailedNeverRuns` | `NoRunAfterFailure` |
| `ImplementsSerialTurns` | `SerialTurnsSpec` |

The invariant places each message (`MessageOK`): it is a job of the chain, a follow-up, a steer or still its handler's,
one at a time, in the queue as it is or in what a chained write will make of it; and what is still to
run has not run. This needs of the writes that a pop is the last to write the queue of follow-ups and
takes its message off (`WritesOK`), and of jobs that each message has one (`JobsOK`). The refinement has one
lemma per step of `SerialTurns` and shows of each action of `SessionLane` which it implements, or that it
stutters.

### The runtime: `RuntimeProofs`

For any finite set of calls and any bounds, from `RuntimeAssumption`:

| Theorem | Property |
|---|---|
| `TypeCorrect` | `TypeOK`: the controller is set exactly while a turn runs |
| `ToolsRunOnce` | `CallsAreUnanswered` |
| `TextKept` | `TextIsWhatWasStreamed` |
| `CallsAnswered` | `OnlyCancelLeavesCalls` |
| `CancelIsHeeded` | `NothingBeginsAfterCancel` |
| `ImplementsTurnEvents` | `TurnEventsSpec` |

Its `IInv` adds to `TypeOK` the event each suspension point has yielded
(`EventAt`), what is known while a provider streams (`StreamInv`: text of earlier
attempts is empty, the model is called with no call unanswered) and that tools run
only where the model asked for them (`ToolInv`). `CallsAnswered` needs `StopInv` besides: a
message that stops for tools is one executeTurn gets back. The refinement maps
each action of `Runtime` to one of `TurnEvents` or to a stutter.

### Tools and tasks: `ToolProofs`

For any agents, lines, clocks and bounds, from `FileAssumption`, and for any tasks, runtimes, polls and failures,
from `TaskDeliveryAssumption`:

| Theorem | Property |
|---|---|
| `TypeCorrect` | `TypeOK` |
| `SeenBeforeReplaced` | `OnlySeenIsReplaced` |
| `SeenIsWritable` | `SeenMayBeReplaced` |
| `TaskTypeCorrect` | `TaskTypeOK` |
| `ResultsReachTheModelOnce` | `DeliveredOnce` |
| `ShutdownStopsItsCommands` | `ShutdownStopsPresent` |

Of files, what is inductive relates each agent's snapshot and its call to what it was shown: `ReadsInv` (a
snapshot's covered lines were shown, of that very text, unless an Edit strayed; and if nobody else
wrote, it is the file's), `CallInv` (what each await of a call has established). Steps are of two
sorts, those that change only the calling agent's call (`CallStep`) and those that change the file under
everybody (`ForeignWrite`); `CheckInv` and `ComparedInv` carry a passed check to the rename.

Of tasks: what the tool of each runtime has told and delivered (`DeliveryOK`), that a notice in the context was
posted, and that where a result is, the task has ended with no notice under way and none there
(`ReportsOK`); and that while a call waits for a subagent of its runtime no notice of it is in the conversation but one whose
diagnostic failed (`ToolOK`).

### The host: `HostSessionsProofs`

For any requests, directories, sessions and conversations, from `HostAssumption`:

| Theorem | Property |
|---|---|
| `TypeCorrect` | `TypeOK`: the queue holds each mutation under way once |
| `RegistryKept` | `RegistryKeeps` |
| `ProjectsOfSessionsKept` | `AckedSessionKeepsProject` |
| `BindingsLead` | `BoundSessionExists` |

A request's later steps trust what its earlier ones found, and the proof says of what kind that
trust is: `AllFit` (each request has what its next steps need), `ChainOK` (the queue holds exactly
the mutations under way, and one at its head runs), `RegistryOK` (what a running mutation
has read is what the registry still holds) and `SessionsOK` (lanes, acknowledgements and bindings lead to
headers; a header has one writer).

### Relay and pool: `ConnectionProofs`

For any bounds, from `RelayAssumption`, and for any components, devices, entries, retries and sockets, from
`PoolAssumption`:

| Theorem | Property |
|---|---|
| `TypeCorrect` | `TypeOK` |
| `PairingKept` | `AckedIsBound` |
| `PoolTypeCorrect` | `PoolTypeOK` |
| `ShownIsConnected` | `ConnectedIsConnected` |

`PairingKept` follows the pairing through the store's queue: the command hears of success only after
its own write, and every later mutation rewrites what it finds.

`ShownIsConnected` is kept by every step but in need of an argument for one: an attempt that fails on a
connector with another behind it (`#tryFallbackConnector`) closes the client, and with it a socket that may be the one
that made the entry connected. It is not, because before its last connector an entry has one attempt at
most, knows it to be pending, is not connected, and has no retry timer (`EntryOK`, in `PoolInv`): a retry is scheduled only
after the last connector failed, and `#connect` returns when an attempt is pending. On the last
connector several attempts may fail one after the other, and none of them closes a socket (`LastFails`).
The pool's methods change one entry and sockets that are its own or free (`OnlyOf`), so one lemma per method serves
the entry the pool holds and those it has torn down alike.

### Clients and the log: `EventSyncProofs`

For any finite set of clients and any bounds, from `EventSyncAssumption`:

| Theorem | Property |
|---|---|
| `TypeCorrect` | `TypeOK` |
| `Ordered` | `LogIncreases` |
| `Durable` | `ShownIsDurable` |
| `ShowsLog` | `AttachedShowsLog` |

`ShowsLog` is the one with an argument. What a client shows depends on a counter, a buffer and a file read
at three different moments. The invariant says of each what it is worth later: `LogOK` (the
log's seqs increase, the buffer's persistent events are in it), `CounterOK` (while the counter was never
set back, it is ahead of log and buffer, no seq is in the buffer twice, and what the log got since some
event of the buffer is in the buffer: this is why coverage that begins right after the anchor is
complete), and for each client `Holds` (what it holds is of the log), `Follows` (no seq is applied
without its event) and `Covers` (view and outstanding answer together are the log). `LeastNatural` gives
the first event of an answer, the only place where the proof needs induction.

### Recursion and induction

`TurnTree.Path`, the paths and the filter of `SessionContext` and `ConnectionPool.FailedTimes` are recursive
functions on a set of numbers. That such a function satisfies its equation is proved, for each, by the
least number at which no function does (`LeastNatural`, from the library's well-founded induction), and what
it returns by the least number at which that is false.

**Only model-checked.** The liveness properties, since the provers treat neither fairness nor ENABLED:
`Promised`, `NoticeHandled`, `CancelEnds`, `Reported`, `HostReachable`, `RequestsLeave`, `UnusedIsLetGo`, `RetriesEnd`,
`RequestsAnswered` and `MemoryCatchesUp`. The other way about, `LoadNeverRejects`, `TreeConsistent` and the types of
the modules that have no run for them are proved and in no run of their own; the proved invariants imply them.

## 5. Not modelled, and why

- *Data*: texts, prompts, token counts, diagnostics, the rendering of a transcript. Where
  control depends on them (the estimate that triggers a compaction, a model's answer, an error's class)
  the models choose.
- *Parts of modelled components*: `rewrite_queue` by the user (it promises nothing to the items it does
  not list); a cancel that comes before the turn has a controller (nothing says what it should do); the
  anchors of the CLI and GUI clients, which resume from transient numbers; the client library's map of
  pending requests, which nothing settles when a socket closes; `releaseSessionEventBuffer`, which has
  no caller; the pool's shutdown, called by tests only.
- *Task supervision*: which counter raises an alert. Its moment and place are in `TurnTree`.
- *Dreams over the daily notes*: timers around one model call. See the divergences above.
- *MCP servers, provider adapters, IM adapters*: sequential I/O against programs that are not in
  the repository. `Runtime` has their outcomes.
- *WebUI lists and device store, configuration, skills, instructions, reminders*: files and
  storage read into values once per call; no state that two steps share.
- *Observability, reporting, evaluation, scripts*: written and not read back by the program.
- *CLI and GUI*: argument parsing and presentation over the client library. The CLI, the configuration
  and the renderer are the larger part of the repository's lines and keep no state that a
  model checker would reach and a test would not.

## 6. Plan

Proofs: what is left of them is about properties no run states yet. `SessionTree` could be shown to implement an abstract
log that loses nothing but its last line, `EventSync` an abstract reader of that log; and `SessionLane`, whose invariant
places every message, to lose none without a fault. Models: the dream's timers with the memory notes they wait
for; supervision's counters against a restart that derives them again; `rewrite_queue` with what it does to
items in flight; an `EventSync` client with a transient anchor. Each would take the place of a
weaker run or be composed with an existing one, so that the whole still checks in minutes.
