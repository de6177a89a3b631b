---------------------------- MODULE TaskDelivery ----------------------------
(***************************************************************************)
(* Background tasks of a session: shell commands (core/tools/coding-tools) *)
(* and subagents (core/tools/subagent-tools).  A tool call starts a task   *)
(* and waits for it; when the wait runs out the model gets a task id and   *)
(* the result reaches it later, pulled by a call that polls the id, or     *)
(* pushed by the host as a notice in the conversation                      *)
(* (packages/daemon/src/index.ts).  Both ways must not bring it twice, nor *)
(* leave it out.                                                           *)
(*                                                                         *)
(* Selecting another model gives the lane a new runtime with tools of its  *)
(* own; the state of the old tools lives on in their callbacks.  BashStop  *)
(* and TaskStop only bring a task's end forward: they are TaskEnd.         *)
(*                                                                         *)
(* Abstracted: what tasks print; waits end at any time; a command that is  *)
(* killed ends in that step; the append queue (TurnTree), a node is        *)
(* written in one step; the queue of turns (SessionLane), a turn may begin *)
(* whenever none is in progress, also once the host shuts down.            *)
(*                                                                         *)
(* ToolProofs extends this module and FileTools, hence the prefixed names. *)
(***************************************************************************)
EXTENDS Integers, FiniteSets

CONSTANTS
  Bash, Subagents,     \* the background tasks of each kind
  MaxRuntimes,         \* bound: runtimes the lane is given
  MaxPolls,            \* bound: calls that poll
  MaxFailures          \* bound: notices whose node or diagnostic cannot be appended

ASSUME TaskDeliveryAssumption ==
  /\ Bash \cap Subagents = {}
  /\ MaxRuntimes \in Nat \ {0} /\ MaxPolls \in Nat /\ MaxFailures \in Nat

VARIABLES
  life,      \* of a task: "none", "running", "ended"
  owner,     \* the runtime whose tool started it
  returned,  \* <<runtime, task>>: its tool has answered "running" (returnedRunning)
  delivery,  \* of a runtime's tool: where its notice of a task is
  unrecorded, \* history: tasks whose notice was written, and its diagnostic was not
  tool,      \* the tool call in progress
  turn,      \* "idle", "select": createRuntime is awaited, "model": the provider streams,
             \* "tools": it asked for tool calls, "cancelled": the signal is aborted
  path,      \* reports on the branch the turn's own nodes are on
  side,      \* notices at the active leaf, off that branch
  log,       \* history: every report written
  runtime,   \* lane.runtime
  detached,  \* the runtime whose tools shutdown detached, 0 before it
  fresh,     \* tasks started since the model's last message, which has not read their ids
  polls, failures

taskVars == <<life, owner, returned, delivery, unrecorded, tool, turn, path, side, log, runtime,
              detached, fresh, polls, failures>>
lane == <<turn, path, side, log>>
tasks == <<life, owner, returned, delivery, unrecorded>>
host == <<runtime, detached, fresh>>

Tasks == Bash \cup Subagents
Runtimes == 1..MaxRuntimes
Report == {"notice", "result", "delivered"} \X Tasks
NoTool == [op |-> "none"]
\* "begin": before the task is spawned; "wait": an active waiter; "settle": waits for deliveryPromise
Tool == [op : {"start", "poll"}, task : Tasks, step : {"begin", "wait", "settle"}]

\* #shuttingDown
Shut == detached # 0

Waiting(r, t) == r = runtime /\ tool # NoTool /\ tool.task = t /\ tool.step = "wait"

TaskInit ==
  /\ life = [t \in Tasks |-> "none"] /\ owner = [t \in Tasks |-> 1]
  /\ returned = {} /\ delivery = [x \in Runtimes \X Tasks |-> "none"] /\ unrecorded = {}
  /\ tool = NoTool /\ turn = "idle" /\ path = {} /\ side = {} /\ log = {}
  /\ runtime = 1 /\ detached = 0 /\ fresh = {} /\ polls = 0 /\ failures = 0

-----------------------------------------------------------------------------
\* The conversation.  A node of the turn hangs on its predecessor in the turn: it takes
\* the active leaf off the notices that came in between.
WriteOwn(reports) ==
  /\ path' = path \cup reports /\ side' = {}
  /\ log' = log \cup reports

\* A notice hangs on the active leaf, which the turn will not follow.
WriteNotice(t) ==
  /\ IF turn \in {"idle", "select"}
     THEN path' = path \cup {<<"notice", t>>} /\ UNCHANGED side
     ELSE side' = side \cup {<<"notice", t>>} /\ UNCHANGED path
  /\ log' = log \cup {<<"notice", t>>}
  /\ UNCHANGED turn

\* isDeliveryVisible: the notice is in the context of the active leaf
Visible(t) == <<"notice", t>> \in path \cup side

StartTurn ==
  /\ turn = "idle" /\ turn' = "model" /\ WriteOwn({})
  /\ UNCHANGED <<tasks, tool, host, polls, failures>>

ToolCalls ==
  /\ turn = "model" /\ turn' = "tools" /\ WriteOwn({}) /\ fresh' = {}
  /\ UNCHANGED <<tasks, tool, runtime, detached, polls, failures>>

NextModelCall ==
  /\ turn = "tools" /\ tool = NoTool /\ turn' = "model"
  /\ UNCHANGED <<tasks, tool, path, side, log, host, polls, failures>>

\* Runtime.cancel: the calls not begun are skipped
CancelTurn ==
  /\ turn \in {"model", "tools"} /\ turn' = "cancelled"
  /\ UNCHANGED <<tasks, tool, path, side, log, host, polls, failures>>

\* The last assistant message, or an error or cancel that writes none
EndTurn ==
  /\ turn \in {"model", "tools", "cancelled"} /\ tool = NoTool /\ turn' = "idle"
  /\ \/ turn # "tools" /\ WriteOwn({})
     \/ path' = path \cup side /\ side' = {} /\ UNCHANGED log
  /\ UNCHANGED <<tasks, tool, host, polls, failures>>

\* A compaction before a turn, or the Snip tool in it, takes reports out of the context.
Forget ==
  /\ turn \in {"idle", "tools"} /\ tool = NoTool
  /\ \E x \in path : path' = path \ {x}
  /\ UNCHANGED <<tasks, tool, turn, side, log, host, polls, failures>>

-----------------------------------------------------------------------------
\* Mutant: only what is waited for is delivered.
DeliverableNever(r, t, waited) ==
  /\ <<r, t>> \in returned /\ waited
  /\ delivery[<<r, t>>] \in {"none", "failed"}
  /\ t \in Bash => r # detached

\* maybeDeliver of the tool of runtime r, with the waiters it has after the step
Deliverable(r, t, waited) ==
  /\ <<r, t>> \in returned /\ ~waited
  /\ delivery[<<r, t>>] \in {"none", "failed"}
  /\ t \in Bash => r # detached

\* How the tool takes the end of onComplete: nothing is written once the host shuts down.
Settle(r, t, outcome) ==
  /\ outcome \in {"posted", "dropped", "failed"} /\ (outcome = "dropped") = Shut
  /\ outcome = "failed" => failures < MaxFailures
  /\ delivery' = [delivery EXCEPT ![<<r, t>>] = outcome]
  /\ failures' = failures + (IF outcome = "failed" THEN 1 ELSE 0)

\* The notice is written, then the diagnostic, and either may fail: the tool forgets the
\* delivery all the same.
OnComplete(r, t) ==
  \/ Settle(r, t, "posted") /\ WriteNotice(t) /\ UNCHANGED unrecorded
  \/ Settle(r, t, "failed") /\ WriteNotice(t) /\ unrecorded' = unrecorded \cup {t}
  \/ (Settle(r, t, "dropped") \/ Settle(r, t, "failed")) /\ UNCHANGED <<lane, unrecorded>>

\* The process exits or is killed; finish settles the subagent's `done`.  A subagent's
\* notice is chained at once, a shell command's output is read first.
TaskEnd(t) ==
  /\ life[t] = "running" /\ life' = [life EXCEPT ![t] = "ended"]
  /\ LET r == owner[t]
     IN \/ /\ ~Deliverable(r, t, Waiting(r, t))
           /\ UNCHANGED <<delivery, lane, unrecorded, failures>>
        \/ /\ Deliverable(r, t, Waiting(r, t)) /\ t \in Bash
           /\ delivery' = [delivery EXCEPT ![<<r, t>>] = "running"]
           /\ UNCHANGED <<lane, unrecorded, failures>>
        \/ Deliverable(r, t, Waiting(r, t)) /\ t \in Subagents /\ OnComplete(r, t)
  /\ UNCHANGED <<owner, returned, tool, host, polls>>

\* finishResult has read the output.
Post(r, t) ==
  /\ delivery[<<r, t>>] = "running" /\ OnComplete(r, t)
  /\ UNCHANGED <<life, owner, returned, tool, host, polls>>

-----------------------------------------------------------------------------
\* Bash({command}) and Task({prompt}): what precedes the spawn awaits.
BeginStart(t) ==
  /\ turn = "tools" /\ tool = NoTool /\ life[t] = "none"
  /\ tool' = [op |-> "start", task |-> t, step |-> "begin"]
  /\ UNCHANGED <<tasks, lane, host, polls, failures>>

\* Mutant: start does not look at `detaching`.
SpawnAnyway ==
  /\ tool # NoTool /\ tool.step = "begin"
  /\ life' = [life EXCEPT ![tool.task] = "running"]
  /\ owner' = [owner EXCEPT ![tool.task] = runtime]
  /\ tool' = [tool EXCEPT !.step = "wait"] /\ fresh' = fresh \cup {tool.task}
  /\ UNCHANGED <<returned, delivery, unrecorded, lane, runtime, detached, polls, failures>>

Spawn ==
  /\ tool # NoTool /\ tool.step = "begin" /\ (tool.task \in Bash => runtime # detached)
  /\ life' = [life EXCEPT ![tool.task] = "running"]
  /\ owner' = [owner EXCEPT ![tool.task] = runtime]
  /\ tool' = [tool EXCEPT !.step = "wait"] /\ fresh' = fresh \cup {tool.task}
  /\ UNCHANGED <<returned, delivery, unrecorded, lane, runtime, detached, polls, failures>>

\* "Bash registry is shutting down"
RefuseSpawn ==
  /\ tool # NoTool /\ tool.step = "begin" /\ tool.task \in Bash /\ runtime = detached
  /\ tool' = NoTool /\ WriteOwn({})
  /\ UNCHANGED <<tasks, turn, host, polls, failures>>

\* Bash({task_id}): another runtime's registry does not know the task, nor does one that is
\* detached in the end (the call fails and changes nothing).  Task({task_id}) may answer at
\* once.
Poll(t) ==
  /\ turn = "tools" /\ tool = NoTool /\ polls < MaxPolls /\ polls' = polls + 1
  /\ life[t] # "none" /\ t \notin fresh /\ (t \in Bash => owner[t] = runtime)
  /\ IF t \in Subagents /\ delivery[<<runtime, t>>] \in {"running", "posted", "dropped"} /\ Visible(t)
     THEN WriteOwn({<<"delivered", t>>}) /\ UNCHANGED <<tool, turn>>
     ELSE /\ tool' = [op |-> "poll", task |-> t, step |-> "wait"]
          /\ UNCHANGED lane
  /\ UNCHANGED <<tasks, host, failures>>

\* The wait runs out.
StillRunning ==
  /\ tool # NoTool /\ tool.step = "wait" /\ life[tool.task] = "running"
  /\ returned' = returned \cup {<<runtime, tool.task>>}
  /\ tool' = NoTool /\ WriteOwn({})
  /\ UNCHANGED <<life, owner, delivery, unrecorded, turn, host, polls, failures>>

\* project: a shell command's waiter is released, then a delivery under way is awaited
Release ==
  /\ tool # NoTool /\ tool.step = "wait" /\ tool.task \in Bash /\ life[tool.task] = "ended"
  /\ tool' = [tool EXCEPT !.step = "settle"]
  /\ UNCHANGED <<tasks, lane, host, polls, failures>>

\* Mutant: project does not await deliveryPromise.
SettledAlways(t) == TRUE

Settled(t) == delivery[<<runtime, t>>] # "running"

Answer ==
  /\ tool # NoTool /\ tool.step = "settle" /\ Settled(tool.task)
  /\ WriteOwn({<<IF delivery[<<runtime, tool.task>>] = "posted" /\ Visible(tool.task)
                 THEN "delivered" ELSE "result", tool.task>>})
  /\ tool' = NoTool
  /\ UNCHANGED <<tasks, turn, host, polls, failures>>

\* `finally` releases the waiter and offers the snapshot to maybeDeliver again, before the
\* result is written: the notice hangs on the assistant's message and the result beside it.
ReleaseSubagent(t, reports) ==
  \/ /\ life[t] = "ended" /\ Deliverable(runtime, t, FALSE)
     /\ \E written \in BOOLEAN :
          /\ \/ Settle(runtime, t, "posted") /\ written
             \/ Settle(runtime, t, "dropped") /\ ~written
             \/ Settle(runtime, t, "failed")
          /\ log' = log \cup reports \cup (IF written THEN {<<"notice", t>>} ELSE {})
          /\ unrecorded' = IF written /\ delivery'[<<runtime, t>>] = "failed"
                           THEN unrecorded \cup {t} ELSE unrecorded
     /\ path' = path \cup reports /\ side' = {}
  \/ /\ ~(life[t] = "ended" /\ Deliverable(runtime, t, FALSE))
     /\ WriteOwn(reports) /\ UNCHANGED <<delivery, unrecorded, failures>>

AnswerSubagent ==
  /\ tool # NoTool /\ tool.step = "wait" /\ tool.task \in Subagents /\ life[tool.task] = "ended"
  /\ ReleaseSubagent(tool.task, {<<"result", tool.task>>})
  /\ tool' = NoTool
  /\ UNCHANGED <<life, owner, returned, turn, host, polls>>

\* The turn is cancelled: the wait for a subagent throws, the subagent runs on.
AbortWait ==
  /\ turn = "cancelled" /\ tool # NoTool /\ tool.step = "wait" /\ tool.task \in Subagents
  /\ ReleaseSubagent(tool.task, {})
  /\ tool' = NoTool
  /\ UNCHANGED <<life, owner, returned, turn, host, polls>>

-----------------------------------------------------------------------------
\* selectChatRuntime, before a turn: createRuntime awaits the configuration and the MCP tools
SelectModel ==
  /\ turn = "idle" /\ turn' = "select"
  /\ UNCHANGED <<tasks, tool, path, side, log, host, polls, failures>>

\* lane.runtime is the new one, or createRuntime has failed
RuntimeSelected ==
  /\ turn = "select" /\ turn' = "idle"
  /\ runtime' \in {runtime, runtime + 1} \cap Runtimes
  /\ UNCHANGED <<tasks, tool, path, side, log, detached, fresh, polls, failures>>

\* shutdown: the turn in progress is cancelled and the tools of the lane's present runtime
\* are detached
Killed == {t \in Bash : owner[t] = runtime} \cup Subagents

Shutdown ==
  /\ ~Shut /\ detached' = runtime
  /\ turn' = IF turn \in {"model", "tools"} THEN "cancelled" ELSE turn
  /\ life' = [t \in Tasks |-> IF t \in Killed /\ life[t] = "running" THEN "ended" ELSE life[t]]
  /\ UNCHANGED <<owner, returned, delivery, unrecorded, tool, path, side, log, runtime, fresh,
                 polls, failures>>

-----------------------------------------------------------------------------
CallStep == Spawn \/ RefuseSpawn \/ StillRunning \/ Release \/ Answer \/ AnswerSubagent

TaskNext ==
  \/ StartTurn \/ ToolCalls \/ NextModelCall \/ CancelTurn \/ EndTurn \/ Forget
  \/ \E t \in Tasks : BeginStart(t) \/ Poll(t) \/ TaskEnd(t)
  \/ \E r \in Runtimes, t \in Tasks : Post(r, t)
  \/ CallStep \/ AbortWait \/ SelectModel \/ RuntimeSelected \/ Shutdown

\* A call's waits end, and so does the writing of a notice.  Turns, tasks and users owe nothing.
Fairness == WF_taskVars(CallStep) /\ \A r \in Runtimes, t \in Tasks : WF_taskVars(Post(r, t))

TaskSpec == TaskInit /\ [][TaskNext]_taskVars /\ Fairness

-----------------------------------------------------------------------------
\* Every variable has its type, and no notice is beside the branch between turns.
TaskTypeOK ==
  /\ life \in [Tasks -> {"none", "running", "ended"}] /\ owner \in [Tasks -> Runtimes]
  /\ returned \subseteq Runtimes \X Tasks
  /\ delivery \in [Runtimes \X Tasks -> {"none", "running", "posted", "dropped", "failed"}]
  /\ unrecorded \subseteq Tasks /\ tool \in Tool \cup {NoTool}
  /\ turn \in {"idle", "select", "model", "tools", "cancelled"}
  /\ path \subseteq Report /\ side \subseteq {"notice"} \X Tasks /\ log \subseteq Report
  /\ runtime \in Runtimes /\ detached \in 0..runtime /\ fresh \subseteq Tasks
  /\ polls \in 0..MaxPolls /\ failures \in 0..MaxFailures
  /\ turn \in {"idle", "select"} => side = {} /\ tool = NoTool

\* The model never has the full result of a task twice in its context, once pushed by the
\* host and once pulled by a poll, however completion, delivery, polls and cancels
\* interleave (maybeDeliver and project of coding-tools.ts and subagent-tools.ts), unless
\* the notice was written and its diagnostic was not, which the tool takes for no delivery,
\* or a subagent outlives its runtime: the new tools have no `delivered`.
DeliveredOnce ==
  \A t \in Tasks :
    {<<"notice", t>>, <<"result", t>>} \subseteq path
      => t \in unrecorded \/ (t \in Subagents /\ owner[t] < runtime)

\* A task that the model was told still runs is not forgotten once it ends: its result is
\* written, by a notice or as the answer of a poll, unless the notice could not be appended
\* or the host shuts down (maybeDeliver, whose waiter guard leaves the result to the poll).
Reported ==
  \A r \in Runtimes, t \in Tasks :
    (<<r, t>> \in returned /\ owner[t] = r /\ life[t] = "ended")
      ~> (\/ {<<"notice", t>>, <<"result", t>>} \cap log # {}
          \/ delivery[<<r, t>>] = "failed" \/ Shut)

\* After shutdown no shell command runs that belongs to the runtime the lane had then, not
\* even one whose call was about to spawn it when the tools were detached (shutdown, detach).
\* What still runs was started with a runtime replaced before, or with one that a turn in its
\* preparation, or a later one, gave the lane afterwards.
ShutdownStopsPresent ==
  Shut => \A t \in Bash : life[t] = "running" => owner[t] # detached
=============================================================================
