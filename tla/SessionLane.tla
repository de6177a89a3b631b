----------------------------- MODULE SessionLane -----------------------------
(***************************************************************************)
(* One SessionLane of the host (packages/daemon/src/index.ts): how the     *)
(* send_message requests of the clients and the completions of background  *)
(* tasks become turns of the session's runtime.                            *)
(*                                                                         *)
(* lane.queue is a promise chain: jobs run one after another, and a job    *)
(* that throws rejects every later job.  lane.appendQueue is another one:  *)
(* the writes to the log happen in the order they were chained, each some  *)
(* time after the caller computed what to write.  The queues of follow-ups *)
(* and steers are rewritten whole through it.                              *)
(*                                                                         *)
(* After its write a handler awaits a line in the session's diagnostics    *)
(* file (appendDiagnostic: mkdir and appendFile, which can reject), and    *)
(* only then answers or chains a reminder turn; the diagnostics of a turn  *)
(* are awaited by the turn, which throws with them.                        *)
(*                                                                         *)
(* Abstracted: the tree (TurnTree), the events of a turn other than the    *)
(* ones that touch a queue, the text of messages and diagnostics.          *)
(***************************************************************************)
EXTENDS Integers, Sequences, FiniteSets, SequencesExt

CONSTANTS
  Msg,          \* send_message requests, each sent at most once
  Task,         \* background Bash and subagent tasks that complete
  Nobody,       \* no job, no requester
  MaxRounds,    \* bound: tool rounds in a turn
  MaxFaults,    \* bound: failed appends, diagnostics and other steps of a turn
  MaxRestarts   \* bound: host restarts

ASSUME LaneAssumption ==
  /\ Msg \cap Task = {}
  /\ Nobody \notin Msg \cup Task
  /\ MaxRounds \in Nat /\ MaxFaults \in Nat /\ MaxRestarts \in Nat

VARIABLES
  request,    \* what the client of each message knows, see RequestState
  task,       \* each background task: "running", "noticed", "delivered"
  chain,      \* lane.queue: the jobs chained and not started
  broken,     \* lane.queue is rejected
  job,        \* the job lane.queue is running
  stage,      \* of a message's job: before, during or after its own turn
  turn,       \* the turn in progress, see NoTurn
  appends,    \* lane.appendQueue: the writes chained and not done
  followUp,   \* controlState.queues.follow_up, as the tree has it
  steer,      \* controlState.queues.steer
  waiters,    \* lane.followUpWaiters
  recording,  \* the handlers awaiting their diagnostic: <<whose, what it wrote>>
  turns,      \* history: user messages appended for each message
  guided,     \* history: steer items appended for each message
  faults, restarts

laneVars == <<chain, broken, job, stage>>
queueVars == <<followUp, steer>>
historyVars == <<turns, guided>>
boundVars == <<faults, restarts>>
vars == <<request, task, chain, broken, job, stage, turn, appends, followUp, steer,
          waiters, recording, turns, guided, faults, restarts>>

Job == Msg \cup Task

\* "waiting": sent, no response yet; "steering": answered {status: "queued"};
\* "completed" and "failed": answered; "disowned": answered with an error although
\* its item is in the queue; "lost": the host died first.  A client drops a second
\* answer (packages/client/src/index.ts:523).
RequestState == {"unsent", "waiting", "steering", "completed", "failed", "disowned", "lost"}

\* The steps of a turn of the message or task `of`.  "pop": drainFollowUps has
\* chained the rewrite that removes it; "prepare": the awaits before the user
\* message; "user": that message is chained; "model": the provider streams;
\* "event": an event of the turn is chained; "decide": it is written;
\* "steer_pop", "steer_item": consumeSteer moves `steered` into the tree;
\* "ending": the runtime loop is over.
Step == {"none", "pop", "prepare", "user", "model", "event", "decide",
         "steer_pop", "steer_item", "ending"}
NoTurn == [of |-> Nobody, step |-> "none", reply |-> FALSE, steered |-> Nobody, rounds |-> 0]

\* lane.runtime.running: executeTurn holds its controller
Running == turn.step \in {"model", "event", "decide", "steer_pop", "steer_item"}

\* A write to the log by a turn ("turn") or by the handler of a message.
Rewrite(by, queue, items) == [by |-> by, writes |-> queue, items |-> items]
Entry == [by |-> Nobody, writes |-> "event", items |-> <<>>]

Init ==
  /\ request = [m \in Msg |-> "unsent"]
  /\ task = [t \in Task |-> "running"]
  /\ chain = <<>> /\ broken = FALSE /\ job = Nobody /\ stage = "before"
  /\ turn = NoTurn
  /\ appends = <<>>
  /\ followUp = <<>> /\ steer = <<>>
  /\ waiters = {} /\ recording = {}
  /\ turns = [m \in Msg |-> 0] /\ guided = [m \in Msg |-> 0]
  /\ faults = 0 /\ restarts = 0

-----------------------------------------------------------------------------
(* handleSendMessage. *)

\* The client of m takes the first answer
Answer(m, as) == IF request[m] = "waiting" THEN [request EXCEPT ![m] = as] ELSE request

\* The runtime is running: the new content of the queue is computed now and
\* written when its turn in appendQueue comes.
EnqueueFollowUp(m) ==
  /\ request[m] = "unsent" /\ Running
  /\ request' = [request EXCEPT ![m] = "waiting"]
  /\ waiters' = waiters \cup {m}
  /\ appends' = Append(appends, Rewrite(m, "follow_up", Append(followUp, m)))
  /\ UNCHANGED <<task, laneVars, turn, queueVars, recording, historyVars, boundVars>>

EnqueueSteer(m) ==
  /\ request[m] = "unsent" /\ Running
  /\ request' = [request EXCEPT ![m] = "waiting"]
  /\ appends' = Append(appends, Rewrite(m, "steer", Append(steer, m)))
  /\ UNCHANGED <<task, laneVars, turn, queueVars, waiters, recording, historyVars, boundVars>>

\* The runtime is idle: the message becomes a job of the lane.  Chained to a
\* rejected promise it never runs and the request fails.
ChainMessage(m) ==
  /\ request[m] = "unsent" /\ ~Running
  /\ IF broken
     THEN request' = [request EXCEPT ![m] = "failed"] /\ UNCHANGED chain
     ELSE request' = [request EXCEPT ![m] = "waiting"] /\ chain' = Append(chain, m)
  /\ UNCHANGED <<task, broken, job, stage, turn, appends, queueVars, waiters, recording,
                 historyVars, boundVars>>

\* A background task completes: its notice is chained for the tree.
CompleteTask(t) ==
  /\ task[t] = "running"
  /\ task' = [task EXCEPT ![t] = "noticed"]
  /\ appends' = Append(appends, [Entry EXCEPT !.by = t])
  /\ UNCHANGED <<request, laneVars, turn, queueVars, waiters, recording, historyVars, boundVars>>

-----------------------------------------------------------------------------
(* Jobs of lane.queue. *)

StartJob ==
  /\ job = Nobody /\ chain # <<>>
  /\ job' = Head(chain) /\ chain' = Tail(chain)
  /\ IF Head(chain) \in Task
     THEN /\ turn' = [NoTurn EXCEPT !.of = Head(chain), !.step = "prepare"]
          /\ stage' = "own"
     ELSE stage' = "before" /\ UNCHANGED turn
  /\ UNCHANGED <<request, task, broken, appends, queueVars, waiters, recording, historyVars, boundVars>>

\* Mutant: the item stays in the queue.
PopFollowUpKept ==
  /\ job \in Msg /\ turn = NoTurn /\ stage # "own" /\ followUp # <<>>
  /\ turn' = [NoTurn EXCEPT !.of = Head(followUp), !.step = "pop"]
  /\ appends' = Append(appends, Rewrite(Nobody, "follow_up", followUp))
  /\ UNCHANGED <<request, task, laneVars, queueVars, waiters, recording, historyVars, boundVars>>

\* Mutant: the waiter is taken before the queue is rewritten.
PopFollowUpAndWaiter ==
  /\ job \in Msg /\ turn = NoTurn /\ stage # "own" /\ followUp # <<>>
  /\ turn' = [NoTurn EXCEPT !.of = Head(followUp), !.step = "pop"]
  /\ appends' = Append(appends, Rewrite(Nobody, "follow_up", Tail(followUp)))
  /\ waiters' = waiters \ {Head(followUp)}
  /\ UNCHANGED <<request, task, laneVars, queueVars, recording, historyVars, boundVars>>

\* drainFollowUps: take the head, chain the rewrite to the rest
PopFollowUp ==
  /\ job \in Msg /\ turn = NoTurn /\ stage # "own" /\ followUp # <<>>
  /\ turn' = [NoTurn EXCEPT !.of = Head(followUp), !.step = "pop"]
  /\ appends' = Append(appends, Rewrite(Nobody, "follow_up", Tail(followUp)))
  /\ UNCHANGED <<request, task, laneVars, queueVars, waiters, recording, historyVars, boundVars>>

\* drainFollowUps finds the queue empty
StartOwnTurn ==
  /\ job \in Msg /\ turn = NoTurn /\ stage = "before" /\ followUp = <<>>
  /\ stage' = "own"
  /\ turn' = [NoTurn EXCEPT !.of = job, !.step = "prepare", !.reply = TRUE]
  /\ UNCHANGED <<request, task, chain, broken, job, appends, queueVars, waiters, recording,
                 historyVars, boundVars>>

EndJob ==
  /\ job \in Msg /\ turn = NoTurn /\ stage = "after" /\ followUp = <<>>
  /\ job' = Nobody
  /\ UNCHANGED <<request, task, chain, broken, stage, turn, appends, queueVars, waiters, recording,
                 historyVars, boundVars>>

-----------------------------------------------------------------------------
(* The steps of a turn. *)

\* runUserTurn reaches its user message; a system reminder turn has none
AppendUser ==
  /\ turn.step = "prepare"
  /\ IF turn.of \in Msg
     THEN turn' = [turn EXCEPT !.step = "user"] /\ appends' = Append(appends, Entry)
     ELSE turn' = [turn EXCEPT !.step = "model"] /\ UNCHANGED appends
  /\ UNCHANGED <<request, task, laneVars, queueVars, waiters, recording, historyVars, boundVars>>

\* The runtime yields an assistant message or a tool result
YieldEvent ==
  /\ turn.step = "model"
  /\ turn' = [turn EXCEPT !.step = "event"]
  /\ appends' = Append(appends, Entry)
  /\ UNCHANGED <<request, task, laneVars, queueVars, waiters, recording, historyVars, boundVars>>

\* After tool results, refreshContext: consumeSteer, then the next model call
NextRound ==
  /\ turn.step = "decide" /\ turn.rounds < MaxRounds
  /\ IF steer = <<>>
     THEN turn' = [turn EXCEPT !.step = "model", !.rounds = @ + 1] /\ UNCHANGED appends
     ELSE /\ turn' = [turn EXCEPT !.step = "steer_pop", !.steered = Head(steer), !.rounds = @ + 1]
          /\ appends' = Append(appends, Rewrite(Nobody, "steer", Tail(steer)))
  /\ UNCHANGED <<request, task, laneVars, queueVars, waiters, recording, historyVars, boundVars>>

\* No tool calls, an error or a cancel: the loop ends
EndLoop ==
  /\ turn.step = "decide"
  /\ turn' = [turn EXCEPT !.step = "ending"]
  /\ UNCHANGED <<request, task, laneVars, appends, queueVars, waiters, recording, historyVars, boundVars>>

\* Mutant: a reminder turn never ends its job.
FinishTurnKeepsJob ==
  /\ turn.step = "ending"
  /\ request' = IF turn.reply THEN Answer(turn.of, "completed") ELSE request
  /\ turn' = NoTurn
  /\ stage' = IF stage = "own" THEN "after" ELSE stage
  /\ UNCHANGED <<task, chain, broken, job, appends, queueVars, waiters, recording, historyVars, boundVars>>

\* onComplete answers the requester; the job goes on to its next drain.  A
\* reminder turn is its whole job.
FinishTurn ==
  /\ turn.step = "ending"
  /\ request' = IF turn.reply THEN Answer(turn.of, "completed") ELSE request
  /\ turn' = NoTurn
  /\ stage' = IF stage = "own" THEN "after" ELSE stage
  /\ job' = IF turn.of \in Task THEN Nobody ELSE job
  /\ UNCHANGED <<task, chain, broken, appends, queueVars, waiters, recording, historyVars, boundVars>>

-----------------------------------------------------------------------------
(* lane.appendQueue, and what handlers do after their write. *)

Landed == appends # <<>>
AppendDone == appends' = Tail(appends)

\* What the write puts in the tree
Write(a) ==
  /\ followUp' = IF a.writes = "follow_up" THEN a.items ELSE followUp
  /\ steer' = IF a.writes = "steer" THEN a.items ELSE steer

\* The turn goes on when its write is done.  Its step tells what was written.
Resume ==
  CASE turn.step = "pop" -> [turn EXCEPT !.step = "prepare", !.reply = turn.of \in waiters]
    [] turn.step = "user" -> [turn EXCEPT !.step = "model"]
    [] turn.step = "event" -> [turn EXCEPT !.step = "decide"]
    [] turn.step = "steer_pop" -> [turn EXCEPT !.step = "steer_item"]
    [] turn.step = "steer_item" -> [turn EXCEPT !.step = "model", !.steered = Nobody]

\* drainFollowUps takes the waiter once the item is off the queue; consumeSteer
\* chains the steer item itself.
LandTurnAppend ==
  /\ Landed /\ Head(appends).by = Nobody
  /\ Write(Head(appends))
  /\ turn' = Resume
  /\ appends' = IF turn.step = "steer_pop" THEN Append(Tail(appends), Entry) ELSE Tail(appends)
  /\ waiters' = IF turn.step = "pop" THEN waiters \ {turn.of} ELSE waiters
  /\ turns' = IF turn.step = "user" THEN [turns EXCEPT ![turn.of] = @ + 1] ELSE turns
  /\ guided' = IF turn.step = "steer_item" THEN [guided EXCEPT ![turn.steered] = @ + 1]
                                          ELSE guided
  /\ UNCHANGED <<request, task, laneVars, recording, boundVars>>

\* The write of a message's handler, or of a task's notice, is in the log: the
\* handler goes on to its diagnostic
LandHandler ==
  /\ Landed /\ Head(appends).by # Nobody
  /\ AppendDone /\ Write(Head(appends))
  /\ recording' = recording \cup {<<Head(appends).by, Head(appends).writes>>}
  /\ UNCHANGED <<request, task, laneVars, turn, waiters, historyVars, boundVars>>

\* The handler of a follow-up returns without an answer, a steer is acknowledged
RecordEnqueue(m, queue) ==
  /\ <<m, queue>> \in recording
  /\ recording' = recording \ {<<m, queue>>}
  /\ request' = IF queue = "steer" THEN Answer(m, "steering") ELSE request
  /\ UNCHANGED <<task, laneVars, turn, appends, queueVars, waiters, historyVars, boundVars>>

\* Mutant: a notice that finds the runtime running is not recorded as delivered.
RecordNoticeOnlyIdle(t) ==
  /\ <<t, "event">> \in recording
  /\ recording' = recording \ {<<t, "event">>}
  /\ IF Running \/ broken THEN UNCHANGED <<task, chain>>
     ELSE task' = [task EXCEPT ![t] = "delivered"] /\ chain' = Append(chain, t)
  /\ UNCHANGED <<request, broken, job, stage, turn, appends, queueVars, waiters,
                 historyVars, boundVars>>

\* With the runtime idle a reminder turn is chained (to a rejected chain it
\* never runs)
RecordNotice(t) ==
  /\ <<t, "event">> \in recording
  /\ recording' = recording \ {<<t, "event">>}
  /\ task' = [task EXCEPT ![t] = "delivered"]
  /\ chain' = IF Running \/ broken THEN chain ELSE Append(chain, t)
  /\ UNCHANGED <<request, broken, job, stage, turn, appends, queueVars, waiters,
                 historyVars, boundVars>>

\* Mutant: the jobs after the one that throws run, though their requests failed.
RejectRequestsOnly ==
  /\ job' = Nobody /\ stage' = "before" /\ turn' = NoTurn
  /\ request' = [m \in Msg |-> IF m = job \/ \E i \in DOMAIN chain : chain[i] = m
                               THEN (IF request[m] = "waiting" THEN "failed" ELSE request[m])
                               ELSE request[m]]
  /\ UNCHANGED <<chain, broken>>

\* The job throws: the chain is rejected from here on, and the request of every
\* message job on it fails.  The requester of a follow-up that was popped, and
\* those still in waiters, hear nothing.
Reject ==
  /\ broken' = TRUE /\ chain' = <<>> /\ job' = Nobody /\ stage' = "before" /\ turn' = NoTurn
  /\ request' = [m \in Msg |-> IF m = job \/ \E i \in DOMAIN chain : chain[i] = m
                               THEN (IF request[m] = "waiting" THEN "failed" ELSE request[m])
                               ELSE request[m]]

Fault == faults < MaxFaults /\ faults' = faults + 1

\* The preparation throws (selectChatRuntime, the instruction snapshot, the skill
\* scan...), or a diagnostic the turn awaits before or after one of its events
FailTurn ==
  /\ turn.step \in {"prepare", "model", "decide", "ending"} /\ Fault /\ Reject
  /\ UNCHANGED <<task, appends, queueVars, waiters, recording, historyVars, restarts>>

\* session.append rejects: appendQueue goes on, the caller throws
FailAppend ==
  /\ Landed /\ Fault /\ AppendDone
  /\ IF Head(appends).by = Nobody
     THEN Reject
     ELSE /\ request' = IF Head(appends).by \in Msg THEN Answer(Head(appends).by, "failed")
                                                    ELSE request
          /\ UNCHANGED <<laneVars, turn>>
  /\ UNCHANGED <<task, queueVars, waiters, recording, historyVars, restarts>>

\* The diagnostic of a handler rejects: the request of the message is answered with
\* an error and its item stays in the queue; the notice of a task stays in the log
\* and no reminder turn is chained (what the tool does then is in TaskDelivery)
FailRecord ==
  \E r \in recording :
    /\ Fault
    /\ recording' = recording \ {r}
    /\ request' = IF r[1] \in Msg THEN Answer(r[1], "disowned") ELSE request
    /\ UNCHANGED <<task, laneVars, turn, appends, queueVars, waiters, historyVars, restarts>>

\* The host dies and starts again: the log keeps the queues, the rest is gone
Restart ==
  /\ restarts < MaxRestarts /\ restarts' = restarts + 1
  /\ chain' = <<>> /\ broken' = FALSE /\ job' = Nobody /\ stage' = "before" /\ turn' = NoTurn
  /\ appends' = <<>> /\ waiters' = {} /\ recording' = {}
  /\ request' = [m \in Msg |-> IF request[m] = "waiting" THEN "lost" ELSE request[m]]
  /\ UNCHANGED <<task, queueVars, historyVars, faults>>

Next ==
  \/ \E m \in Msg : EnqueueFollowUp(m) \/ EnqueueSteer(m) \/ ChainMessage(m)
  \/ \E t \in Task : CompleteTask(t)
  \/ StartJob \/ PopFollowUp \/ StartOwnTurn \/ EndJob
  \/ AppendUser \/ YieldEvent \/ NextRound \/ EndLoop \/ FinishTurn
  \/ LandTurnAppend \/ LandHandler
  \/ \E m \in Msg, queue \in {"follow_up", "steer"} : RecordEnqueue(m, queue)
  \/ \E t \in Task : RecordNotice(t)
  \/ FailTurn \/ FailAppend \/ FailRecord \/ Restart

Spec == Init /\ [][Next]_vars

\* The host's event loop runs every job, turn and write that can go on; a client
\* need not send, a task need not complete, and EndLoop is left to the bound
\* MaxRounds: the model stops calling tools at some point.
Fairness ==
  /\ WF_vars(StartJob) /\ WF_vars(PopFollowUp) /\ WF_vars(StartOwnTurn) /\ WF_vars(EndJob)
  /\ WF_vars(AppendUser) /\ WF_vars(YieldEvent) /\ WF_vars(NextRound) /\ WF_vars(EndLoop)
  /\ WF_vars(FinishTurn)
  /\ WF_vars(LandTurnAppend) /\ WF_vars(LandHandler)
  /\ \A t \in Task : WF_vars(RecordNotice(t))

FairSpec == Spec /\ Fairness

-----------------------------------------------------------------------------
(* Properties. *)

WriteRecord ==
  [by : Msg \cup Task \cup {Nobody}, writes : {"event", "follow_up", "steer"}, items : Seq(Msg)]

\* Every variable has its type, and a turn that is over leaves nothing behind
\* (the finally of runUserTurn).
TypeOK ==
  /\ request \in [Msg -> RequestState]
  /\ task \in [Task -> {"running", "noticed", "delivered"}]
  /\ chain \in Seq(Job) /\ broken \in BOOLEAN
  /\ job \in Job \cup {Nobody} /\ stage \in {"before", "own", "after"}
  /\ turn \in [of : Job \cup {Nobody}, step : Step, reply : BOOLEAN,
               steered : Msg \cup {Nobody}, rounds : 0..MaxRounds]
  /\ (turn.of = Nobody) = (turn = NoTurn) /\ (turn.step = "none") = (turn = NoTurn)
  /\ appends \in Seq(WriteRecord)
  /\ followUp \in Seq(Msg) /\ steer \in Seq(Msg)
  /\ waiters \in SUBSET Msg
  /\ recording \in SUBSET ((Msg \cup Task) \X {"event", "follow_up", "steer"})
  /\ turns \in [Msg -> Nat] /\ guided \in [Msg -> Nat]
  /\ faults \in 0..MaxFaults /\ restarts \in 0..MaxRestarts

\* The lane implements SerialTurns: whatever the interleaving of handlers, jobs
\* and writes, faults and restarts, turns do not overlap, no message runs twice,
\* and a requester is told "completed" only for the turn of its own message.
Serial == INSTANCE SerialTurns WITH
  sent <- {m \in Msg : request[m] # "unsent"},
  ran <- {m \in Msg : turns[m] > 0},
  current <- IF turn.of \in Msg /\ turn.step \notin {"pop", "prepare", "user"}
             THEN turn.of ELSE Nobody,
  answered <- {m \in Msg : request[m] = "completed"}
SerialTurnsSpec == Serial!Spec

\* A client told that its request failed may send it again: what has failed does
\* not run or steer later, whatever was queued, chained or half done when it failed.
\* The exception is a request disowned by a failed diagnostic, whose item stays.
NoRunAfterFailure ==
  [][\A m \in Msg : request[m] = "failed" => turns'[m] = turns[m] /\ guided'[m] = guided[m]]_vars

\* A follow-up in the queue that nobody has been told about still has its
\* requester in followUpWaiters: drained, it is answered.
QueuedIsAnswerable ==
  \A i \in DOMAIN followUp : request[followUp[i]] = "waiting" => followUp[i] \in waiters

\* What is in lane.queue gets its turn and is answered, however many follow-ups are
\* drained before it and reminders run, unless the host restarts or something fails.
Promised ==
  \A m \in Msg : (\E i \in DOMAIN chain : chain[i] = m)
     ~> request[m] = "completed" \/ faults > 0 \/ restarts > 0

\* A task that completes has its notice in the log, and its reminder turn, if
\* it got one, does not stay in the lane's queue, with the same exceptions.
NoticeHandled ==
  \A t \in Task : task[t] = "noticed"
     ~> \/ task[t] = "delivered" /\ job # t /\ \A i \in DOMAIN chain : chain[i] # t
        \/ faults > 0 \/ restarts > 0
=============================================================================
