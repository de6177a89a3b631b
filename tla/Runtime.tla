------------------------------- MODULE Runtime -------------------------------
(***************************************************************************)
(* ScorelRuntime.executeTurn (packages/core/src/runtime/index.ts): the     *)
(* loop of provider calls and tools of one turn, with the retries of a     *)
(* provider call and the cancellation of the turn.  executeTurn is an      *)
(* async generator: at each event it is suspended until its consumer, the  *)
(* host, asks for the next one, and a cancel may come at any such point or *)
(* during a provider call, a backoff, a tool or refreshContext.            *)
(*                                                                         *)
(* Abstracted: what the text, the thinking, the tools and their results    *)
(* are, and the length of the backoff.  Whether an error is retryable      *)
(* (provider/retry.ts) is the environment's choice.                        *)
(***************************************************************************)
EXTENDS Integers, Sequences, FiniteSets, SequencesExt

CONSTANTS
  Call,         \* tool calls the model may ask for
  MaxAttempts,  \* retryConfig.maxAttempts: retries of one provider call
  MaxDeltas,    \* bound: text deltas of one message
  MaxRounds,    \* bound: provider calls in a turn after the first
  MaxTurns      \* bound: turns

ASSUME RuntimeAssumption ==
  /\ IsFiniteSet(Call)
  /\ MaxAttempts \in Nat /\ MaxDeltas \in Nat /\ MaxRounds \in Nat /\ MaxTurns \in Nat

VARIABLES
  controller,  \* #controller: "none", "live", or "aborted" by cancel()
  at,          \* where executeTurn is, see Place
  attempt,     \* attempt of runProviderTurn
  text,        \* text streamed for the message: how many deltas
  own,         \* of those, the ones of the current attempt: the text of the message
               \* a provider returns
  thinking,    \* thinking was streamed since the attempt began
  message,     \* the message being yielded, and what executeTurn does after it
  calls,       \* tool calls of the message left to execute
  event,       \* the event last yielded
  unanswered,  \* history: tool calls of the last message_end without a result
  rounds, turns

messageVars == <<attempt, text, own, thinking>>
vars == <<controller, at, attempt, text, own, thinking, message, calls, event, unanswered,
          rounds, turns>>

\* Suspended at the event just yielded: "start" (turn_start), "attempt"
\* (message_start), "stream" (a delta), "message", "error", "tool"
\* (tool_execution_start), "tools" (tool_execution_end), "turn_end".  Awaiting:
\* "next" (stream.next()), "backoff", "executing" (tool.execute), "refresh"
\* (refreshContext).
Suspended == {"start", "attempt", "stream", "message", "error", "tool", "tools", "turn_end"}
Place == {"idle"} \cup Suspended \cup {"next", "backoff", "executing", "refresh"}

\* max_tokens and unknown are treated as end_turn is
StopReason == {"end_turn", "tool_call", "error", "cancelled"}

\* What runProviderTurn returns after the message: the message, a stop reason
\* only, or "finished" after an error event.
Message == [stop : StopReason, text : 0..MaxDeltas, returns : {"message", "stop", "finished"}]
NoMessage == [stop |-> "end_turn", text |-> 0, returns |-> "stop"]

Aborted == controller = "aborted"

Yield(e, place) == event' = e /\ at' = place

Init ==
  /\ controller = "none" /\ at = "idle"
  /\ attempt = 0 /\ text = 0 /\ own = 0 /\ thinking = FALSE
  /\ message = NoMessage /\ calls = <<>>
  /\ event = "none" /\ unanswered = {}
  /\ rounds = 0 /\ turns = 0

-----------------------------------------------------------------------------
(* executeTurn. *)

ExecuteTurn ==
  /\ controller = "none" /\ turns < MaxTurns
  /\ controller' = "live" /\ Yield("turn_start", "start")
  /\ turns' = turns + 1 /\ rounds' = 0 /\ unanswered' = {} /\ calls' = <<>>
  /\ UNCHANGED <<messageVars, message>>

EndTurn ==
  /\ Yield("turn_end", "turn_end")
  /\ UNCHANGED <<controller, messageVars, message, calls, unanswered, rounds, turns>>

\* The top of the while.  runProviderTurn begins with message_start.
BeginMessage ==
  /\ at \in {"start", "refresh"} /\ ~Aborted
  /\ Yield("message_start", "attempt")
  /\ attempt' = 0 /\ text' = 0 /\ own' = 0 /\ thinking' = FALSE
  /\ rounds' = IF at = "refresh" THEN rounds + 1 ELSE rounds
  /\ UNCHANGED <<controller, message, calls, unanswered, turns>>

EndCancelledLoop == at \in {"start", "refresh"} /\ Aborted /\ EndTurn

\* The turn after the message: end it, or execute its tools
EndAfterMessage ==
  /\ at = "message"
  /\ \/ message.returns = "stop"
     \/ message.returns = "message" /\ (Aborted \/ calls = <<>> \/ message.stop # "tool_call")
  /\ EndTurn

\* The tools of a message run one by one
StartTool ==
  /\ calls # <<>> /\ ~Aborted
  /\ \/ at = "message" /\ message.returns = "message" /\ message.stop = "tool_call"
     \/ at = "tools"
  /\ Yield("tool_execution_start", "tool")
  /\ UNCHANGED <<controller, messageVars, message, calls, unanswered, rounds, turns>>

\* executeTool
ExecuteTool ==
  /\ at = "tool" /\ at' = "executing"
  /\ UNCHANGED <<controller, messageVars, message, calls, event, unanswered, rounds, turns>>

\* Mutant: the results are matched from the last call.
EndLastTool ==
  /\ at = "executing"
  /\ Yield("tool_execution_end", "tools")
  /\ calls' = Tail(calls) /\ unanswered' = unanswered \ {calls[Len(calls)]}
  /\ UNCHANGED <<controller, messageVars, message, rounds, turns>>

\* A tool that throws, or is not registered, yields its error as the result
EndTool ==
  /\ at = "executing"
  /\ Yield("tool_execution_end", "tools")
  /\ calls' = Tail(calls) /\ unanswered' = unanswered \ {Head(calls)}
  /\ UNCHANGED <<controller, messageVars, message, rounds, turns>>

\* Mutant: the turn ends after any tool.
EndAnyTools == at = "tools" /\ EndTurn

EndCancelledTools == at = "tools" /\ Aborted /\ EndTurn

\* Mutant: the loop goes on after the first tool.
RefreshEarly ==
  /\ at = "tools" /\ ~Aborted
  /\ at' = "refresh"
  /\ UNCHANGED <<controller, messageVars, message, calls, event, unanswered, rounds, turns>>

Refresh ==
  /\ at = "tools" /\ calls = <<>> /\ ~Aborted
  /\ at' = "refresh"
  /\ UNCHANGED <<controller, messageVars, message, calls, event, unanswered, rounds, turns>>

\* After turn_end the generator returns; its finally clears the controller
Return ==
  /\ at = "turn_end"
  /\ controller' = "none" /\ Yield("none", "idle")
  /\ UNCHANGED <<messageVars, message, calls, unanswered, rounds, turns>>

-----------------------------------------------------------------------------
(* runProviderTurn. *)

\* message_end
YieldMessage(stop, length, asked, returns) ==
  /\ Yield("message_end", "message")
  /\ message' = [stop |-> stop, text |-> length, returns |-> returns]
  /\ calls' = asked /\ unanswered' = ToSet(asked)
  /\ UNCHANGED <<controller, messageVars, rounds, turns>>

\* partialAssistantMessage has no message when nothing was streamed
Partial == text > 0 \/ thinking

\* {stopReason: "cancelled"}, after the partial message if there is one
ReturnCancelled ==
  IF Partial THEN YieldMessage("cancelled", text, <<>>, "stop")
             ELSE EndTurn

\* streamTurn, the first stream.next()
BeginAttempt ==
  /\ at = "attempt" /\ ~Aborted
  /\ at' = "next"
  /\ UNCHANGED <<controller, messageVars, message, calls, event, unanswered, rounds, turns>>

AwaitNext ==
  /\ at = "stream" /\ ~Aborted
  /\ at' = "next"
  /\ UNCHANGED <<controller, messageVars, message, calls, event, unanswered, rounds, turns>>

\* Mutant: an aborted backoff is not looked at.
CancelMessageNotInBackoff == at \in {"attempt", "stream"} /\ Aborted /\ ReturnCancelled

\* The top of retryLoop, of the inner while, or a sleep that the abort ended
CancelMessage == at \in {"attempt", "stream", "backoff"} /\ Aborted /\ ReturnCancelled

\* The provider streams text or thinking, also after an abort it has not seen
TextDelta ==
  /\ at = "next" /\ text < MaxDeltas
  /\ Yield("delta", "stream")
  /\ text' = text + 1 /\ own' = own + 1
  /\ UNCHANGED <<controller, attempt, thinking, message, calls, unanswered, rounds, turns>>

ThinkingDelta ==
  /\ at = "next" /\ ~thinking
  /\ Yield("delta", "stream")
  /\ thinking' = TRUE
  /\ UNCHANGED <<controller, attempt, text, own, message, calls, unanswered, rounds, turns>>

\* Mutant: any attempt may be repeated.
CanRetryAfterText == attempt < MaxAttempts /\ ~Aborted

\* Text that was streamed is not taken back: an attempt is repeated only when
\* there is none
CanRetry == text = 0 /\ attempt < MaxAttempts /\ ~Aborted

\* A retryable error, thrown or as the message's stop reason
Retry ==
  /\ at = "next" /\ CanRetry
  /\ at' = "backoff" /\ thinking' = FALSE
  /\ UNCHANGED <<controller, attempt, text, own, message, calls, event, unanswered, rounds, turns>>

\* The provider's own message, with the stop reason and the tool calls it has
ReceiveMessage(stop, asked) ==
  /\ at = "next" /\ (rounds = MaxRounds => asked = <<>>)
  /\ YieldMessage(stop, own, asked, "message")

\* The stream ends without a message: what was streamed is the message
ReceiveNothing ==
  /\ at = "next"
  /\ IF Partial THEN YieldMessage(IF Aborted THEN "cancelled" ELSE "end_turn", text, <<>>, "message")
                ELSE EndTurn

\* stream.next() throws: an AbortError (or anything, aborted), an error that is
\* retried, or one that ends the turn
ThrowAborted == at = "next" /\ ReturnCancelled

ThrowError ==
  /\ at = "next" /\ ~Aborted
  /\ IF Partial THEN YieldMessage("error", text, <<>>, "finished")
     ELSE /\ Yield("error", "error")
          /\ UNCHANGED <<controller, messageVars, message, calls, unanswered, rounds, turns>>

YieldError ==
  /\ at = "message" /\ message.returns = "finished"
  /\ Yield("error", "error")
  /\ UNCHANGED <<controller, messageVars, message, calls, unanswered, rounds, turns>>

EndAfterError == at = "error" /\ EndTurn

\* Mutant: the sleep ends the same for an abort.
EndBackoffUnchecked ==
  /\ at = "backoff"
  /\ at' = "next" /\ attempt' = attempt + 1 /\ own' = 0
  /\ UNCHANGED <<controller, text, thinking, message, calls, event, unanswered, rounds, turns>>

\* The sleep is over: the next attempt
EndBackoff ==
  /\ at = "backoff" /\ ~Aborted
  /\ at' = "next" /\ attempt' = attempt + 1 /\ own' = 0
  /\ UNCHANGED <<controller, text, thinking, message, calls, event, unanswered, rounds, turns>>

-----------------------------------------------------------------------------
(* The host. *)

Cancel ==
  /\ controller = "live" /\ controller' = "aborted"
  /\ UNCHANGED <<at, messageVars, message, calls, event, unanswered, rounds, turns>>

\* Mutant: the controller is cleared on return only.
AbandonRunning ==
  /\ at \in {"message", "tools", "refresh"}
  /\ Yield("none", "idle")
  /\ UNCHANGED <<controller, messageVars, message, calls, unanswered, rounds, turns>>

\* The handler of message_end or tool_execution_end, or refreshContext, throws (an
\* append failed): the generator returns through its finally.  The other
\* events are only broadcast.
Abandon ==
  /\ at \in {"message", "tools", "refresh"}
  /\ controller' = "none" /\ Yield("none", "idle")
  /\ UNCHANGED <<messageVars, message, calls, unanswered, rounds, turns>>

\* Tool calls in a message: none, or all in some order
Asked == {<<>>} \cup {s \in UNION {[1..n -> Call] : n \in 1..Cardinality(Call)} : IsInjective(s)}

Provider ==
  \/ TextDelta \/ ThinkingDelta \/ Retry \/ ReceiveNothing \/ ThrowAborted \/ ThrowError
  \/ \E stop \in StopReason, asked \in Asked : ReceiveMessage(stop, asked)

Step ==
  \/ BeginMessage \/ EndCancelledLoop \/ EndAfterMessage
  \/ StartTool \/ ExecuteTool \/ EndTool \/ EndCancelledTools \/ Refresh \/ Return
  \/ BeginAttempt \/ AwaitNext \/ CancelMessage \/ YieldError \/ EndAfterError \/ EndBackoff
  \/ Provider

Next == ExecuteTurn \/ Cancel \/ Abandon \/ Step

Spec == Init /\ [][Next]_vars

\* The consumer asks for every event; a provider call, a tool and refreshContext
\* come to an end by themselves (the provider and the tools get the signal).
FairSpec == Spec /\ WF_vars(Step)

-----------------------------------------------------------------------------
(* Properties. *)

\* Every variable has its type, and the runtime is running exactly while a turn
\* is: handleSendMessage routes a message by it.
TypeOK ==
  /\ controller \in {"none", "live", "aborted"}
  /\ at \in Place /\ (controller = "none") = (at = "idle")
  /\ attempt \in 0..MaxAttempts
  /\ text \in 0..MaxDeltas /\ own \in 0..MaxDeltas /\ thinking \in BOOLEAN
  /\ message \in Message
  /\ calls \in Seq(Call) /\ unanswered \in SUBSET Call
  /\ rounds \in 0..MaxRounds /\ turns \in 0..MaxTurns

\* A turn is the stream of events its consumer relies on: one turn_start, one
\* turn_end, each result after its call, and the model called again only with
\* all results, whatever is cancelled, retried or fails.
Events == INSTANCE TurnEvents
TurnEventsSpec == Events!Spec

\* The text of a message is the text streamed for it: a retry repeats none, an
\* error or a cancel drops none.
TextIsWhatWasStreamed == event = "message_end" => message.text = text

\* After a cancel no provider call, retry or tool begins.
NothingBeginsAfterCancel ==
  [][Aborted => /\ ~(at # "next" /\ at' = "next")
                /\ event' \in {"message_start", "tool_execution_start"} => event' = event]_vars

\* The tools of a message run in the model's order, each once: those still to
\* run are the ones without a result.
CallsAreUnanswered ==
  at \in {"message", "tool", "tools", "executing"} =>
    unanswered = ToSet(calls) /\ IsInjective(calls)

\* A turn that stops for tools leaves none of them without a result unless it is
\* cancelled (a cancelled one does: runtime.md, section 8, would have it write results).
OnlyCancelLeavesCalls ==
  at = "turn_end" /\ ~Aborted /\ message.stop = "tool_call" => unanswered = {}

\* A cancelled turn ends, and the lane it holds is free again.
CancelEnds == Aborted ~> at = "idle"
=============================================================================
