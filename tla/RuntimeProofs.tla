---------------------------- MODULE RuntimeProofs ----------------------------
(***************************************************************************)
(* Theorems about Runtime, for any tool calls, retries, message lengths    *)
(* and numbers of rounds and turns.                                        *)
(***************************************************************************)
EXTENDS Runtime, SequenceTheorems, FiniteSetTheorems, TLAPS

\* Where executeTurn is suspended or awaits determines the event it last yielded.
EventAt ==
  /\ at = "idle" => event = "none"
  /\ at = "start" => event = "turn_start"
  /\ at = "attempt" => event = "message_start"
  /\ at = "stream" => event = "delta"
  /\ at \in {"next", "backoff"} => event \in {"message_start", "delta"}
  /\ at = "message" => event = "message_end"
  /\ at = "error" => event = "error"
  /\ at \in {"tool", "executing"} => event = "tool_execution_start"
  /\ at \in {"tools", "refresh"} => event = "tool_execution_end"
  /\ at = "turn_end" => event = "turn_end"

Streaming == {"attempt", "stream", "next", "backoff"}

\* The text of the attempts before the current one is empty, and the model is
\* called with every result.
StreamInv ==
  /\ at \in Streaming => own = text
  /\ at \in Streaming \cup {"start", "refresh"} => unanswered = {}
  /\ at = "backoff" => text = 0 /\ attempt < MaxAttempts
  /\ at = "message" => message.text = text

\* Tools run, and the loop goes on, only where the model asked for them.
ToolInv ==
  /\ CallsAreUnanswered
  /\ at \in {"tool", "executing"} => calls # <<>>
  /\ at \in {"tool", "executing", "tools", "refresh"} => rounds < MaxRounds
  /\ at = "message" /\ calls # <<>> => rounds < MaxRounds

IInv == TypeOK /\ EventAt /\ StreamInv /\ ToolInv

-----------------------------------------------------------------------------
(* The calls left after the first one is answered. *)
LEMMA TailOfCalls ==
  ASSUME NEW s \in Seq(Call), s # <<>>, IsInjective(s)
  PROVE  /\ Tail(s) \in Seq(Call) /\ IsInjective(Tail(s))
         /\ ToSet(Tail(s)) = ToSet(s) \ {Head(s)}
         /\ Head(s) \in ToSet(s) /\ ToSet(s) \subseteq Call
<1> DEFINE n == Len(s)
           t == Tail(s)
<1>1. /\ n \in Nat \ {0} /\ DOMAIN s = 1..n /\ t \in Seq(Call)
      /\ Len(t) = n - 1 /\ DOMAIN t = 1..(n - 1)
      /\ \A i \in 1..(n - 1) : t[i] = s[i + 1]
      /\ Head(s) = s[1] /\ \A i \in 1..n : s[i] \in Call
  OBVIOUS
<1>2. \A i, j \in 1..n : s[i] = s[j] => i = j
  BY <1>1 DEF IsInjective
<1>3. IsInjective(t)
  BY <1>1, <1>2 DEF IsInjective
<1>4. ToSet(t) \subseteq ToSet(s) \ {Head(s)}
  BY <1>1, <1>2 DEF ToSet
<1>5. ASSUME NEW c \in ToSet(s), c # Head(s)
      PROVE  c \in ToSet(t)
  <2>1. PICK i \in 1..n : s[i] = c
    BY <1>1, <1>5 DEF ToSet
  <2>2. i - 1 \in 1..(n - 1) /\ t[i - 1] = c
    BY <1>1, <1>5, <2>1
  <2> QED
    BY <1>1, <2>2 DEF ToSet
<1>6. Head(s) \in ToSet(s) /\ ToSet(s) \subseteq Call
  BY <1>1 DEF ToSet
<1>7. ToSet(t) = ToSet(s) \ {Head(s)}
  BY <1>4, <1>5
<1> QED
  BY <1>1, <1>3, <1>6, <1>7

(* No tool is asked for, or some in an order. *)
LEMMA AskedIsInjective ==
  ASSUME NEW asked \in Asked
  PROVE  asked \in Seq(Call) /\ IsInjective(asked)
<1>1. CASE asked = <<>>
  BY <1>1 DEF IsInjective
<1>2. CASE asked # <<>>
  <2>1. PICK n \in 1..Cardinality(Call) : asked \in [1..n -> Call]
    BY <1>2 DEF Asked
  <2>2. Cardinality(Call) \in Nat
    BY FS_CardinalityType, RuntimeAssumption
  <2> QED
    BY <1>2, <2>1, <2>2 DEF Asked
<1> QED
  BY <1>1, <1>2

LEMMA EmptyCalls == ToSet(<<>>) = {} /\ IsInjective(<<>>) /\ <<>> \in Seq(Call)
  BY DEF ToSet, IsInjective

LEMMA SomeCalls ==
  ASSUME NEW s \in Seq(Call)
  PROVE  /\ ToSet(s) \subseteq Call
         /\ s # <<>> <=> ToSet(s) # {}
<1>1. Len(s) \in Nat /\ DOMAIN s = 1..Len(s) /\ (s # <<>> <=> 1 \in DOMAIN s)
  OBVIOUS
<1> QED
  BY <1>1 DEF ToSet

-----------------------------------------------------------------------------
(* A turn may end wherever it is. *)
LEMMA EndTurnInv ==
  ASSUME IInv, at # "idle", EndTurn
  PROVE  IInv'
<1> USE DEF IInv, EndTurn, Yield, messageVars
<1>1. TypeOK'
  BY DEF TypeOK, Place, Suspended
<1>2. EventAt'
  BY DEF EventAt
<1>3. StreamInv'
  BY DEF StreamInv, Streaming
<1>4. ToolInv'
  BY DEF ToolInv, CallsAreUnanswered
<1> QED
  BY <1>1, <1>2, <1>3, <1>4

(* What is yielded has the text of the message. *)
LEMMA YieldMessageInv ==
  ASSUME IInv, at # "idle",
         NEW stop \in StopReason, NEW returns \in {"message", "stop", "finished"},
         NEW asked \in Seq(Call), IsInjective(asked), asked # <<>> => rounds < MaxRounds,
         YieldMessage(stop, text, asked, returns)
  PROVE  IInv'
<1> USE DEF IInv, YieldMessage, Yield, messageVars
<1>1. TypeOK'
  BY SomeCalls DEF TypeOK, Place, Suspended, Message
<1>2. EventAt'
  BY DEF EventAt
<1>3. StreamInv'
  BY DEF StreamInv, Streaming
<1>4. ToolInv'
  BY DEF ToolInv, CallsAreUnanswered, TypeOK
<1> QED
  BY <1>1, <1>2, <1>3, <1>4

LEMMA ReturnCancelledInv ==
  ASSUME IInv, at # "idle", ReturnCancelled
  PROVE  IInv'
  BY EndTurnInv, YieldMessageInv, EmptyCalls DEF ReturnCancelled, StopReason

-----------------------------------------------------------------------------
(* The invariant. *)
LEMMA InitIInv == Init => IInv
<1> SUFFICES ASSUME Init
             PROVE  IInv
  OBVIOUS
<1> USE DEF Init
<1>1. NoMessage \in Message /\ {0} \subseteq 0..MaxAttempts \cap 0..MaxDeltas
      /\ 0 \in 0..MaxRounds /\ 0 \in 0..MaxTurns
  BY RuntimeAssumption DEF NoMessage, Message, StopReason
<1>2. TypeOK
  BY <1>1, EmptyCalls DEF TypeOK, Place, Suspended
<1>3. EventAt /\ StreamInv
  BY DEF EventAt, StreamInv, Streaming
<1>4. ToolInv
  BY DEF ToolInv, CallsAreUnanswered
<1> QED
  BY <1>2, <1>3, <1>4 DEF IInv

LEMMA StepIInv == IInv /\ [Next]_vars => IInv'
<1> SUFFICES ASSUME IInv, [Next]_vars
             PROVE  IInv'
  OBVIOUS
<1> USE RuntimeAssumption
<1>1. CASE ExecuteTurn
  BY <1>1, EmptyCalls DEF ExecuteTurn, IInv, TypeOK, Place, Suspended, EventAt, StreamInv, Streaming,
         ToolInv, CallsAreUnanswered, Yield, Aborted, messageVars
<1>2. CASE BeginMessage
  <2> USE <1>2 DEF BeginMessage, IInv, Yield, Aborted
  <2>1. rounds' \in 0..MaxRounds /\ 0 \in 0..MaxAttempts /\ 0 \in 0..MaxDeltas
    BY DEF TypeOK, ToolInv
  <2>2. (controller' = "none") = (at' = "idle")
    BY DEF TypeOK
  <2>3. TypeOK'
    BY <2>1, <2>2 DEF TypeOK, Place, Suspended
  <2>4. EventAt' /\ StreamInv'
    BY DEF EventAt, StreamInv, Streaming
  <2>5. ToolInv'
    BY DEF ToolInv, CallsAreUnanswered
  <2> QED
    BY <2>3, <2>4, <2>5
<1>3. CASE EndCancelledLoop
  BY <1>3, EndTurnInv DEF EndCancelledLoop
<1>4. CASE EndAfterMessage
  BY <1>4, EndTurnInv DEF EndAfterMessage
<1>5. CASE StartTool
  BY <1>5 DEF StartTool, IInv, TypeOK, Place, Suspended, EventAt, StreamInv, Streaming,
         ToolInv, CallsAreUnanswered, Yield, Aborted, messageVars
<1>6. CASE ExecuteTool
  BY <1>6 DEF ExecuteTool, IInv, TypeOK, Place, Suspended, EventAt, StreamInv, Streaming,
         ToolInv, CallsAreUnanswered, Yield, Aborted, messageVars
<1>7. CASE EndTool
  BY <1>7, TailOfCalls, SomeCalls DEF EndTool, IInv, TypeOK, Place, Suspended, EventAt, StreamInv, Streaming,
         ToolInv, CallsAreUnanswered, Yield, Aborted, messageVars
<1>8. CASE EndCancelledTools
  BY <1>8, EndTurnInv DEF EndCancelledTools
<1>9. CASE Refresh
  BY <1>9, EmptyCalls DEF Refresh, IInv, TypeOK, Place, Suspended, EventAt, StreamInv, Streaming,
         ToolInv, CallsAreUnanswered, Yield, Aborted, messageVars
<1>10. CASE Return
  BY <1>10 DEF Return, IInv, TypeOK, Place, Suspended, EventAt, StreamInv, Streaming,
         ToolInv, CallsAreUnanswered, Yield, Aborted, messageVars
<1>11. CASE BeginAttempt
  BY <1>11 DEF BeginAttempt, IInv, TypeOK, Place, Suspended, EventAt, StreamInv, Streaming,
         ToolInv, CallsAreUnanswered, Yield, Aborted, messageVars
<1>12. CASE AwaitNext
  BY <1>12 DEF AwaitNext, IInv, TypeOK, Place, Suspended, EventAt, StreamInv, Streaming,
         ToolInv, CallsAreUnanswered, Yield, Aborted, messageVars
<1>13. CASE CancelMessage
  BY <1>13, ReturnCancelledInv DEF CancelMessage
<1>14. CASE TextDelta
  BY <1>14 DEF TextDelta, IInv, TypeOK, Place, Suspended, EventAt, StreamInv, Streaming,
         ToolInv, CallsAreUnanswered, Yield, Aborted, messageVars
<1>15. CASE ThinkingDelta
  BY <1>15 DEF ThinkingDelta, IInv, TypeOK, Place, Suspended, EventAt, StreamInv, Streaming,
         ToolInv, CallsAreUnanswered, Yield, Aborted, messageVars
<1>16. CASE Retry
  BY <1>16 DEF Retry, IInv, TypeOK, Place, Suspended, EventAt, StreamInv, Streaming,
         ToolInv, CallsAreUnanswered, Yield, Aborted, messageVars, CanRetry
<1>17. ASSUME NEW stop \in StopReason, NEW asked \in Asked, ReceiveMessage(stop, asked)
      PROVE  IInv'
  <2>1. at = "next" /\ own = text /\ rounds \in 0..MaxRounds
    BY <1>17 DEF ReceiveMessage, IInv, StreamInv, Streaming, TypeOK
  <2> QED
    BY <1>17, <2>1, AskedIsInjective, YieldMessageInv DEF ReceiveMessage
<1>18. CASE ReceiveNothing
  BY <1>18, EndTurnInv, YieldMessageInv, EmptyCalls DEF ReceiveNothing, StopReason
<1>19. CASE ThrowAborted
  BY <1>19, ReturnCancelledInv DEF ThrowAborted
<1>20. CASE ThrowError
  <2>1. CASE Partial
    BY <1>20, <2>1, YieldMessageInv, EmptyCalls DEF ThrowError, StopReason
  <2>2. CASE ~Partial
    BY <1>20, <2>2 DEF ThrowError, IInv, TypeOK, Place, Suspended, EventAt, StreamInv, Streaming,
         ToolInv, CallsAreUnanswered, Yield, Aborted, messageVars
  <2> QED
    BY <2>1, <2>2
<1>21. CASE YieldError
  BY <1>21 DEF YieldError, IInv, TypeOK, Place, Suspended, EventAt, StreamInv, Streaming,
         ToolInv, CallsAreUnanswered, Yield, Aborted, messageVars
<1>22. CASE EndAfterError
  BY <1>22, EndTurnInv DEF EndAfterError
<1>23. CASE EndBackoff
  BY <1>23 DEF EndBackoff, IInv, TypeOK, Place, Suspended, EventAt, StreamInv, Streaming,
         ToolInv, CallsAreUnanswered, Yield, Aborted, messageVars
<1>24. CASE Cancel
  BY <1>24 DEF Cancel, IInv, TypeOK, Place, Suspended, EventAt, StreamInv, Streaming,
         ToolInv, CallsAreUnanswered, Yield, Aborted, messageVars
<1>25. CASE Abandon
  BY <1>25 DEF Abandon, IInv, TypeOK, Place, Suspended, EventAt, StreamInv, Streaming,
         ToolInv, CallsAreUnanswered, Yield, Aborted, messageVars
<1>26. CASE UNCHANGED vars
  BY <1>26 DEF vars, IInv, TypeOK, Place, Suspended, EventAt, StreamInv, Streaming,
         ToolInv, CallsAreUnanswered, Yield, Aborted, messageVars, Message
<1> QED
  BY <1>1, <1>2, <1>3, <1>4, <1>5, <1>6, <1>7, <1>8, <1>9, <1>10, <1>11, <1>12,
     <1>13, <1>14, <1>15, <1>16, <1>17, <1>18, <1>19, <1>20, <1>21, <1>22, <1>23, <1>24,
     <1>25, <1>26 DEF Next, Step, Provider, vars

LEMMA Invariant == Spec => []IInv
  BY InitIInv, StepIInv, PTL DEF Spec

\* Every variable has its type, and the runtime says it is running (controller) exactly
\* while executeTurn is: handleSendMessage queues or starts a message by it.
THEOREM TypeCorrect == Spec => []TypeOK
<1>1. IInv => TypeOK
  BY DEF IInv
<1> QED
  BY <1>1, Invariant, PTL

\* The tools of a message run in the model's order, each once: executeTurn's calls left
\* to run are exactly those without a result.
THEOREM ToolsRunOnce == Spec => []CallsAreUnanswered
<1>1. IInv => CallsAreUnanswered
  BY DEF IInv, ToolInv
<1> QED
  BY <1>1, Invariant, PTL

\* The text of a message_end is the text streamed for it: retries of runProviderTurn
\* repeat none, and an error, a cancel or an end of the stream drops none.
THEOREM TextKept == Spec => []TextIsWhatWasStreamed
<1>1. IInv => TextIsWhatWasStreamed
  BY DEF IInv, TypeOK, Place, Suspended, EventAt, StreamInv, TextIsWhatWasStreamed
<1> QED
  BY <1>1, Invariant, PTL

-----------------------------------------------------------------------------
\* A message that stops for tools is returned to executeTurn, which runs them; an error or
\* a provider call that comes to nothing finds every earlier call with its result.
StopInv ==
  /\ message.returns # "message" => message.stop # "tool_call"
  /\ at = "error" /\ message.stop = "tool_call" => unanswered = {}
  /\ OnlyCancelLeavesCalls

(* The ends of a turn that is not cancelled. *)
LEMMA StepStopInv ==
  ASSUME IInv, StopInv, [Next]_vars
  PROVE  StopInv'
<1> USE DEF StopInv, OnlyCancelLeavesCalls, Yield, EndTurn, Aborted, messageVars
<1>1. CASE UNCHANGED vars
  BY <1>1 DEF vars
<1>2. CASE ExecuteTurn \/ Cancel \/ Abandon \/ Return
  BY <1>2 DEF ExecuteTurn, Cancel, Abandon, Return
<1>3. CASE BeginMessage \/ StartTool \/ ExecuteTool \/ EndTool \/ Refresh
  BY <1>3 DEF BeginMessage, StartTool, ExecuteTool, EndTool, Refresh
<1>4. CASE EndCancelledLoop \/ EndCancelledTools
  BY <1>4 DEF EndCancelledLoop, EndCancelledTools
<1>5. CASE EndAfterMessage
  <2>1. calls = <<>> => unanswered = {}
    BY <1>5, EmptyCalls DEF EndAfterMessage, IInv, ToolInv, CallsAreUnanswered
  <2> QED
    BY <1>5, <2>1 DEF EndAfterMessage
<1>6. CASE BeginAttempt \/ AwaitNext \/ TextDelta \/ ThinkingDelta \/ Retry \/ EndBackoff
  BY <1>6 DEF BeginAttempt, AwaitNext, TextDelta, ThinkingDelta, Retry, EndBackoff
<1>7. CASE CancelMessage \/ ThrowAborted
  <2>1. unanswered = {}
    BY <1>7 DEF CancelMessage, ThrowAborted, IInv, StreamInv, Streaming
  <2> QED
    BY <1>7, <2>1 DEF CancelMessage, ThrowAborted, ReturnCancelled, YieldMessage
<1>8. CASE ReceiveNothing
  <2>1. unanswered = {}
    BY <1>8 DEF ReceiveNothing, IInv, StreamInv, Streaming
  <2> QED
    BY <1>8, <2>1 DEF ReceiveNothing, YieldMessage
<1>9. CASE ThrowError
  <2>1. unanswered = {}
    BY <1>9 DEF ThrowError, IInv, StreamInv, Streaming
  <2> QED
    BY <1>9, <2>1 DEF ThrowError, YieldMessage
<1>10. CASE YieldError \/ EndAfterError
  BY <1>10 DEF YieldError, EndAfterError
<1>11. ASSUME NEW stop \in StopReason, NEW asked \in Asked, ReceiveMessage(stop, asked)
       PROVE  StopInv'
  BY <1>11 DEF ReceiveMessage, YieldMessage
<1> QED
  BY <1>1, <1>2, <1>3, <1>4, <1>5, <1>6, <1>7, <1>8, <1>9, <1>10, <1>11 DEF Next, Step, Provider

\* executeTurn that stops for tools, and is not cancelled, leaves no call without a result.
THEOREM CallsAnswered == Spec => []OnlyCancelLeavesCalls
<1>1. Init => StopInv
  BY DEF Init, StopInv, OnlyCancelLeavesCalls, NoMessage
<1>2. IInv /\ StopInv /\ [Next]_vars => StopInv'
  BY StepStopInv
<1>3. StopInv => OnlyCancelLeavesCalls
  BY DEF StopInv
<1> QED
  BY <1>1, <1>2, <1>3, Invariant, PTL DEF Spec

-----------------------------------------------------------------------------
(* No step but these makes the runtime await a provider or announce a call. *)
LEMMA BeginsUncancelled ==
  ASSUME IInv, [Next]_vars, Aborted
  PROVE  /\ ~(at # "next" /\ at' = "next")
         /\ event' \in {"message_start", "tool_execution_start"} => event' = event
<1> USE DEF Aborted, Yield, EndTurn, ReturnCancelled, YieldMessage
<1>1. CASE UNCHANGED vars
  BY <1>1 DEF vars
<1>2. CASE ExecuteTurn \/ Cancel \/ Abandon
  BY <1>2 DEF ExecuteTurn, Cancel, Abandon
<1>3. CASE BeginMessage \/ EndCancelledLoop \/ EndAfterMessage \/ StartTool \/ ExecuteTool \/ EndTool
  BY <1>3 DEF BeginMessage, EndCancelledLoop, EndAfterMessage, StartTool, ExecuteTool, EndTool
<1>4. CASE EndCancelledTools \/ Refresh \/ Return \/ BeginAttempt \/ AwaitNext \/ CancelMessage
  BY <1>4 DEF EndCancelledTools, Refresh, Return, BeginAttempt, AwaitNext, CancelMessage
<1>5. CASE YieldError \/ EndAfterError \/ EndBackoff
  BY <1>5 DEF YieldError, EndAfterError, EndBackoff
<1>6. CASE TextDelta \/ ThinkingDelta \/ Retry
  BY <1>6 DEF TextDelta, ThinkingDelta, Retry
<1>7. CASE ReceiveNothing \/ ThrowAborted \/ ThrowError
  BY <1>7 DEF ReceiveNothing, ThrowAborted, ThrowError
<1>8. CASE \E stop \in StopReason, asked \in Asked : ReceiveMessage(stop, asked)
  BY <1>8 DEF ReceiveMessage
<1> QED
  BY <1>1, <1>2, <1>3, <1>4, <1>5, <1>6, <1>7, <1>8 DEF Next, Step, Provider

\* After cancel() no provider call, retry or tool of the turn begins.
THEOREM CancelIsHeeded == Spec => NothingBeginsAfterCancel
<1>1. IInv /\ [Next]_vars =>
        [Aborted => /\ ~(at # "next" /\ at' = "next")
                    /\ event' \in {"message_start", "tool_execution_start"} => event' = event]_vars
  BY BeginsUncancelled
<1> QED
  BY <1>1, Invariant, PTL DEF Spec, NothingBeginsAfterCancel

-----------------------------------------------------------------------------
(* executeTurn's stream of events keeps the grammar of TurnEvents. *)
LEMMA EndTurnEvents ==
  ASSUME IInv, at \notin {"idle", "turn_end", "tool", "executing"}, EndTurn
  PROVE  Events!TurnEnd
  BY DEF EndTurn, Yield, Events!TurnEnd, IInv, TypeOK, Place, Suspended, EventAt

LEMMA YieldMessageEvents ==
  ASSUME IInv, at \in Streaming, NEW stop, NEW length, NEW returns,
         NEW asked \in Seq(Call), YieldMessage(stop, length, asked, returns)
  PROVE  Events!MessageEnd
  BY SomeCalls DEF YieldMessage, Yield, Events!MessageEnd, IInv, EventAt, Streaming

LEMMA StepEvents ==
  ASSUME IInv, [Next]_vars
  PROVE  [Events!Next]_(Events!eventVars)
<1> USE DEF IInv, EventAt, Events!eventVars
<1>1. CASE UNCHANGED vars
  BY <1>1 DEF vars
<1>2. CASE ExecuteTurn
  <2>1. Events!TurnStart
    BY <1>2 DEF ExecuteTurn, Yield, TypeOK, Events!TurnStart
  <2> QED
    BY <2>1 DEF Events!Next
<1>3. CASE Abandon \/ Return
  <2>1. Events!Close
    BY <1>3 DEF Abandon, Return, Yield, Events!Close
  <2> QED
    BY <2>1 DEF Events!Next
<1>4. CASE Cancel \/ ExecuteTool \/ Refresh \/ BeginAttempt \/ AwaitNext \/ Retry \/ EndBackoff
  BY <1>4 DEF Cancel, ExecuteTool, Refresh, BeginAttempt, AwaitNext, Retry, EndBackoff
<1>5. CASE BeginMessage
  <2>1. Events!MessageStart
    BY <1>5 DEF BeginMessage, Yield, StreamInv, Streaming, Events!MessageStart
  <2> QED
    BY <2>1 DEF Events!Next
<1>6. CASE EndCancelledLoop \/ EndAfterMessage \/ EndCancelledTools \/ EndAfterError
  <2>1. Events!TurnEnd
    BY <1>6, EndTurnEvents
       DEF EndCancelledLoop, EndAfterMessage, EndCancelledTools, EndAfterError
  <2> QED
    BY <2>1 DEF Events!Next
<1>7. CASE StartTool
  <2>1. unanswered # {}
    BY <1>7, SomeCalls DEF StartTool, TypeOK, ToolInv, CallsAreUnanswered
  <2>2. Events!ToolStart
    BY <1>7, <2>1 DEF StartTool, Yield, Events!ToolStart
  <2> QED
    BY <2>2 DEF Events!Next
<1>8. CASE EndTool
  <2>1. Head(calls) \in unanswered
    BY <1>8, TailOfCalls DEF EndTool, TypeOK, ToolInv, CallsAreUnanswered
  <2>2. Events!ToolEnd
    BY <1>8, <2>1 DEF EndTool, Yield, Events!ToolEnd
  <2> QED
    BY <2>2 DEF Events!Next
<1>9. CASE TextDelta \/ ThinkingDelta
  <2>1. Events!Delta
    BY <1>9 DEF TextDelta, ThinkingDelta, Yield, Events!Delta
  <2> QED
    BY <2>1 DEF Events!Next
<1>10. CASE CancelMessage \/ ThrowAborted
  <2>1. Events!MessageEnd \/ Events!TurnEnd
    BY <1>10, EndTurnEvents, YieldMessageEvents, EmptyCalls
       DEF CancelMessage, ThrowAborted, ReturnCancelled, Streaming
  <2> QED
    BY <2>1 DEF Events!Next
<1>11. CASE ReceiveNothing
  <2>1. Events!MessageEnd \/ Events!TurnEnd
    BY <1>11, EndTurnEvents, YieldMessageEvents, EmptyCalls DEF ReceiveNothing, Streaming
  <2> QED
    BY <2>1 DEF Events!Next
<1>12. CASE \E stop \in StopReason, asked \in Asked : ReceiveMessage(stop, asked)
  <2>1. Events!MessageEnd
    BY <1>12, AskedIsInjective, YieldMessageEvents DEF ReceiveMessage, Streaming
  <2> QED
    BY <2>1 DEF Events!Next
<1>13. CASE ThrowError
  <2>1. CASE Partial
    <3>1. Events!MessageEnd
      BY <1>13, <2>1, YieldMessageEvents, EmptyCalls DEF ThrowError, Streaming
    <3> QED
      BY <3>1 DEF Events!Next
  <2>2. CASE ~Partial
    <3>1. Events!Error
      BY <1>13, <2>2 DEF ThrowError, Yield, Events!Error
    <3> QED
      BY <3>1 DEF Events!Next
  <2> QED
    BY <2>1, <2>2
<1>14. CASE YieldError
  <2>1. Events!Error
    BY <1>14 DEF YieldError, Yield, Events!Error
  <2> QED
    BY <2>1 DEF Events!Next
<1> QED
  BY <1>1, <1>2, <1>3, <1>4, <1>5, <1>6, <1>7, <1>8, <1>9, <1>10, <1>11, <1>12, <1>13, <1>14
     DEF Next, Step, Provider

\* What handleRuntimeEvent is given is a turn: one turn_start, one turn_end, each result
\* after its call, and the model called again only with every result.
THEOREM ImplementsTurnEvents == Spec => TurnEventsSpec
<1>1. Init => Events!Init
  BY DEF Init, Events!Init
<1>2. IInv /\ [Next]_vars => [Events!Next]_(Events!eventVars)
  BY StepEvents
<1> QED
  BY <1>1, <1>2, Invariant, PTL DEF Spec, TurnEventsSpec, Events!Spec
=============================================================================
