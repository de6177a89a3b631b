------------------------------ MODULE EventSync ------------------------------
(***************************************************************************)
(* How the events of a session reach the clients attached to it: the       *)
(* host's sequence numbers, log and event buffer, load_session and         *)
(* resync_events (packages/daemon/src/index.ts), and the attach of the Web *)
(* UI with its cache (apps/webui/lib/connection/session.ts).               *)
(*                                                                         *)
(* A connection delivers in order what the host emits.  Nothing the client *)
(* sends after it attached depends on what is in flight, and a connection  *)
(* that breaks loses what is, so an emitted event is delivered at once and *)
(* a break may come at any time before it.                                 *)
(*                                                                         *)
(* Abstracted: what events say, the transcript the projector makes of      *)
(* them, the cache's size limits, other sessions on the connection, and a  *)
(* lane's cold load, atomic here.  releaseSessionEventBuffer has no caller *)
(* in the program.                                                         *)
(***************************************************************************)
EXTENDS Integers, Sequences, FiniteSets, SequencesExt

CONSTANTS
  Client,         \* browser tabs attached to the session
  MaxPersistent,  \* bound: persistent events of the session
  MaxBuffer,      \* bound: events recorded between two restarts
  MaxRestarts     \* bound: restarts of the host

ASSUME EventSyncAssumption ==
  /\ IsFiniteSet(Client)
  /\ MaxPersistent \in Nat /\ MaxBuffer \in Nat /\ MaxRestarts \in Nat

VARIABLES
  log,        \* the session's persistent events in order: the seq of each; its id is
              \* its place
  lane,       \* the session is in #sessions
  seqs,       \* #seqs
  buffer,     \* #events: what was recorded since the host started
  writing,    \* the seq of the event being appended to the file, or 0
  client,     \* the clients, see Attachment
  restarts,
  regressed,  \* history: #seqs was set back while the host runs
  refused     \* history: an append was refused for its seq

hostVars == <<log, lane, seqs, buffer, writing>>
vars == <<hostVars, client, restarts, regressed, refused>>

\* A transient event has no id
Event == [id : 0..MaxPersistent, seq : Nat \ {0}]
Answer == UNION {[places -> Event] : places \in SUBSET (Nat \ {0})}
Mode == {"stream_resume", "persistent_fallback", "full_reload"}

\* phase: not connected; load_session, loaded, or resync_events in progress;
\* attached.  cache: the persistent events of the attach-cache, which outlives the
\* connection.  view, applied: the persistent events the projector shows, and its
\* appliedSeqs.  anchor: the anchors of the resync, the cache's highest seq.
\* sound: history, the cache had every event up to the anchor.  load: how many
\* events load_session read from the file, or that it found the lane's session.
\* mode, answer: resync_events' result, its events at their places in what they were
\* taken from.  during: history, the persistent events recorded between the result and
\* its receipt.
Attachment ==
  [phase : {"off", "loading", "loaded", "resyncing", "attached"},
   cache : SUBSET Event, view : SUBSET (1..MaxPersistent), applied : SUBSET (Nat \ {0}),
   anchor : Nat, sound : BOOLEAN, load : -1..MaxPersistent,
   mode : Mode, answer : Answer, during : SUBSET (1..MaxPersistent)]
Live == -1

Off(cache) ==
  [phase |-> "off", cache |-> cache, view |-> {}, applied |-> {}, anchor |-> 0,
   sound |-> FALSE, load |-> 0, mode |-> "stream_resume", answer |-> <<>>,
   during |-> {}]

Seqs(events) == {e.seq : e \in events}
Persistent(events) == {e \in events : e.id # 0}

\* [...session.tree], and its currentSeq
Tree == [i \in DOMAIN log |-> [id |-> i, seq |-> log[i]]]
TreeSeq == IF log = <<>> THEN 0 ELSE Last(log)

HighestSeq(events) == CHOOSE n \in Seqs(events) \cup {0} : \A e \in events : e.seq <= n

Init ==
  /\ log = <<>> /\ lane = TRUE /\ seqs = 0 /\ buffer = <<>> /\ writing = 0
  /\ client = [c \in Client |-> Off({})]
  /\ restarts = 0 /\ regressed = FALSE /\ refused = FALSE

-----------------------------------------------------------------------------
(* The lane's events. *)

\* The attach controller's applyEvent on each event in turn: the projector ignores a seq it
\* has seen, the cache does not
Projected(k, events) ==
  {events[i].id : i \in {j \in DOMAIN events :
                          /\ events[j].id # 0 /\ events[j].seq \notin k.applied
                          /\ \A h \in DOMAIN events : h < j => events[h].seq # events[j].seq}}

ApplyEvents(k, events) ==
  [k EXCEPT !.view = @ \cup Projected(k, events),
            !.applied = @ \cup Seqs(ToSet(events)),
            !.cache = @ \cup Persistent(ToSet(events))]

\* A live event
Receive(k, e) ==
  [ApplyEvents(k, <<e>>) EXCEPT
     !.during = IF k.phase = "resyncing" /\ e.id # 0 THEN @ \cup {e.id} ELSE @]

\* recordAndBroadcast, to every connection of the session
RecordAndBroadcast(e) ==
  /\ buffer' = Append(buffer, e)
  /\ client' = [c \in Client |-> IF client[c].phase = "off" THEN client[c]
                                 ELSE Receive(client[c], e)]

NextSeq == seqs + 1

BroadcastTransient ==
  /\ lane /\ Len(buffer) < MaxBuffer
  /\ seqs' = NextSeq /\ RecordAndBroadcast([id |-> 0, seq |-> NextSeq])
  /\ UNCHANGED <<log, lane, writing, restarts, regressed, refused>>

\* Mutant: recorded, then written.
AppendPersistentRecorded ==
  /\ lane /\ writing = 0 /\ Len(log) < MaxPersistent /\ Len(buffer) < MaxBuffer
  /\ seqs' = NextSeq
  /\ IF NextSeq > TreeSeq
     THEN /\ writing' = NextSeq /\ UNCHANGED refused
          /\ RecordAndBroadcast([id |-> Len(log) + 1, seq |-> NextSeq])
     ELSE refused' = TRUE /\ UNCHANGED <<writing, buffer, client>>
  /\ UNCHANGED <<log, lane, restarts, regressed>>

\* Mutant: the tree takes any seq.
AppendPersistentUnchecked ==
  /\ lane /\ writing = 0 /\ Len(log) < MaxPersistent /\ Len(buffer) < MaxBuffer
  /\ seqs' = NextSeq /\ writing' = NextSeq
  /\ UNCHANGED <<log, lane, buffer, client, restarts, regressed, refused>>

\* The head of lane.appendQueue takes its seq; the tree refuses one that is not
\* above its own
AppendPersistent ==
  /\ lane /\ writing = 0 /\ Len(log) < MaxPersistent /\ Len(buffer) < MaxBuffer
  /\ seqs' = NextSeq
  /\ IF NextSeq > TreeSeq THEN writing' = NextSeq /\ UNCHANGED refused
                          ELSE refused' = TRUE /\ UNCHANGED writing
  /\ UNCHANGED <<log, lane, buffer, client, restarts, regressed>>

\* appendFile is done
FinishAppend ==
  /\ writing > 0
  /\ log' = Append(log, writing) /\ writing' = 0
  /\ RecordAndBroadcast([id |-> Len(log) + 1, seq |-> writing])
  /\ UNCHANGED <<lane, seqs, restarts, regressed, refused>>

\* getLane, by a message to a session that is not loaded
GetLane ==
  /\ ~lane /\ lane' = TRUE /\ seqs' = TreeSeq
  /\ regressed' = (regressed \/ seqs' < seqs)
  /\ UNCHANGED <<log, buffer, writing, client, restarts, refused>>

\* The file may have got the event being written
Restart ==
  /\ restarts < MaxRestarts /\ restarts' = restarts + 1
  /\ log' \in {log, IF writing > 0 THEN Append(log, writing) ELSE log}
  /\ lane' = FALSE /\ seqs' = 0 /\ buffer' = <<>> /\ writing' = 0
  /\ client' = [c \in Client |-> Off(client[c].cache)]
  /\ UNCHANGED <<regressed, refused>>

-----------------------------------------------------------------------------
(* Attaching. *)

\* start: the cache is shown, the subscription and the connection made, then
\* load_session sent
Attach(c) ==
  /\ client[c].phase = "off"
  /\ LET cache == client[c].cache
         anchor == HighestSeq(cache)
     IN client' = [client EXCEPT ![c] =
          [Off(cache) EXCEPT !.phase = "loading", !.view = {e.id : e \in cache},
             !.applied = Seqs(cache), !.anchor = anchor,
             !.sound = {e \in ToSet(Tree) : e.seq <= anchor} \subseteq cache,
             !.load = IF lane THEN Live ELSE Len(log)]]
  /\ UNCHANGED <<hostVars, restarts, regressed, refused>>

\* handleLoadSession, after its diagnostic is appended.  The client's own events get
\* those of the response, its subscribers do not.
HandleLoadSession(c) ==
  /\ client[c].phase = "loading"
  /\ LET loaded == IF client[c].load = Live THEN Tree ELSE SubSeq(Tree, 1, client[c].load)
     IN /\ buffer' = IF buffer = <<>> THEN loaded ELSE buffer
        /\ seqs' = IF loaded = <<>> THEN 0 ELSE Last(loaded).seq
  /\ regressed' = (regressed \/ seqs' < seqs)
  /\ client' = [client EXCEPT ![c].phase = "loaded"]
  /\ UNCHANGED <<log, lane, writing, restarts, refused>>

\* Each event stays at its place in `events`
EventsAfter(events, seq) == Restrict(events, {i \in DOMAIN events : events[i].seq > seq})

\* Mutant: any later event proves coverage.
HasSomeCoverage(events, expectedFirstSeq) == DOMAIN events # {}

HasContinuousCoverage(events, expectedFirstSeq) ==
  /\ DOMAIN events # {}
  /\ \A i \in DOMAIN events :
       events[i].seq = expectedFirstSeq + Cardinality({h \in DOMAIN events : h < i})

\* resyncEvents, up to the await of its diagnostic.  load_session has set #seqs.
ResyncEvents(c) ==
  /\ client[c].phase = "loaded"
  /\ LET anchor == client[c].anchor
         buffered == EventsAfter(buffer, anchor)
         answer(mode, events) ==
           client' = [client EXCEPT ![c].phase = "resyncing", ![c].mode = mode,
                                    ![c].answer = events]
     IN \/ /\ anchor >= seqs
           /\ answer("stream_resume", <<>>)
           /\ UNCHANGED <<lane, seqs>>
        \/ /\ anchor < seqs /\ HasContinuousCoverage(buffered, anchor + 1)
           /\ answer("stream_resume", buffered)
           /\ UNCHANGED <<lane, seqs>>
        \/ /\ anchor < seqs /\ ~HasContinuousCoverage(buffered, anchor + 1)
           /\ answer(IF anchor = 0 THEN "full_reload" ELSE "persistent_fallback",
                     EventsAfter(Tree, anchor))
           /\ lane' = TRUE /\ seqs' = IF lane THEN seqs ELSE TreeSeq
  /\ regressed' = (regressed \/ seqs' < seqs)
  /\ UNCHANGED <<log, buffer, writing, restarts, refused>>

\* The client gets the response.  A full_reload projects the response anew and
\* writes the cache fresh.
ReceiveResync(c) ==
  /\ client[c].phase = "resyncing"
  /\ LET k == client[c]
         events == ToSet(k.answer)
         reloaded == [k EXCEPT !.view = {e.id : e \in events}, !.applied = Seqs(events),
                               !.cache = events]
         attached == IF k.mode = "full_reload" THEN reloaded
                     ELSE ApplyEvents(k, k.answer)
     IN client' = [client EXCEPT ![c] = [attached EXCEPT !.phase = "attached", !.answer = <<>>]]
  /\ UNCHANGED <<hostVars, restarts, regressed, refused>>

\* The connection breaks
Disconnect(c) ==
  /\ client[c].phase # "off"
  /\ client' = [client EXCEPT ![c] = Off(client[c].cache)]
  /\ UNCHANGED <<hostVars, restarts, regressed, refused>>

Next ==
  \/ BroadcastTransient \/ AppendPersistent \/ FinishAppend \/ GetLane \/ Restart
  \/ \E c \in Client :
       Attach(c) \/ HandleLoadSession(c) \/ ResyncEvents(c) \/ ReceiveResync(c) \/ Disconnect(c)

Spec == Init /\ [][Next]_vars

-----------------------------------------------------------------------------
(* Properties. *)

\* Every variable has its type, and the session being written to is loaded.
TypeOK ==
  /\ log \in Seq(Nat \ {0}) /\ Len(log) <= MaxPersistent
  /\ lane \in BOOLEAN /\ seqs \in Nat /\ buffer \in Seq(Event) /\ writing \in Nat
  /\ writing > 0 => lane
  /\ client \in [Client -> Attachment]
  /\ restarts \in 0..MaxRestarts /\ regressed \in BOOLEAN /\ refused \in BOOLEAN

\* The seqs of the log increase, so an anchor splits it in two, also after a restart and after
\* a load_session that set the host's counter back.
LogIncreases == \A i, j \in DOMAIN log : i < j => log[i] < log[j]

\* A client sees, and caches, only persistent events that are in the log under the
\* same seq: a crash never takes one back.
ShownIsDurable ==
  \A c \in Client : client[c].cache \cup Persistent(ToSet(client[c].answer)) \subseteq ToSet(Tree)

\* A client that is attached shows every event of the log, whatever was recorded
\* while it attached, if its anchor was true to its cache and the host's counter was
\* never set back.  A reload, and nothing else, loses what was recorded during it: S0026
\* would have the replay not skip "live events produced during recovery".
AttachedShowsLog ==
  \A c \in Client :
    client[c].phase = "attached" /\ client[c].sound /\ ~regressed
    => client[c].view = DOMAIN log \ (IF client[c].mode = "full_reload" THEN client[c].during
                                                                     ELSE {})

-----------------------------------------------------------------------------
(* What the repository says of the protocol, and the program does not do. *)

\* events.md, 3.1.1: "`seq`：每个 session 内由 daemon 单调递增，persistent 和 transient 共享"
\* (seq increases within a session, shared by persistent and transient events).  The
\* host never gives an event a seq that its own log refuses (non_monotonic_seq).
AppendIsAccepted == ~refused
=============================================================================
