---------------------------- MODULE ConnectionPool ---------------------------
(***************************************************************************)
(* The WebUI's connection to one device: ConnectionPool                    *)
(* (apps/webui/lib/connection/pool.ts), its state machine (state.ts), the  *)
(* components that hold a connection (use-connection.ts, the add-project    *)
(* dialog) and, below it, DaemonClient with WsTransport or RelayTransport  *)
(* (packages/client).                                                      *)
(*                                                                         *)
(* An entry of the pool outlives its place there: its attempts, timers and  *)
(* the handles that components keep go on after it was torn down.  A        *)
(* socket is a slot: it is taken again once its socket is closed.  A        *)
(* client is an entry's client of one connector.                           *)
(*                                                                         *)
(* Abstracted: delays, listeners, identities, client ids; what is asked    *)
(* over the connection.  Not here: the pool's shutdown, which only tests   *)
(* call.                                                                   *)
(***************************************************************************)
EXTENDS Integers, Sequences, FiniteSets, FiniteSetsExt

CONSTANTS
  Consumers,         \* components that use the device
  Devices,           \* connectors the device may have: sequences of "direct_ws" and "relay"
  Reasons,           \* what categorize makes of a socket that fails: "network", "unknown"
  MaxRetryAttempts,  \* MAX_RETRY_ATTEMPTS
  MaxEntries,        \* bound: entries the pool makes
  MaxAsks,           \* bound: times a component acquires, reconnects or disconnects
  MaxSlots           \* bound: sockets at a time

ASSUME PoolAssumption ==
  /\ {MaxRetryAttempts, MaxEntries, MaxAsks, MaxSlots} \subseteq Nat
  /\ Reasons \subseteq {"network", "unknown"}
  /\ Devices \subseteq Seq({"direct_ws", "relay"}) \ {<<>>}

VARIABLES
  connectors,  \* of the device: connectionCandidates
  entry,       \* the entries made
  made,        \* how many
  current,     \* the one #entries holds, 0 when none
  handle,      \* the entry of a component's ManagedConnection, 0 when it holds none
  socket,      \* the sockets
  asks

poolVars == <<connectors, entry, made, current, handle, socket, asks>>

Entries == 1..MaxEntries
Slots == 1..MaxSlots

\* state, pending, retryAttempt, connectorIndex, refCount, idleHandle as in the code; timers: the
\* retry timers set, the last of them in retryHandle when `kept`; client: the socket of its client
\* (WsTransport.#socket, RelayTransport.#socket), 0 when none
State == {"idle", "connecting", "connected", "reconnecting", "error"}
Entry == [state : State, pending : BOOLEAN, attempt : 0..MaxRetryAttempts, timers : Nat,
          kept : BOOLEAN, connector : Nat \ {0}, client : 0..MaxSlots, refs : Nat,
          idle : BOOLEAN]
NewEntry == [state |-> "idle", pending |-> FALSE, attempt |-> 0, timers |-> 0, kept |-> FALSE,
             connector |-> 1, client |-> 0, refs |-> 0, idle |-> FALSE]

\* "asked": `connect` sent; "mute": opened when its client has another socket; "up": `connected`
\* heard; "dead": up, and broken; "closing": closed while it opened.  The promise of `connect` is
\* "waiting", "deaf" (only an error settles it: the handlers were cleared) or "done".
Net == {"opening", "asked", "mute", "up", "dead", "closing", "closed"}
Socket == [entry : 0..MaxEntries, connector : Nat, net : Net, promise : {"waiting", "deaf", "done"}]
NoSocket == [entry |-> 0, connector |-> 0, net |-> "closed", promise |-> "done"]

\* The entries and the sockets together: what the pool's methods change
Pool == [entry |-> entry, socket |-> socket]
Becomes(p) == entry' = p.entry /\ socket' = p.socket

PoolInit ==
  /\ connectors \in Devices
  /\ entry = [e \in Entries |-> NewEntry] /\ made = 0 /\ current = 0
  /\ handle = [c \in Consumers |-> 0]
  /\ socket = [s \in Slots |-> NoSocket]
  /\ asks = 0

-----------------------------------------------------------------------------
\* state.ts; what is not listed is warned about and changes nothing

Transition(state, event) ==
  CASE state \in {"idle", "error"} /\ event = "connect_start" -> "connecting"
    [] state = "connecting" /\ event \in {"connected", "error"} -> event
    [] state = "connected" /\ event = "disconnect_manual" -> "idle"
    [] state = "error" /\ event = "retry_attempt" -> "reconnecting"
    [] state = "reconnecting" /\ event = "retry_attempt" -> "connecting"
    [] OTHER -> state

Dispatch(p, e, event) == [p EXCEPT !.entry[e].state = Transition(@, event)]

-----------------------------------------------------------------------------
\* pool.ts and the transports

Free(p) == {s \in Slots : p.socket[s].net = "closed"}

\* #runConnect up to its await: a socket is made
RunConnect(p, e) ==
  LET s == Min(Free(p))
  IN  [p EXCEPT !.entry[e].client = s,
                !.socket[s] = [entry |-> e, connector |-> p.entry[e].connector,
                               net |-> "opening", promise |-> "waiting"]]

\* #connect
ConnectEntry(p, e) ==
  IF p.entry[e].pending THEN p
  ELSE [RunConnect(Dispatch(p, e, "connect_start"), e) EXCEPT !.entry[e].pending = TRUE]

Direct(s, p) == connectors[p.socket[s].connector] = "direct_ws"

\* The sockets of entry e's present client
SocketsOf(p, e) ==
  {s \in Slots : p.socket[s].entry = e /\ p.socket[s].connector = p.entry[e].connector
                 /\ p.socket[s].net # "closed"}

\* DaemonClient.disconnect: the client's last socket is closed; WsTransport waits for `connected`
\* with a handler, which is cleared.
Close(p, e) ==
  LET closed(s) ==
        [p.socket[s] EXCEPT
           !.net = IF s # p.entry[e].client THEN @ ELSE IF @ = "opening" THEN "closing" ELSE "closed",
           !.promise = IF @ = "waiting" /\ Direct(s, p) THEN "deaf" ELSE @]
  IN  [p EXCEPT !.entry[e].client = 0,
                !.socket = [s \in Slots |-> IF s \in SocketsOf(p, e) THEN closed(s)
                                                                     ELSE p.socket[s]]]

\* Mutant: the attempt is not counted.
FailedUncounted(p, e, reason) ==
  IF p.entry[e].connector < Len(connectors)
  THEN RunConnect([Close(p, e) EXCEPT !.entry[e].connector = @ + 1], e)
  ELSE LET q == [Dispatch(p, e, "error") EXCEPT !.entry[e].pending = FALSE]
       IN  IF reason = "network" /\ q.entry[e].attempt < MaxRetryAttempts
           THEN [q EXCEPT !.entry[e] = [q.entry[e] EXCEPT !.timers = @ + 1, !.kept = TRUE]]
           ELSE q

\* #runConnect's catch: #tryFallbackConnector, else the error and #scheduleRetry
Failed(p, e, reason) ==
  IF p.entry[e].connector < Len(connectors)
  THEN RunConnect([Close(p, e) EXCEPT !.entry[e].connector = @ + 1], e)
  ELSE LET q == [Dispatch(p, e, "error") EXCEPT !.entry[e].pending = FALSE]
       IN  IF reason = "network" /\ q.entry[e].attempt < MaxRetryAttempts
           THEN [q EXCEPT !.entry[e] = [q.entry[e] EXCEPT !.attempt = @ + 1, !.timers = @ + 1,
                                                          !.kept = TRUE]]
           ELSE q

CancelRetry(p, e) ==
  IF p.entry[e].kept
  THEN [p EXCEPT !.entry[e].kept = FALSE, !.entry[e].timers = @ - 1] ELSE p

TearDown(p, e) == Close([CancelRetry(p, e) EXCEPT !.entry[e].idle = FALSE], e)

\* The retry timer's callback
RetryTimer(e) ==
  /\ entry[e].timers > 0 /\ Free(Pool) # {}
  /\ LET fired == [Pool EXCEPT !.entry[e].timers = @ - 1, !.entry[e].kept = FALSE]
     IN  Becomes(RunConnect(Dispatch(Dispatch(fired, e, "retry_attempt"), e, "retry_attempt"), e))
  /\ UNCHANGED <<connectors, made, current, handle, asks>>

-----------------------------------------------------------------------------
\* Components

\* acquire, and the dialog's connect() of what it acquired
Acquire(c, dialog) ==
  /\ handle[c] = 0 /\ asks < MaxAsks /\ asks' = asks + 1 /\ Free(Pool) # {}
  /\ IF current # 0 /\ entry[current].state # "error"
     THEN LET p == [Pool EXCEPT !.entry[current].idle = FALSE, !.entry[current].refs = @ + 1]
          IN  /\ Becomes(IF dialog /\ entry[current].state # "connected"
                         THEN ConnectEntry(p, current) ELSE p)
              /\ handle' = [handle EXCEPT ![c] = current]
              /\ UNCHANGED <<made, current>>
     ELSE /\ made < MaxEntries /\ made' = made + 1 /\ current' = made'
          /\ LET p == IF current = 0 THEN Pool ELSE TearDown(Pool, current)
             IN  Becomes(ConnectEntry([p EXCEPT !.entry[made'].refs = 1], made'))
          /\ handle' = [handle EXCEPT ![c] = made']
  /\ UNCHANGED connectors

\* Mutant: a device that is still connecting is not given an idle timer.
ReleaseUnlessConnecting(c) ==
  /\ handle[c] # 0 /\ handle' = [handle EXCEPT ![c] = 0]
  /\ IF current = 0 THEN UNCHANGED entry
     ELSE LET refs == Max({0, entry[current].refs - 1})
          IN  entry' = [entry EXCEPT ![current].refs = refs,
                                     ![current].idle = @ \/ (refs = 0 /\ entry[current].state # "connecting")]
  /\ UNCHANGED <<connectors, made, current, socket, asks>>

\* release is by device: it counts for the entry the pool has now.
Release(c) ==
  /\ handle[c] # 0 /\ handle' = [handle EXCEPT ![c] = 0]
  /\ IF current = 0 THEN UNCHANGED entry
     ELSE LET refs == Max({0, entry[current].refs - 1})
          IN  entry' = [entry EXCEPT ![current].refs = refs, ![current].idle = @ \/ refs = 0]
  /\ UNCHANGED <<connectors, made, current, socket, asks>>

\* idleReleaseMs have passed.
IdleRelease ==
  /\ current # 0 /\ entry[current].idle
  /\ Becomes(TearDown(Pool, current)) /\ current' = 0
  /\ UNCHANGED <<connectors, made, handle, asks>>

\* The page offers Reconnect by the pool's state and acts on the entry it holds.
Reconnect(c) ==
  /\ handle[c] # 0 /\ current # 0 /\ entry[current].state = "error"
  /\ entry[handle[c]].state = "error" /\ asks < MaxAsks /\ asks' = asks + 1 /\ Free(Pool) # {}
  /\ Becomes(ConnectEntry([CancelRetry(Pool, handle[c]) EXCEPT !.entry[handle[c]].attempt = 0], handle[c]))
  /\ UNCHANGED <<connectors, made, current, handle>>

\* Mutant: the state stays what it was.
DisconnectSilently(c) ==
  /\ handle[c] # 0 /\ current # 0 /\ entry[current].state = "connected"
  /\ asks < MaxAsks /\ asks' = asks + 1
  /\ Becomes([Close(CancelRetry(Pool, handle[c]), handle[c]) EXCEPT !.entry[handle[c]].attempt = 0])
  /\ UNCHANGED <<connectors, made, current, handle>>

\* Disconnect is offered when the pool's state is connected.
Disconnect(c) ==
  /\ handle[c] # 0 /\ current # 0 /\ entry[current].state = "connected"
  /\ asks < MaxAsks /\ asks' = asks + 1
  /\ LET e == handle[c]
         p == [Close(CancelRetry(Pool, e), e) EXCEPT !.entry[e].attempt = 0]
     IN  Becomes([p EXCEPT !.entry[e].state = "idle"])
  /\ UNCHANGED <<connectors, made, current, handle>>

-----------------------------------------------------------------------------
\* Sockets

OnlySockets == UNCHANGED <<connectors, made, current, handle, asks>>

\* "open": `connect` is sent on the client's last socket.
Open(s) ==
  /\ socket[s].net = "opening"
  /\ socket' = [socket EXCEPT ![s].net = IF entry[socket[s].entry].client = s THEN "asked" ELSE "mute"]
  /\ UNCHANGED entry /\ OnlySockets

\* The promises a message on socket s settles: WsTransport hands it to every handler of the
\* client, RelayTransport to the socket's own.
Settled(s) ==
  {t \in Slots : /\ socket[t].promise = "waiting" /\ socket[t].entry = socket[s].entry
                 /\ socket[t].connector = socket[s].connector
                 /\ t = s \/ Direct(s, Pool)}

Done(p, settled) ==
  [p EXCEPT !.socket = [t \in Slots |-> IF t \in settled THEN [p.socket[t] EXCEPT !.promise = "done"]
                                                         ELSE p.socket[t]]]

\* `connected`: #runConnect goes on
Answer(s) ==
  /\ socket[s].net = "asked"
  /\ LET e == socket[s].entry
         p == [Done(Pool, Settled(s)) EXCEPT !.socket[s].net = "up"]
     IN  Becomes(IF Settled(s) = {} THEN p
                 ELSE [Dispatch(p, e, "connected") EXCEPT !.entry[e].attempt = 0,
                                                          !.entry[e].pending = FALSE])
  /\ OnlySockets

\* n attempts of entry e fail, one after the other.
FailedTimes(p, e, n) ==
  LET after[k \in 0..n] == IF k = 0 THEN p ELSE Failed(after[k - 1], e, "unknown")
  IN  after[n]

\* An error message: the host refuses the token and closes, the relay has no route and does not.
Refuse(s) ==
  /\ socket[s].net = "asked" /\ Free(Pool) # {}
  /\ LET p == [Done(Pool, Settled(s)) EXCEPT
                  !.socket[s].net = IF Direct(s, Pool) THEN "closed" ELSE "mute"]
     IN  Becomes(FailedTimes(p, socket[s].entry, Cardinality(Settled(s))))
  /\ OnlySockets

\* The socket's error event, and its close
Fail(s) ==
  /\ socket[s].net \in {"opening", "asked", "mute", "closing"}
  /\ LET p == [Pool EXCEPT !.socket[s].net = "closed", !.socket[s].promise = "done"]
     IN  IF socket[s].promise = "done" THEN Becomes(p)
         ELSE \E reason \in Reasons : Becomes(Failed(p, socket[s].entry, reason))
  /\ OnlySockets

\* The socket closes without an error: nobody listens to that.
Drop(s) ==
  /\ socket[s].net \in {"asked", "mute", "up"}
  /\ socket' = [socket EXCEPT ![s].net = IF @ = "up" THEN "dead" ELSE "closed"]
  /\ UNCHANGED entry /\ OnlySockets

-----------------------------------------------------------------------------
PoolNext ==
  \/ \E e \in Entries : RetryTimer(e)
  \/ IdleRelease
  \/ \E c \in Consumers :
       \/ \E dialog \in BOOLEAN : Acquire(c, dialog)
       \/ Release(c) \/ Reconnect(c) \/ Disconnect(c)
  \/ \E s \in Slots : Open(s) \/ Answer(s) \/ Refuse(s) \/ Fail(s) \/ Drop(s)

\* Timers fire.  Networks, hosts and users owe nothing.
PoolFairness == WF_poolVars(IdleRelease) /\ \A e \in Entries : WF_poolVars(RetryTimer(e))

PoolSpec == PoolInit /\ [][PoolNext]_poolVars /\ PoolFairness

-----------------------------------------------------------------------------
\* Every variable has its type; a kept timer is set; the idle timer runs only without users.
PoolTypeOK ==
  /\ connectors \in Devices /\ made \in 0..MaxEntries /\ current \in 0..made
  /\ entry \in [Entries -> Entry]
  /\ \A e \in Entries : /\ entry[e].connector \in 1..Len(connectors)
                        /\ entry[e].kept => entry[e].timers > 0
                        /\ entry[e].idle => e = current /\ entry[e].refs = 0
  /\ handle \in [Consumers -> 0..made] /\ socket \in [Slots -> Socket] /\ asks \in 0..MaxAsks

\* A device shown as connected has a socket on which the handshake was completed and which the
\* pool has not closed, whatever attempts, timers and disconnects crossed (#runConnect,
\* #manualDisconnect, #tryFallbackConnector).
ConnectedIsConnected ==
  current # 0 /\ entry[current].state = "connected" =>
    \E s \in Slots : socket[s].entry = current /\ socket[s].net \in {"up", "dead"}

\* A device that no component uses any more is let go in the end, whatever entries took each
\* other's place while it was in use (acquire, release).
UnusedIsLetGo ==
  LET unused == \A c \in Consumers : handle[c] = 0
  IN  (unused /\ current # 0) ~> (~unused \/ current = 0)

\* However attempts fail, and also those of an entry that was torn down, the pool stops
\* retrying until a user asks again (#scheduleRetry).
RetriesEnd == \A e \in Entries : <>[](entry[e].timers = 0)
=============================================================================
