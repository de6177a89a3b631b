-------------------------------- MODULE Relay -------------------------------
(***************************************************************************)
(* A client that reaches a host through the relay: the relay server        *)
(* (apps/relay) with its presence, pairing and binding store, the host's   *)
(* reconnecting relay client and pair command (packages/daemon/src/relay)  *)
(* and the client's RelayTransport (packages/client).                      *)
(*                                                                         *)
(* One device and one client.  The host's sockets to the relay are         *)
(* numbered as it opens them.  A socket's network may break before either  *)
(* end notices.  The store is a file that is rewritten whole: a reader, or *)
(* a crash, may meet it half written (`torn`).  The pair command announces  *)
(* itself as the device too, on a socket of its own; it is a process of its *)
(* own, and rewrites relay-auth.json while the host reads it.              *)
(*                                                                         *)
(* Abstracted: what a request asks of the host (SessionLane, EventSync);   *)
(* `connect` is a request like another; the client's own socket stays up   *)
(* (ConnectionPool has its reconnection); labels and diagnostics.          *)
(***************************************************************************)
EXTENDS Integers, Sequences, FiniteSets, SequencesExt

CONSTANTS
  MaxSockets,      \* bound: sockets the host opens
  MaxRequests,     \* bound: requests of the client
  MaxPairs,        \* bound: pair codes
  MaxRestarts,     \* bound: restarts of the relay
  MaxIoFailures    \* bound: writes of the store that fail

ASSUME RelayAssumption ==
  {MaxSockets, MaxRequests, MaxPairs, MaxRestarts, MaxIoFailures} \subseteq Nat

VARIABLES
  alive,       \* host sockets whose network works at both ends
  presence,    \* RelayPresence.#devices: announced and not seen closed, oldest first
  hello,       \* sockets whose host_hello the relay has not handled
  hostSocket,  \* #socket of the host's client, 0 when there is none
  timer,       \* #reconnectTimer is set
  opened,      \* sockets opened so far
  connection,  \* the client's HostConnection: the socket its emit sends on, 0 when there is none
  request,     \* of a request: where it is, and the sockets it came by and is answered on
  file,        \* the store's file: whether it holds the binding, whether it can be parsed
  jobs,        \* #queue: mutations of the store to be written
  writing,     \* the first of them is being written
  broken,      \* #queue is rejected
  code,        \* the pair code: "none", "offered"
  pair,        \* the host's pair command
  auth,        \* relay-auth.json: the client is not in it, is in it, or nothing can be read
  acked,       \* history: the relay acknowledged a pairing to a host
  codes, restarts, ioFailures

net == <<alive, presence, hello, hostSocket, timer, opened>>
store == <<file, jobs, writing, broken, ioFailures>>
pairing == <<code, pair, auth, acked, codes>>
vars == <<net, connection, request, store, pairing, restarts>>

Sockets == 1..MaxSockets
PairSocket == MaxSockets + 1
Announced == Sockets \cup {PairSocket}
Requests == 1..MaxRequests
\* "relay": queued on the client's socket to the relay; "wire": sent to the host; "auth":
\* isAuthorized is read; "handle": in ScorelHost.handleMessage; "answered", "rejected": the
\* client hears of it; "refused": a relay_error, which RelayTransport drops; "lost": gone;
\* "dropped": isAuthorized threw, and the host only records a diagnostic
Stage == {"none", "relay", "wire", "auth", "handle", "answered", "rejected", "refused", "lost",
          "dropped"}
Request == [stage : Stage, via : 0..MaxSockets, emit : 0..MaxSockets]

Init ==
  /\ alive = {} /\ presence = <<>> /\ hello = {} /\ hostSocket = 0 /\ timer = TRUE /\ opened = 0
  /\ connection = 0
  /\ request = [i \in Requests |-> [stage |-> "none", via |-> 0, emit |-> 0]]
  /\ file = [bound |-> FALSE, torn |-> FALSE] /\ jobs = <<>> /\ writing = FALSE /\ broken = FALSE
  /\ code = "none" /\ pair = "idle" /\ auth = "unlisted" /\ acked = FALSE
  /\ codes = 0 /\ restarts = 0 /\ ioFailures = 0

-----------------------------------------------------------------------------
\* The host's socket

\* The timer fires and the socket opens; host_hello is sent.
Connect ==
  /\ timer /\ timer' = FALSE /\ opened < MaxSockets
  /\ opened' = opened + 1 /\ hostSocket' = opened' /\ alive' = alive \cup {opened'}
  /\ hello' = hello \cup {opened'}
  /\ UNCHANGED <<presence, connection, request, store, pairing, restarts>>

\* The network breaks and nobody knows yet.  The host's last socket stays.
Break(s) ==
  /\ s \in alive /\ s < MaxSockets /\ alive' = alive \ {s}
  /\ UNCHANGED <<presence, hello, hostSocket, timer, opened, connection, request, store,
                 pairing, restarts>>

\* Mutant: the reconnect timer is not set.
HostClosedForGood ==
  /\ hostSocket # 0 /\ hostSocket \notin alive
  /\ hostSocket' = 0 /\ connection' = 0
  /\ UNCHANGED <<alive, presence, hello, timer, opened, request, store, pairing, restarts>>

\* The host's "close" handler
HostClosed ==
  /\ hostSocket # 0 /\ hostSocket \notin alive
  /\ hostSocket' = 0 /\ connection' = 0 /\ timer' = TRUE
  /\ UNCHANGED <<alive, presence, hello, opened, request, store, pairing, restarts>>

\* A device's socket is deleted from the others.
Without(s) ==
  IF s \in Range(presence)
  THEN RemoveAt(presence, CHOOSE i \in DOMAIN presence : presence[i] = s) ELSE presence

\* The relay's "close" handler; messages received before it are handled
RelayClosed(s) ==
  /\ s \notin alive /\ s \in Range(presence)
  /\ presence' = Without(s)
  /\ UNCHANGED <<alive, hello, hostSocket, timer, opened, connection, request, store, pairing,
                 restarts>>

\* host_hello; upsertDevice is chained to the store's queue
Announce(s) ==
  /\ s \in hello /\ hello' = hello \ {s}
  /\ presence' = Append(presence, s)
  /\ jobs' = IF broken THEN jobs ELSE Append(jobs, "device")
  /\ UNCHANGED <<alive, hostSocket, timer, opened, connection, request, file, writing, broken,
                 ioFailures, pairing, restarts>>

\* RelayPresence.deviceSocket: the oldest that the relay believes open
Route == IF presence = <<>> THEN 0 ELSE Head(presence)

-----------------------------------------------------------------------------
\* The store: every mutation reads the file, changes it and writes it whole.

BeginWrite ==
  /\ jobs # <<>> /\ ~writing /\ ~broken /\ ~file.torn
  /\ writing' = TRUE
  /\ UNCHANGED <<net, connection, request, file, jobs, broken, ioFailures, pairing, restarts>>

Completed(binding) == [bound |-> file.bound \/ binding, torn |-> FALSE]

EndWrite ==
  /\ writing /\ writing' = FALSE
  /\ file' = Completed(Head(jobs) = "bind") /\ jobs' = Tail(jobs)
  /\ IF Head(jobs) = "bind" THEN pair' = "bound" ELSE UNCHANGED pair
  /\ UNCHANGED <<net, connection, request, broken, ioFailures, code, auth, acked, codes,
                 restarts>>

\* A write fails, or the file cannot be parsed: #queue stays rejected and every later mutation
\* with it; a pair command that waits gets relay_error.
FailWrite ==
  /\ jobs # <<>> /\ ~broken
  /\ \/ writing /\ ioFailures < MaxIoFailures /\ ioFailures' = ioFailures + 1
        /\ \E torn \in BOOLEAN : file' = [file EXCEPT !.torn = torn]
     \/ ~writing /\ file.torn /\ UNCHANGED <<ioFailures, file>>
  /\ broken' = TRUE /\ writing' = FALSE /\ jobs' = <<>>
  /\ IF pair = "binding" THEN pair' = "failed" /\ presence' = Without(PairSocket)
                         ELSE UNCHANGED <<pair, presence>>
  /\ UNCHANGED <<alive, hello, hostSocket, timer, opened, connection, request, code, auth,
                 acked, codes, restarts>>

\* The relay dies and is started again: sockets, presence and pair codes are gone, a write in
\* progress leaves half a file.
RestartRelay ==
  /\ restarts < MaxRestarts /\ restarts' = restarts + 1
  /\ opened < MaxSockets
  /\ file' = [file EXCEPT !.torn = @ \/ writing]
  /\ jobs' = <<>> /\ writing' = FALSE /\ broken' = FALSE
  /\ alive' = {} /\ presence' = <<>> /\ hello' = {} /\ code' = "none"
  /\ pair' = IF pair \in {"binding", "bound"} THEN "failed" ELSE pair
  /\ request' = [i \in Requests |-> IF request[i].stage = "relay"
                                    THEN [request[i] EXCEPT !.stage = "lost"] ELSE request[i]]
  /\ UNCHANGED <<hostSocket, timer, opened, connection, auth, acked, codes, ioFailures>>

-----------------------------------------------------------------------------
\* Pairing

CreateCode ==
  /\ code = "none" /\ codes < MaxPairs /\ codes' = codes + 1 /\ code' = "offered"
  /\ UNCHANGED <<net, connection, request, store, pair, auth, acked, restarts>>

ExpireCode ==
  /\ code = "offered" /\ code' = "none"
  /\ UNCHANGED <<net, connection, request, store, pair, auth, acked, codes, restarts>>

\* Mutant: the relay answers before the binding is written.
RedeemEarly ==
  /\ pair \in {"idle", "failed"} /\ code = "offered" /\ code' = "none"
  /\ pair' = "acked" /\ acked' = TRUE
  /\ presence' = Append(presence, PairSocket)
  /\ jobs' = IF broken THEN jobs ELSE Append(jobs, "bind")
  /\ UNCHANGED <<alive, hello, hostSocket, timer, opened, connection, request, file, writing,
                 broken, ioFailures, auth, codes, restarts>>

\* redeemRelayPair's host_hello and redeem_pair: the code is consumed, then the binding is
\* chained to the store's queue.
Redeem ==
  /\ pair \in {"idle", "failed"} /\ code = "offered" /\ code' = "none"
  /\ IF broken THEN pair' = "failed" /\ UNCHANGED <<jobs, presence>>
               ELSE /\ pair' = "binding" /\ jobs' = Append(jobs, "bind")
                    /\ presence' = Append(presence, PairSocket)
  /\ UNCHANGED <<alive, hello, hostSocket, timer, opened, connection, request, file, writing,
                 broken, ioFailures, auth, acked, codes, restarts>>

Acknowledge ==
  /\ pair = "bound" /\ pair' = "acked" /\ acked' = TRUE
  /\ UNCHANGED <<net, connection, request, store, code, auth, codes, restarts>>

\* authorizeRelayClient reads relay-auth.json: a client that is in it is done, of half a file the
\* command fails, and a new client's write begins, which empties the file.  Or the command ends
\* before.  Its socket closes with it.
Authorize ==
  /\ pair = "acked"
  /\ \/ auth = "listed" /\ pair' = "idle" /\ presence' = Without(PairSocket) /\ UNCHANGED auth
     \/ pair' = "failed" /\ presence' = Without(PairSocket) /\ UNCHANGED auth
     \/ auth = "unlisted" /\ pair' = "authorizing" /\ auth' = "torn" /\ UNCHANGED presence
  /\ UNCHANGED <<alive, hello, hostSocket, timer, opened, connection, request, store, code, acked,
                 codes, restarts>>

\* The write ends; or it fails, or the command does, and half a file stays.
EndAuthorize ==
  /\ pair = "authorizing" /\ presence' = Without(PairSocket)
  /\ \/ pair' = "idle" /\ auth' = "listed"
     \/ pair' = "failed" /\ UNCHANGED auth
  /\ UNCHANGED <<alive, hello, hostSocket, timer, opened, connection, request, store, code, acked,
                 codes, restarts>>

-----------------------------------------------------------------------------
\* Requests

To(i, stage) == request' = [request EXCEPT ![i].stage = stage]

Send(i) ==
  /\ request[i].stage = "none" /\ (i > 1 => request[i - 1].stage # "none")
  /\ To(i, "relay")
  /\ UNCHANGED <<net, connection, store, pairing, restarts>>

\* Mutant: the socket's queue stops at the first error.
FirstWithoutError(i) == \A j \in 1..(i - 1) : request[j].stage \notin {"relay", "refused"}

\* A socket's frames are handled one after the other.
First(i) == \A j \in 1..(i - 1) : request[j].stage # "relay"

\* isBound reads the file, which may be half written.
MayRead(bound) ==
  \/ ~file.torn /\ bound = file.bound
  \/ ~file.torn /\ writing /\ bound = FALSE
  \/ file.torn /\ bound = FALSE

\* routeEntryToDevice
RouteRequest(i) ==
  /\ request[i].stage = "relay" /\ First(i)
  /\ \E bound \in BOOLEAN :
       /\ MayRead(bound)
       /\ IF ~bound \/ Route = 0 THEN To(i, "refused")
          ELSE IF Route \notin alive THEN To(i, "lost")
          ELSE request' = [request EXCEPT ![i].stage = "wire", ![i].via = Route]
  /\ UNCHANGED <<net, connection, store, pairing, restarts>>

\* A frame in flight is lost when its socket breaks.
LoseFrame(i) ==
  /\ request[i].stage = "wire" /\ request[i].via \notin alive /\ To(i, "lost")
  /\ UNCHANGED <<net, connection, store, pairing, restarts>>

\* The host's "message" handler starts handleRelayFrame, which awaits isAuthorized.
Receive(i) ==
  /\ request[i].stage = "wire" /\ request[i].via = hostSocket
  /\ \A j \in 1..(i - 1) : request[j].stage = "wire" => request[j].via # request[i].via
  /\ To(i, "auth")
  /\ UNCHANGED <<net, connection, store, pairing, restarts>>

\* isAuthorized has read relay-auth.json, and throws if it cannot be parsed.  connectionFor: a
\* connection is made with the socket of the frame, or the one there is serves.
Admit(i) ==
  /\ request[i].stage = "auth"
  /\ \/ /\ auth = "listed"
        /\ connection' = IF connection = 0 THEN request[i].via ELSE connection
        /\ request' = [request EXCEPT ![i].stage = "handle", ![i].emit = connection']
     \/ /\ auth = "unlisted"
        /\ To(i, IF request[i].via \in alive THEN "rejected" ELSE "lost")
        /\ UNCHANGED connection
     \/ auth = "torn" /\ To(i, "dropped") /\ UNCHANGED connection
  /\ UNCHANGED <<net, store, pairing, restarts>>

\* emit; routeHostToEntry brings it to the client
Reply(i) ==
  /\ request[i].stage = "handle"
  /\ To(i, IF request[i].emit \in alive THEN "answered" ELSE "lost")
  /\ UNCHANGED <<net, connection, store, pairing, restarts>>

-----------------------------------------------------------------------------
Transport == Connect \/ HostClosed \/ \E s \in Sockets : RelayClosed(s) \/ Announce(s)
StoreStep == BeginWrite \/ EndWrite \/ FailWrite
Handle(i) == RouteRequest(i) \/ LoseFrame(i) \/ Receive(i) \/ Admit(i) \/ Reply(i)

Next ==
  \/ Transport \/ StoreStep \/ RestartRelay
  \/ \E s \in Sockets : Break(s)
  \/ CreateCode \/ ExpireCode \/ Redeem \/ Acknowledge \/ Authorize \/ EndAuthorize
  \/ \E i \in Requests : Send(i) \/ Handle(i)

\* Timers fire, closed sockets are noticed, writes end, frames and handlers that can go on do.  Users,
\* networks and pair codes owe nothing.
Fairness ==
  /\ WF_vars(Connect) /\ WF_vars(HostClosed)
  /\ \A s \in Sockets : WF_vars(RelayClosed(s)) /\ WF_vars(Announce(s))
  /\ WF_vars(StoreStep) /\ WF_vars(Acknowledge) /\ WF_vars(Authorize \/ EndAuthorize)
  /\ \A i \in Requests : WF_vars(Handle(i))

Spec == Init /\ [][Next]_vars /\ Fairness

-----------------------------------------------------------------------------
\* Every variable has its type; the host waits for its timer only without a socket, and what is
\* being written is the first mutation of the queue.
TypeOK ==
  /\ alive \subseteq Sockets /\ presence \in Seq(Announced) /\ hello \subseteq Sockets
  /\ hostSocket \in 0..MaxSockets /\ timer \in BOOLEAN /\ opened \in 0..MaxSockets
  /\ connection \in 0..MaxSockets /\ request \in [Requests -> Request]
  /\ file \in [bound : BOOLEAN, torn : BOOLEAN] /\ jobs \in Seq({"device", "bind"})
  /\ writing \in BOOLEAN /\ broken \in BOOLEAN
  /\ code \in {"none", "offered"} /\ auth \in {"unlisted", "torn", "listed"} /\ acked \in BOOLEAN
  /\ pair \in {"idle", "binding", "bound", "acked", "authorizing", "failed"}
  /\ codes \in 0..MaxPairs /\ restarts \in 0..MaxRestarts /\ ioFailures \in 0..MaxIoFailures
  /\ timer => hostSocket = 0
  /\ writing => jobs # <<>>

\* A pairing the relay has acknowledged to the host is in its store from then on, across later
\* mutations, failed writes and restarts, unless a write was cut short and nothing can be read
\* (FileRelayStore.#mutate, redeem_pair).
AckedIsBound == acked => file.bound \/ file.torn

\* However sockets break, and whichever end notices first, the relay comes to route to the
\* socket the host listens on (RelayPresence.deviceSocket, #scheduleReconnect).
HostReachable == []<>(hostSocket # 0 /\ Route = hostSocket)

\* A request does not stay under way: the client is answered, or the relay refuses it, or it went
\* to a socket that broke or is the pair command's (handleRelayFrame, routeEntryToDevice).  Set
\* aside: relay-auth.json is half written at some time after, for then the host may drop it.
RequestsLeave ==
  \A i \in Requests :
    request[i].stage = "relay" /\ [](auth # "torn")
      ~> request[i].stage \in {"answered", "rejected", "refused", "lost"}
=============================================================================
