--------------------------- MODULE ConnectionProofs ---------------------------
(***************************************************************************)
(* Theorems about the two ways of staying connected.                       *)
(*                                                                         *)
(* Relay, for any number of sockets, requests, pair codes, restarts and    *)
(* failures of the store.  ConnectionPool, for any number of entries,      *)
(* components, connectors, retries and sockets; the first sections are     *)
(* about the operators its steps are made of.                              *)
(***************************************************************************)
EXTENDS Relay, ConnectionPool, SequenceTheorems, FiniteSetTheorems, NaturalsInduction,
        WellFoundedInduction, TLAPS

\* What the assumption says of each bound.
LEMMA Bounds ==
  /\ MaxSockets \in Nat /\ MaxRequests \in Nat /\ MaxPairs \in Nat
  /\ MaxRestarts \in Nat /\ MaxIoFailures \in Nat
BY RelayAssumption

-----------------------------------------------------------------------------
(* The devices' sockets without one of them are a sequence of sockets. *)
LEMMA WithoutType ==
  ASSUME presence \in Seq(Announced), NEW s
  PROVE  Without(s) \in Seq(Announced)
<1>1. CASE s \notin Range(presence)
  BY <1>1 DEF Without
<1>2. CASE s \in Range(presence)
  <2> DEFINE k == CHOOSE i \in DOMAIN presence : presence[i] = s
  <2>1. k \in 1..Len(presence)
    BY <1>2 DEF Range
  <2>2. Without(s) = SubSeq(presence, 1, k - 1) \o SubSeq(presence, k + 1, Len(presence))
    BY <1>2 DEF Without, RemoveAt
  <2> HIDE DEF k
  <2>3. \A i \in 1..Len(presence) : presence[i] \in Announced
    OBVIOUS
  <2>4. SubSeq(presence, 1, k - 1) \in Seq(Announced)
    BY <2>1, <2>3, SubSeqProperties
  <2>5. SubSeq(presence, k + 1, Len(presence)) \in Seq(Announced)
    BY <2>1, <2>3, SubSeqProperties
  <2> QED
    BY <2>2, <2>4, <2>5
<1> QED
  BY <1>1, <1>2

\* A mutation is chained to the store's queue, or its first is over.
LEMMA JobsType ==
  ASSUME jobs \in Seq({"device", "bind"})
  PROVE  /\ \A job \in {"device", "bind"} :
               Append(jobs, job) \in Seq({"device", "bind"}) /\ Append(jobs, job) # <<>>
         /\ jobs # <<>> => Tail(jobs) \in Seq({"device", "bind"})
OBVIOUS

\* A request moves on, and with it the sockets it uses.
LEMMA RequestType ==
  ASSUME request \in [Requests -> Request], NEW i \in Requests
  PROVE  /\ \A stage \in Stage : [request EXCEPT ![i].stage = stage] \in [Requests -> Request]
         /\ \A stage \in Stage, via \in 0..MaxSockets :
              [request EXCEPT ![i].stage = stage, ![i].via = via] \in [Requests -> Request]
         /\ \A stage \in Stage, emit \in 0..MaxSockets :
              [request EXCEPT ![i].stage = stage, ![i].emit = emit] \in [Requests -> Request]
BY DEF Request

\* Where requests go are stages.
LEMMA Stages == {"none", "relay", "wire", "auth", "handle", "answered", "rejected", "refused",
                 "lost", "dropped"} \subseteq Stage
BY DEF Stage

\* The sockets: numbered from 1, and 0 for none
LEMMA SocketNumbers ==
  /\ Sockets \subseteq Announced /\ PairSocket \in Announced
  /\ Sockets \subseteq 0..MaxSockets /\ 0 \in 0..MaxSockets
  /\ \A n \in 0..MaxSockets : n < MaxSockets => n + 1 \in Sockets
BY Bounds DEF Sockets, Announced

-----------------------------------------------------------------------------
(* No step of Next gives a variable another type (Relay.TypeOK). *)
LEMMA TypeStep ==
  ASSUME TypeOK, [Next]_vars
  PROVE  TypeOK'
<1> USE Bounds, SocketNumbers, Stages
<1> USE DEF TypeOK, net, store, pairing
<1>1. CASE Connect
  <2>1. opened' \in Sockets /\ opened' \in 0..MaxSockets
    BY <1>1 DEF Connect
  <2> QED
    BY <1>1, <2>1 DEF Connect
<1>2. CASE HostClosed
  BY <1>2 DEF HostClosed
<1>3. ASSUME NEW s \in Sockets, RelayClosed(s) PROVE TypeOK'
  BY <1>3, WithoutType DEF RelayClosed
<1>4. ASSUME NEW s \in Sockets, Announce(s) PROVE TypeOK'
  <2>1. jobs' \in Seq({"device", "bind"}) /\ (writing => jobs' # <<>>)
    BY <1>4, JobsType DEF Announce
  <2> QED
    BY <1>4, <2>1 DEF Announce
<1>5. CASE BeginWrite
  BY <1>5 DEF BeginWrite
<1>6. CASE EndWrite
  <2>1. file' \in [bound : BOOLEAN, torn : BOOLEAN]
    <3>1. (file.bound \/ Head(jobs) = "bind") \in BOOLEAN
      OBVIOUS
    <3> QED
      BY <1>6, <3>1 DEF EndWrite, Completed
  <2>2. jobs' \in Seq({"device", "bind"})
    BY <1>6, JobsType DEF EndWrite
  <2> QED
    BY <1>6, <2>1, <2>2 DEF EndWrite
<1>7. CASE FailWrite
  <2>1. file' \in [bound : BOOLEAN, torn : BOOLEAN] /\ jobs' \in Seq({"device", "bind"})
    BY <1>7, SMTT(30) DEF FailWrite
  <2>2. ioFailures' \in 0..MaxIoFailures
    BY <1>7 DEF FailWrite
  <2>3. /\ presence' \in Seq(Announced)
        /\ pair' \in {"idle", "binding", "bound", "acked", "authorizing", "failed"}
    BY <1>7, WithoutType DEF FailWrite
  <2> QED
    BY <1>7, <2>1, <2>2, <2>3 DEF FailWrite
<1>8. CASE RestartRelay
  <2>1. file' \in [bound : BOOLEAN, torn : BOOLEAN]
    BY <1>8 DEF RestartRelay
  <2>2. request' \in [Requests -> Request]
    BY <1>8 DEF RestartRelay, Request
  <2>3. jobs' \in Seq({"device", "bind"}) /\ presence' \in Seq(Announced)
    BY <1>8 DEF RestartRelay
  <2>4. /\ pair' \in {"idle", "binding", "bound", "acked", "authorizing", "failed"}
        /\ restarts' \in 0..MaxRestarts
    BY <1>8, SMTT(30) DEF RestartRelay
  <2> QED
    BY <1>8, <2>1, <2>2, <2>3, <2>4 DEF RestartRelay
<1>9. ASSUME NEW s \in Sockets, Break(s) PROVE TypeOK'
  BY <1>9 DEF Break
<1>10. CASE CreateCode
  BY <1>10 DEF CreateCode
<1>11. CASE ExpireCode
  BY <1>11 DEF ExpireCode
<1>12. CASE Redeem
  <2>1. presence' \in Seq(Announced)
    <3>1. Append(presence, PairSocket) \in Seq(Announced)
      OBVIOUS
    <3> QED
      BY <1>12, <3>1 DEF Redeem
  <2>2. jobs' \in Seq({"device", "bind"}) /\ (writing => jobs' # <<>>)
    BY <1>12, JobsType DEF Redeem
  <2> QED
    BY <1>12, <2>1, <2>2 DEF Redeem
<1>13. CASE Acknowledge
  BY <1>13 DEF Acknowledge
<1>14. CASE Authorize
  BY <1>14, WithoutType DEF Authorize
<1>15. ASSUME NEW i \in Requests, Send(i) PROVE TypeOK'
  <2>1. request' \in [Requests -> Request]
    BY <1>15, RequestType DEF Send, To
  <2> QED
    BY <1>15, <2>1 DEF Send
<1>16. ASSUME NEW i \in Requests, RouteRequest(i) PROVE TypeOK'
  <2>1. presence # <<>> => Head(presence) \in Announced
    OBVIOUS
  <2>2. Route # 0 /\ Route \in alive => Route \in 0..MaxSockets
    BY <2>1
  <2>3. \/ \E stage \in Stage : To(i, stage)
        \/ /\ request' = [request EXCEPT ![i].stage = "wire", ![i].via = Route]
           /\ Route # 0 /\ Route \in alive
    BY <1>16 DEF RouteRequest
  <2>4. request' \in [Requests -> Request]
    <3>1. CASE \E stage \in Stage : To(i, stage)
      <4>1. PICK stage \in Stage : request' = [request EXCEPT ![i].stage = stage]
        BY <3>1 DEF To
      <4> QED
        BY <4>1, RequestType
    <3>2. CASE /\ request' = [request EXCEPT ![i].stage = "wire", ![i].via = Route]
               /\ Route # 0 /\ Route \in alive
      BY <2>2, <3>2 DEF Request
    <3> QED
      BY <2>3, <3>1, <3>2
  <2> QED
    BY <1>16, <2>4 DEF RouteRequest
<1>17. ASSUME NEW i \in Requests, LoseFrame(i) PROVE TypeOK'
  <2>1. request' \in [Requests -> Request]
    BY <1>17, RequestType DEF LoseFrame, To
  <2> QED
    BY <1>17, <2>1 DEF LoseFrame
<1>18. ASSUME NEW i \in Requests, Receive(i) PROVE TypeOK'
  <2>1. request' \in [Requests -> Request]
    BY <1>18, RequestType DEF Receive, To
  <2> QED
    BY <1>18, <2>1 DEF Receive
<1>19. ASSUME NEW i \in Requests, Admit(i) PROVE TypeOK'
  <2>1. request[i].via \in 0..MaxSockets
    BY DEF Request
  <2>2. connection' \in 0..MaxSockets
    BY <1>19, <2>1 DEF Admit
  <2>3. CASE auth = "listed"
    <3>1. request' = [request EXCEPT ![i].stage = "handle", ![i].emit = connection']
      BY <1>19, <2>3 DEF Admit
    <3>2. request' \in [Requests -> Request]
      BY <2>2, <3>1, ZenonT(60) DEF Request
    <3> QED
      BY <1>19, <2>2, <3>2 DEF Admit
  <2>4. CASE auth # "listed"
    <3>1. PICK stage \in Stage : request' = [request EXCEPT ![i].stage = stage]
      BY <1>19, <2>4 DEF Admit, To
    <3>2. request' \in [Requests -> Request]
      BY <3>1, RequestType
    <3> QED
      BY <1>19, <2>2, <3>2 DEF Admit
  <2> QED
    BY <2>3, <2>4
<1>20. ASSUME NEW i \in Requests, Reply(i) PROVE TypeOK'
  <2>1. request' \in [Requests -> Request]
    BY <1>20, RequestType DEF Reply, To
  <2> QED
    BY <1>20, <2>1 DEF Reply
<1>21. CASE EndAuthorize
  BY <1>21, WithoutType DEF EndAuthorize
<1>22. CASE UNCHANGED vars
  BY <1>22 DEF vars
<1> QED
  BY <1>1, <1>2, <1>3, <1>4, <1>5, <1>6, <1>7, <1>8, <1>9, <1>10, <1>11, <1>12, <1>13,
     <1>14, <1>15, <1>16, <1>17, <1>18, <1>19, <1>20, <1>21, <1>22
  DEF Next, Transport, StoreStep, Handle

\* Every variable has its type, the host waits for its timer only without a socket, and what is
\* being written is the first mutation of the store's queue (#scheduleReconnect, #mutate).
THEOREM TypeCorrect == Spec => []TypeOK
<1>1. Init => TypeOK
  <2> SUFFICES ASSUME Init PROVE TypeOK
    OBVIOUS
  <2>1. request \in [Requests -> Request]
    BY SocketNumbers, Stages DEF Init, Request
  <2>2. /\ presence \in Seq(Announced) /\ jobs \in Seq({"device", "bind"})
        /\ file \in [bound : BOOLEAN, torn : BOOLEAN]
    BY DEF Init
  <2>3. /\ codes \in 0..MaxPairs /\ restarts \in 0..MaxRestarts
        /\ ioFailures \in 0..MaxIoFailures
    BY Bounds DEF Init
  <2> QED
    BY <2>1, <2>2, <2>3, SocketNumbers DEF Init, TypeOK
<1>2. TypeOK /\ [Next]_vars => TypeOK'
  BY TypeStep
<1> QED
  BY <1>1, <1>2, PTL DEF Spec

-----------------------------------------------------------------------------
(* A file is written only when it could be read, and the relay answers a    *)
(* pairing only when it wrote it.                                           *)
IInv ==
  /\ writing => ~file.torn
  /\ pair = "bound" => file.bound \/ file.torn
  /\ AckedIsBound

\* Once the relay has acknowledged a pairing to a host, its store holds it or cannot be read,
\* across later mutations, failed writes and restarts (FileRelayStore.#mutate, redeem_pair).
THEOREM PairingKept == Spec => []AckedIsBound
<1>1. Init => IInv
  BY DEF Init, IInv, AckedIsBound
<1>2. ASSUME TypeOK, IInv, [Next]_vars PROVE IInv'
  <2> USE DEF TypeOK, IInv, AckedIsBound, net, store, pairing
  <2>1. CASE Connect
    BY <1>2, <2>1 DEF Connect
  <2>2. CASE HostClosed
    BY <1>2, <2>2 DEF HostClosed
  <2>3. ASSUME NEW s \in Sockets, RelayClosed(s) PROVE IInv'
    BY <1>2, <2>3 DEF RelayClosed
  <2>4. ASSUME NEW s \in Sockets, Announce(s) PROVE IInv'
    BY <1>2, <2>4 DEF Announce
  <2>5. CASE BeginWrite
    BY <1>2, <2>5 DEF BeginWrite
  <2>6. CASE EndWrite
    BY <1>2, <2>6 DEF EndWrite, Completed
  <2>7. CASE FailWrite
    BY <1>2, <2>7 DEF FailWrite
  <2>8. CASE RestartRelay
    BY <1>2, <2>8 DEF RestartRelay
  <2>9. ASSUME NEW s \in Sockets, Break(s) PROVE IInv'
    BY <1>2, <2>9 DEF Break
  <2>10. CASE CreateCode
    BY <1>2, <2>10 DEF CreateCode
  <2>11. CASE ExpireCode
    BY <1>2, <2>11 DEF ExpireCode
  <2>12. CASE Redeem
    BY <1>2, <2>12 DEF Redeem
  <2>13. CASE Acknowledge
    BY <1>2, <2>13 DEF Acknowledge
  <2>14. CASE Authorize
    BY <1>2, <2>14 DEF Authorize
  <2>15. ASSUME NEW i \in Requests, Send(i) PROVE IInv'
    BY <1>2, <2>15 DEF Send
  <2>16. ASSUME NEW i \in Requests, RouteRequest(i) PROVE IInv'
    BY <1>2, <2>16 DEF RouteRequest
  <2>17. ASSUME NEW i \in Requests, LoseFrame(i) PROVE IInv'
    BY <1>2, <2>17 DEF LoseFrame
  <2>18. ASSUME NEW i \in Requests, Receive(i) PROVE IInv'
    BY <1>2, <2>18 DEF Receive
  <2>19. ASSUME NEW i \in Requests, Admit(i) PROVE IInv'
    BY <1>2, <2>19 DEF Admit
  <2>20. ASSUME NEW i \in Requests, Reply(i) PROVE IInv'
    BY <1>2, <2>20 DEF Reply
  <2>21. CASE EndAuthorize
    BY <1>2, <2>21 DEF EndAuthorize
  <2>22. CASE UNCHANGED vars
    BY <1>2, <2>22 DEF vars
  <2> QED
    BY <1>2, <2>1, <2>2, <2>3, <2>4, <2>5, <2>6, <2>7, <2>8, <2>9, <2>10, <2>11, <2>12, <2>13,
       <2>14, <2>15, <2>16, <2>17, <2>18, <2>19, <2>20, <2>21, <2>22
    DEF Next, Transport, StoreStep, Handle
<1>3. IInv => AckedIsBound
  BY DEF IInv
<1> QED
  BY <1>1, <1>2, <1>3, TypeCorrect, PTL DEF Spec

-----------------------------------------------------------------------------
(* What the pool's methods are made of *)

\* A set of naturals has a least member.
LEMMA LeastNatural ==
  ASSUME NEW S \in SUBSET Nat, S # {}
  PROVE  \E m \in S : \A n \in S : m <= n
<1> DEFINE Less == {p \in Nat \X Nat : p[1] < p[2]}
<1>1. IsWellFoundedOn(Less, Nat)
  BY NatLessThanWellFounded, Zenon DEF OpToRel
<1>2. PICK m \in S : \A n \in S : <<n, m>> \notin Less
  <2> HIDE DEF Less
  <2> QED
    BY <1>1, WFMin, Zenon
<1>3. \A n \in S : ~(n < m)
  BY <1>2
<1> QED
  BY <1>3

LEMMA SmallestOf ==
  ASSUME NEW S \in SUBSET Nat, S # {}
  PROVE  Min(S) \in S /\ \A x \in S : Min(S) <= x
<1>1. \E x \in S : \A y \in S : x =< y
  BY LeastNatural
<1> QED
  BY <1>1, Zenon DEF Min

-----------------------------------------------------------------------------
(* The pool and what its methods leave alone *)

Pools == [entry : [Entries -> Entry], socket : [Slots -> Socket]]

\* The promise of `connect` that s was made for may still be settled.
Attempt(p, s, e) == p.socket[s].entry = e /\ p.socket[s].promise # "done"

IsUp(p, s, e) == p.socket[s].entry = e /\ p.socket[s].net \in {"up", "dead"}

\* From p to q nothing changes but entry e and sockets that are its own or become so.
OnlyOf(e, p, q) ==
  /\ q \in Pools
  /\ \A f \in Entries : f # e => q.entry[f] = p.entry[f]
  /\ \A s \in Slots : \/ q.socket[s] = p.socket[s]
                      \/ /\ q.socket[s].entry = e
                         /\ p.socket[s].entry = e \/ p.socket[s].net = "closed"

LEMMA OnlyOfTransitive ==
  ASSUME NEW e \in Entries, NEW p, NEW q, NEW r, OnlyOf(e, p, q), OnlyOf(e, q, r)
  PROVE  OnlyOf(e, p, r)
  BY DEF OnlyOf

\* q is p with entry x in e's place.
SetEntry(p, q, e, x) ==
  /\ q \in Pools /\ q.socket = p.socket /\ q.entry[e] = x
  /\ \A f \in Entries : f # e => q.entry[f] = p.entry[f]

LEMMA SetOnly ==
  ASSUME NEW e \in Entries, NEW p, NEW q, NEW x, SetEntry(p, q, e, x)
  PROVE  OnlyOf(e, p, q)
  BY DEF OnlyOf, SetEntry

LEMMA EntryIsSet ==
  ASSUME NEW p \in Pools, NEW e \in Entries, NEW x \in Entry
  PROVE  SetEntry(p, [p EXCEPT !.entry[e] = x], e, x)
  BY DEF SetEntry, Pools

LEMMA TransitionState ==
  ASSUME NEW state \in State,
         NEW event \in {"connect_start", "connected", "error", "disconnect_manual", "retry_attempt"}
  PROVE  /\ Transition(state, event) \in State
         /\ event # "connected" => (Transition(state, event) = "connected" => state = "connected")
  BY DEF Transition, State

LEMMA DispatchSets ==
  ASSUME NEW p \in Pools, NEW e \in Entries,
         NEW event \in {"connect_start", "connected", "error", "disconnect_manual", "retry_attempt"}
  PROVE  SetEntry(p, Dispatch(p, e, event), e,
                  [p.entry[e] EXCEPT !.state = Transition(p.entry[e].state, event)])
<1> DEFINE x == [p.entry[e] EXCEPT !.state = Transition(p.entry[e].state, event)]
<1>1. p.entry[e] \in Entry
  BY DEF Pools
<1>2. x \in Entry
  BY <1>1, TransitionState DEF Entry
<1>3. Dispatch(p, e, event) = [p EXCEPT !.entry[e] = x]
  BY DEF Dispatch
<1> QED
  BY <1>2, <1>3, EntryIsSet

LEMMA CancelSets ==
  ASSUME NEW p \in Pools, NEW e \in Entries, p.entry[e].kept => p.entry[e].timers > 0
  PROVE  \E x \in Entry :
           /\ SetEntry(p, CancelRetry(p, e), e, x)
           /\ x.state = p.entry[e].state /\ x.pending = p.entry[e].pending
           /\ x.attempt = p.entry[e].attempt /\ x.connector = p.entry[e].connector
           /\ x.client = p.entry[e].client /\ x.refs = p.entry[e].refs
           /\ x.idle = p.entry[e].idle /\ x.kept = FALSE
           /\ p.entry[e].timers = 0 => x.timers = 0
<1>1. p.entry[e] \in Entry
  BY DEF Pools
<1>2. CASE p.entry[e].kept
  <2> DEFINE x == [p.entry[e] EXCEPT !.kept = FALSE, !.timers = @ - 1]
  <2>1. p.entry[e].timers - 1 \in Nat
    BY <1>1, <1>2 DEF Entry
  <2>2. x \in Entry
    BY <1>1, <2>1 DEF Entry
  <2>3. CancelRetry(p, e) = [p EXCEPT !.entry[e] = x]
    BY <1>2 DEF CancelRetry, Pools
  <2>4. SetEntry(p, CancelRetry(p, e), e, x)
    BY <2>2, <2>3, EntryIsSet
  <2>5. /\ x.state = p.entry[e].state /\ x.pending = p.entry[e].pending
        /\ x.attempt = p.entry[e].attempt /\ x.connector = p.entry[e].connector
        /\ x.client = p.entry[e].client /\ x.refs = p.entry[e].refs
        /\ x.idle = p.entry[e].idle /\ x.kept = FALSE
    BY <1>1 DEF Entry
  <2>6. p.entry[e].timers # 0
    BY <1>2
  <2> HIDE DEF x
  <2> QED
    BY <2>2, <2>4, <2>5, <2>6
<1>3. CASE ~p.entry[e].kept
  <2>1. CancelRetry(p, e) = p
    BY <1>3 DEF CancelRetry
  <2>2. SetEntry(p, CancelRetry(p, e), e, p.entry[e])
    BY <2>1 DEF SetEntry
  <2> QED
    BY <1>1, <1>3, <2>2 DEF Entry
<1> QED
  BY <1>2, <1>3

LEMMA FirstFree ==
  ASSUME NEW p, Free(p) # {}
  PROVE  Min(Free(p)) \in Slots /\ p.socket[Min(Free(p))].net = "closed"
<1>1. Free(p) \subseteq Slots /\ Free(p) \subseteq Nat
  BY DEF Free, Slots
<1>2. Min(Free(p)) \in Free(p)
  BY <1>1, SmallestOf
<1> QED
  BY <1>2 DEF Free

LEMMA RunConnectOpens ==
  ASSUME NEW p \in Pools, NEW e \in Entries, Free(p) # {}
  PROVE  LET q == RunConnect(p, e)
             s == Min(Free(p))
             x == [p.entry[e] EXCEPT !.client = s]
         IN  /\ OnlyOf(e, p, q) /\ q.entry[e] = x /\ x \in Entry
             /\ \A t \in Slots : IsUp(p, t, e) => IsUp(q, t, e)
             /\ \A t \in Slots : t # s => q.socket[t] = p.socket[t]
<1> DEFINE q == RunConnect(p, e)
           s == Min(Free(p))
           x == [p.entry[e] EXCEPT !.client = s]
           y == [entry |-> e, connector |-> p.entry[e].connector, net |-> "opening",
                 promise |-> "waiting"]
<1>1. s \in Slots /\ p.socket[s].net = "closed"
  BY FirstFree
<1> HIDE DEF s
<1>2. p.entry[e] \in Entry /\ s \in 0..MaxSlots
  BY <1>1 DEF Pools, Slots
<1>3. x \in Entry
  BY <1>2 DEF Entry
<1>4. y \in Socket
  BY <1>2 DEF Socket, Entry, Net, Entries
<1>5. q = [p EXCEPT !.entry[e].client = s, !.socket[s] = y]
  BY DEF RunConnect, s
<1>6. q = [p EXCEPT !.entry[e] = x, !.socket[s] = y]
  BY <1>5
<1>7. y.entry = e /\ y.net # "closed"
  OBVIOUS
<1> HIDE DEF x, y, q
<1>8. /\ q \in Pools /\ q.entry[e] = x /\ \A f \in Entries : f # e => q.entry[f] = p.entry[f]
      /\ q.socket[s] = y /\ \A t \in Slots : t # s => q.socket[t] = p.socket[t]
  BY <1>1, <1>3, <1>4, <1>6 DEF Pools
<1>9. OnlyOf(e, p, q)
  BY <1>1, <1>7, <1>8 DEF OnlyOf
<1>10. \A t \in Slots : IsUp(p, t, e) => IsUp(q, t, e)
  BY <1>1, <1>8 DEF IsUp
<1> QED
  BY <1>3, <1>8, <1>9, <1>10 DEF q, s, x

LEMMA CloseCloses ==
  ASSUME NEW p \in Pools, NEW e \in Entries
  PROVE  LET q == Close(p, e)
         IN  /\ OnlyOf(e, p, q) /\ q.entry[e] = [p.entry[e] EXCEPT !.client = 0]
             /\ \A s \in Slots : /\ q.socket[s].entry = p.socket[s].entry
                                 /\ q.socket[s].promise = "done" <=> p.socket[s].promise = "done"
                                 /\ p.socket[s].net = "closed" => q.socket[s].net = "closed"
                                 /\ q.socket[s].net \in {"up", "dead"} =>
                                      q.socket[s].net = p.socket[s].net
<1> DEFINE q == Close(p, e)
           x == [p.entry[e] EXCEPT !.client = 0]
           closed(s) ==
             [p.socket[s] EXCEPT
                !.net = IF s # p.entry[e].client THEN @
                        ELSE IF @ = "opening" THEN "closing" ELSE "closed",
                !.promise = IF @ = "waiting" /\ Direct(s, p) THEN "deaf" ELSE @]
           sockets == [s \in Slots |-> IF s \in SocketsOf(p, e) THEN closed(s) ELSE p.socket[s]]
<1>1. p.entry[e] \in Entry /\ \A s \in Slots : p.socket[s] \in Socket
  BY DEF Pools
<1>2. 0 \in 0..MaxSlots
  BY PoolAssumption DEF PoolAssumption
<1>3. x \in Entry
  BY <1>1, <1>2 DEF Entry
<1>4. ASSUME NEW s \in Slots
      PROVE  /\ closed(s) \in Socket /\ closed(s).entry = p.socket[s].entry
             /\ closed(s).promise = "done" <=> p.socket[s].promise = "done"
             /\ p.socket[s].net = "closed" => closed(s).net = "closed"
             /\ closed(s).net \in {"up", "dead"} => closed(s).net = p.socket[s].net
  <2> DEFINE netNow == IF s # p.entry[e].client THEN p.socket[s].net
                    ELSE IF p.socket[s].net = "opening" THEN "closing" ELSE "closed"
             promise == IF p.socket[s].promise = "waiting" /\ Direct(s, p) THEN "deaf"
                        ELSE p.socket[s].promise
  <2>1. p.socket[s] \in Socket
    BY <1>1
  <2>2. netNow \in Net /\ promise \in {"waiting", "deaf", "done"}
    BY <2>1 DEF Net, Socket
  <2>3. closed(s) = [p.socket[s] EXCEPT !.net = netNow, !.promise = promise]
    OBVIOUS
  <2>4. /\ promise = "done" <=> p.socket[s].promise = "done"
        /\ p.socket[s].net = "closed" => netNow = "closed"
        /\ netNow \in {"up", "dead"} => netNow = p.socket[s].net
    OBVIOUS
  <2> HIDE DEF netNow, promise
  <2>5. /\ closed(s) \in Socket /\ closed(s).entry = p.socket[s].entry
        /\ closed(s).net = netNow /\ closed(s).promise = promise
    BY <2>1, <2>2, <2>3 DEF Socket
  <2> QED
    BY <2>4, <2>5
<1>5. q = [p EXCEPT !.entry[e] = x, !.socket = sockets]
  BY DEF Close
<1> HIDE DEF closed
<1>6. sockets \in [Slots -> Socket] /\ \A s \in SocketsOf(p, e) : p.socket[s].entry = e
  BY <1>1, <1>4 DEF SocketsOf
<1>7. \A s \in Slots : sockets[s] = IF s \in SocketsOf(p, e) THEN closed(s) ELSE p.socket[s]
  OBVIOUS
<1> HIDE DEF x, sockets, q
<1>8. /\ q \in Pools /\ q.entry[e] = x /\ \A f \in Entries : f # e => q.entry[f] = p.entry[f]
      /\ q.socket = sockets
  BY <1>3, <1>5, <1>6 DEF Pools
<1>9. OnlyOf(e, p, q)
  BY <1>4, <1>6, <1>7, <1>8 DEF OnlyOf
<1> QED
  BY <1>4, <1>7, <1>8, <1>9 DEF q, x

-----------------------------------------------------------------------------
(* What holds of a pool *)

\* Before its last connector an entry has one attempt at most, which it knows to be pending.
EntryOK(p, e) ==
  /\ p.entry[e].connector \in 1..Len(connectors)
  /\ p.entry[e].kept => p.entry[e].timers > 0
  /\ p.entry[e].connector < Len(connectors) =>
       /\ p.entry[e].timers = 0
       /\ \A s \in Slots : Attempt(p, s, e) =>
            /\ p.entry[e].pending /\ p.entry[e].state # "connected"
            /\ \A t \in Slots : Attempt(p, t, e) => t = s

\* The first m entries have been made.
PoolOK(p, m) ==
  /\ p \in Pools
  /\ \A e \in Entries : EntryOK(p, e) /\ (e > m => p.entry[e] = NewEntry)
  /\ \A s \in Slots :
       /\ p.socket[s].entry \in 0..m
       /\ p.socket[s].net # "closed" \/ p.socket[s].promise # "done" => p.socket[s].entry # 0

LEMMA OnlyOfOK ==
  ASSUME NEW m \in 0..MaxEntries, NEW e \in 1..m, NEW p, NEW q, PoolOK(p, m), OnlyOf(e, p, q),
         EntryOK(q, e)
  PROVE  PoolOK(q, m)
<1>1. e \in Entries /\ e # 0 /\ ~(e > m) /\ e \in 0..m
  BY PoolAssumption DEF Entries, PoolAssumption
<1>2. ASSUME NEW f \in Entries
      PROVE  EntryOK(q, f) /\ (f > m => q.entry[f] = NewEntry)
  <2>1. CASE f = e
    BY <1>1, <2>1
  <2>2. CASE f # e
    <3>1. q.entry[f] = p.entry[f]
      BY <2>2 DEF OnlyOf
    <3>2. \A s \in Slots : Attempt(q, s, f) => Attempt(p, s, f)
      BY <2>2 DEF OnlyOf, Attempt
    <3>3. EntryOK(p, f) /\ (f > m => p.entry[f] = NewEntry)
      BY DEF PoolOK
    <3> QED
      BY <3>1, <3>2, <3>3 DEF EntryOK
  <2> QED
    BY <2>1, <2>2
<1>3. ASSUME NEW s \in Slots
      PROVE  /\ q.socket[s].entry \in 0..m
             /\ q.socket[s].net # "closed" \/ q.socket[s].promise # "done" => q.socket[s].entry # 0
  BY <1>1 DEF OnlyOf, PoolOK
<1> QED
  BY <1>2, <1>3 DEF PoolOK, OnlyOf

\* What is connected by its entry's state stays connected by its sockets when only another changes.
LEMMA OthersStayUp ==
  ASSUME NEW e, NEW f \in Entries, f # e, NEW p, NEW q, OnlyOf(e, p, q)
  PROVE  /\ q.entry[f] = p.entry[f]
         /\ \A s \in Slots : IsUp(p, s, f) => IsUp(q, s, f)
  BY DEF OnlyOf, IsUp

\* Users and the idle timer of entry e are what they were.
SameUse(e, p, q) == q.entry[e].refs = p.entry[e].refs /\ q.entry[e].idle = p.entry[e].idle

\* #connect
LEMMA ConnectOK ==
  ASSUME NEW p \in Pools, NEW e \in Entries, Free(p) # {}, EntryOK(p, e),
         p.entry[e].state # "connected"
  PROVE  LET q == ConnectEntry(p, e)
         IN  /\ OnlyOf(e, p, q) /\ EntryOK(q, e) /\ SameUse(e, p, q)
             /\ q.entry[e].state # "connected"
<1> DEFINE q == ConnectEntry(p, e)
<1>1. CASE p.entry[e].pending
  <2>1. q = p
    BY <1>1 DEF ConnectEntry
  <2> QED
    BY <2>1 DEF OnlyOf, SameUse
<1>2. CASE ~p.entry[e].pending
  <2> DEFINE d == Dispatch(p, e, "connect_start")
             r == RunConnect(d, e)
             s == Min(Free(d))
             y == [p.entry[e] EXCEPT !.state = Transition(p.entry[e].state, "connect_start")]
             x == [d.entry[e] EXCEPT !.client = s]
             z == [r.entry[e] EXCEPT !.pending = TRUE]
  <2>1. SetEntry(p, d, e, y)
    BY DispatchSets
  <2>2. Free(d) = Free(p)
    BY <2>1 DEF Free, SetEntry
  <2>3. d \in Pools /\ d.entry[e] = y
    BY <2>1 DEF SetEntry
  <2> HIDE DEF d, y
  <2>4. /\ OnlyOf(e, d, r) /\ r.entry[e] = x /\ x \in Entry
        /\ \A t \in Slots : t # s => r.socket[t] = d.socket[t]
    BY <2>2, <2>3, RunConnectOpens
  <2> HIDE DEF r, s
  <2>5. r \in Pools /\ z \in Entry
    BY <2>4 DEF OnlyOf, Entry
  <2>6. q = [r EXCEPT !.entry[e] = z]
    BY <1>2, <2>4 DEF ConnectEntry, d, r
  <2>7. p.entry[e] \in Entry
    BY DEF Pools
  <2>8. /\ y.state # "connected" /\ y.timers = p.entry[e].timers /\ y.kept = p.entry[e].kept
        /\ y.connector = p.entry[e].connector /\ y.refs = p.entry[e].refs
        /\ y.idle = p.entry[e].idle
        /\ y \in Entry
    <3>1. p.entry[e].state \in State
      BY <2>7 DEF Entry
    <3>2. Transition(p.entry[e].state, "connect_start") # "connected"
      BY <3>1, TransitionState
    <3>3. Transition(p.entry[e].state, "connect_start") \in State
      BY <3>1, TransitionState
    <3> QED
      BY <2>7, <3>2, <3>3 DEF Entry, y
  <2>9. /\ z.state = y.state /\ z.timers = y.timers /\ z.kept = y.kept
        /\ z.connector = y.connector /\ z.refs = y.refs /\ z.idle = y.idle /\ z.pending = TRUE
    BY <2>3, <2>4, <2>8 DEF Entry
  <2> HIDE DEF x, z
  <2>10. SetEntry(r, q, e, z)
    BY <2>5, <2>6, EntryIsSet
  <2> HIDE DEF q
  <2>11. OnlyOf(e, p, q)
    BY <2>1, <2>4, <2>10, SetOnly, OnlyOfTransitive
  <2>12. q.entry[e] = z /\ \A t \in Slots : t # s => q.socket[t] = p.socket[t]
    BY <2>1, <2>4, <2>10 DEF SetEntry
  <2>13. EntryOK(q, e)
    BY <1>2, <2>8, <2>9, <2>12 DEF EntryOK, Attempt
  <2> QED
    BY <2>8, <2>9, <2>11, <2>12, <2>13 DEF SameUse, q
<1> QED
  BY <1>1, <1>2

\* Nothing of what #tryFallbackConnector closes is shown as connected.
Failing(p, e) ==
  p.entry[e].connector < Len(connectors) =>
    /\ p.entry[e].pending /\ p.entry[e].state # "connected"
    /\ \A s \in Slots : ~Attempt(p, s, e)

\* #runConnect's catch
LEMMA FailedOK ==
  ASSUME NEW p \in Pools, NEW e \in Entries, NEW reason, Free(p) # {}, EntryOK(p, e), Failing(p, e)
  PROVE  LET q == Failed(p, e, reason)
         IN  /\ OnlyOf(e, p, q) /\ EntryOK(q, e) /\ SameUse(e, p, q)
             /\ q.entry[e].state = "connected" => p.entry[e].state = "connected"
             /\ p.entry[e].connector < Len(connectors) => q.entry[e].state # "connected"
             /\ ~(p.entry[e].connector < Len(connectors)) =>
                  q.socket = p.socket /\ ~(q.entry[e].connector < Len(connectors))
<1> DEFINE q == Failed(p, e, reason)
<1>1. p.entry[e] \in Entry /\ p.entry[e].connector \in 1..Len(connectors)
      /\ Len(connectors) \in Nat
  BY DEF Pools, EntryOK
<1>2. CASE p.entry[e].connector < Len(connectors)
  <2> DEFINE c == Close(p, e)
             y == [p.entry[e] EXCEPT !.client = 0]
             z == [c.entry[e] EXCEPT !.connector = @ + 1]
             n == [c EXCEPT !.entry[e].connector = @ + 1]
             s == Min(Free(n))
             x == [n.entry[e] EXCEPT !.client = s]
  <2>1. /\ OnlyOf(e, p, c) /\ c.entry[e] = y
        /\ \A t \in Slots : /\ c.socket[t].entry = p.socket[t].entry
                            /\ c.socket[t].promise = "done" <=> p.socket[t].promise = "done"
                            /\ p.socket[t].net = "closed" => c.socket[t].net = "closed"
    BY CloseCloses
  <2> HIDE DEF c
  <2>2. c \in Pools /\ c.entry[e] \in Entry
    BY <2>1 DEF OnlyOf, Pools
  <2>3. z \in Entry /\ n = [c EXCEPT !.entry[e] = z]
    <3>1. c.entry[e].connector + 1 \in Nat \ {0}
      BY <2>2 DEF Entry
    <3>2. z \in Entry
      BY <2>2, <3>1 DEF Entry
    <3>3. n = [c EXCEPT !.entry[e] = z]
      BY <2>2 DEF Pools
    <3> QED
      BY <3>2, <3>3
  <2> HIDE DEF n
  <2>4. SetEntry(c, n, e, z)
    BY <2>2, <2>3, EntryIsSet
  <2>5. Free(n) # {} /\ n \in Pools
    BY <2>1, <2>4 DEF Free, SetEntry
  <2>6. q = RunConnect(n, e)
    BY <1>2 DEF Failed, n, c
  <2>7. /\ OnlyOf(e, n, q) /\ q.entry[e] = x /\ x \in Entry
        /\ \A t \in Slots : t # s => q.socket[t] = n.socket[t]
    BY <2>5, <2>6, RunConnectOpens
  <2> HIDE DEF q, s
  <2>8. /\ z.state = p.entry[e].state /\ z.timers = p.entry[e].timers /\ z.kept = p.entry[e].kept
        /\ z.connector = p.entry[e].connector + 1 /\ z.refs = p.entry[e].refs
        /\ z.idle = p.entry[e].idle /\ z.pending = p.entry[e].pending
    BY <1>1, <2>1, <2>2 DEF Entry
  <2>9. /\ x.state = z.state /\ x.timers = z.timers /\ x.kept = z.kept /\ x.connector = z.connector
        /\ x.refs = z.refs /\ x.idle = z.idle /\ x.pending = z.pending
    BY <2>3, <2>4 DEF SetEntry, Entry
  <2> HIDE DEF x, z
  <2>10. \A t \in Slots : t # s => ~Attempt(q, t, e)
    BY <1>2, <2>1, <2>4, <2>7 DEF Failing, Attempt, SetEntry
  <2>11. EntryOK(q, e)
    <3>1. p.entry[e].connector + 1 \in 1..Len(connectors)
      BY <1>1, <1>2
    <3>2. /\ p.entry[e].timers = 0 /\ p.entry[e].kept => p.entry[e].timers > 0
          /\ p.entry[e].pending /\ p.entry[e].state # "connected"
      BY <1>2 DEF EntryOK, Failing
    <3> QED
      BY <2>7, <2>8, <2>9, <2>10, <3>1, <3>2 DEF EntryOK
  <2>12. OnlyOf(e, p, q)
    BY <2>1, <2>4, <2>7, SetOnly, OnlyOfTransitive
  <2> QED
    BY <1>2, <2>7, <2>8, <2>9, <2>11, <2>12 DEF SameUse, Failing, q
<1>3. CASE ~(p.entry[e].connector < Len(connectors))
  <2> DEFINE d == Dispatch(p, e, "error")
             y == [p.entry[e] EXCEPT !.state = Transition(p.entry[e].state, "error")]
             r == [d EXCEPT !.entry[e].pending = FALSE]
             z == [d.entry[e] EXCEPT !.pending = FALSE]
  <2>1. SetEntry(p, d, e, y)
    BY DispatchSets
  <2>2. Transition(p.entry[e].state, "error") = "connected" => p.entry[e].state = "connected"
    BY <1>1, TransitionState DEF Entry
  <2>3. d \in Pools /\ d.entry[e] = y /\ d.entry[e] \in Entry
    BY <2>1 DEF SetEntry, Pools
  <2>4. q = IF reason = "network" /\ r.entry[e].attempt < MaxRetryAttempts
            THEN [r EXCEPT !.entry[e] = [r.entry[e] EXCEPT !.attempt = @ + 1, !.timers = @ + 1,
                                                          !.kept = TRUE]]
            ELSE r
    BY <1>3 DEF Failed
  <2>5. /\ y.state = "connected" => p.entry[e].state = "connected"
        /\ y.timers = p.entry[e].timers /\ y.kept = p.entry[e].kept
        /\ y.connector = p.entry[e].connector /\ y.refs = p.entry[e].refs
        /\ y.idle = p.entry[e].idle
    BY <1>1, <2>2 DEF Entry
  <2> HIDE DEF d, y, q
  <2>6. z \in Entry /\ r = [d EXCEPT !.entry[e] = z]
    BY <2>3 DEF Entry
  <2>7. SetEntry(d, r, e, z)
    BY <2>3, <2>6, EntryIsSet
  <2>8. /\ z.state = y.state /\ z.timers = y.timers /\ z.kept = y.kept
        /\ z.connector = y.connector /\ z.refs = y.refs /\ z.idle = y.idle
    BY <2>3 DEF Entry
  <2> HIDE DEF r, z
  <2>9. r \in Pools /\ r.entry[e] = z /\ r.socket = p.socket /\ OnlyOf(e, p, r)
    BY <2>1, <2>7, SetOnly, OnlyOfTransitive DEF SetEntry
  <2> DEFINE again == [r.entry[e] EXCEPT !.attempt = @ + 1, !.timers = @ + 1, !.kept = TRUE]
             retries == reason = "network" /\ z.attempt < MaxRetryAttempts
             w == IF retries THEN again ELSE z
  <2>10. q = [r EXCEPT !.entry[e] = w]
    <3>1. CASE retries
      <4>1. r.entry[e] = z /\ r \in Pools
        BY <2>9
      <4>2. q = [r EXCEPT !.entry[e] = again]
        BY <2>4, <3>1, <4>1
      <4>3. q = [r EXCEPT !.entry[e] = again]
        BY <4>2
      <4> QED
        BY <3>1, <4>3
    <3>2. CASE ~retries
      <4>1. q = r
        BY <2>4, <2>9, <3>2
      <4>2. r = [r EXCEPT !.entry[e] = z]
        BY <2>9 DEF Pools
      <4> QED
        BY <3>2, <4>1, <4>2
    <3> QED
      BY <3>1, <3>2
  <2>11. w \in Entry
    <3>1. MaxRetryAttempts \in Nat
      BY PoolAssumption DEF PoolAssumption
    <3>2. z.attempt < MaxRetryAttempts => z.attempt + 1 \in 0..MaxRetryAttempts
      BY <2>6, <3>1 DEF Entry
    <3>3. retries => again \in Entry
      <4>1. z.timers + 1 \in Nat /\ r.entry[e] = z
        BY <2>6, <2>9 DEF Entry
      <4>2. retries => z.attempt + 1 \in 0..MaxRetryAttempts
        BY <3>2
      <4> HIDE DEF retries
      <4> QED
        BY <2>6, <4>1, <4>2 DEF Entry
    <3> HIDE DEF again, retries
    <3> QED
      BY <2>6, <3>3
  <2>12. /\ w.state = z.state /\ w.connector = z.connector /\ w.refs = z.refs /\ w.idle = z.idle
         /\ (z.kept => z.timers > 0) => (w.kept => w.timers > 0)
    <3>1. z.timers \in Nat /\ r.entry[e] = z
      BY <2>6, <2>9 DEF Entry
    <3> QED
      BY <2>6, <3>1 DEF Entry
  <2> HIDE DEF w
  <2>13. SetEntry(r, q, e, w)
    BY <2>9, <2>10, <2>11, EntryIsSet
  <2>14. OnlyOf(e, p, q) /\ q.entry[e] = w /\ q.socket = p.socket
    BY <2>9, <2>13, SetOnly, OnlyOfTransitive DEF SetEntry
  <2>15. EntryOK(q, e)
    BY <1>1, <1>3, <2>5, <2>8, <2>12, <2>14 DEF EntryOK
  <2> QED
    BY <1>3, <2>5, <2>8, <2>12, <2>14, <2>15 DEF SameUse, q
<1> QED
  BY <1>2, <1>3

\* disconnect of an entry's client
LEMMA CloseOK ==
  ASSUME NEW p \in Pools, NEW e \in Entries, EntryOK(p, e)
  PROVE  LET q == Close(p, e)
         IN  /\ OnlyOf(e, p, q) /\ EntryOK(q, e) /\ SameUse(e, p, q)
             /\ q.entry[e].state = p.entry[e].state /\ Free(p) \subseteq Free(q)
<1> DEFINE q == Close(p, e)
           x == [p.entry[e] EXCEPT !.client = 0]
<1>1. /\ OnlyOf(e, p, q) /\ q.entry[e] = x
      /\ \A s \in Slots : /\ q.socket[s].entry = p.socket[s].entry
                          /\ q.socket[s].promise = "done" <=> p.socket[s].promise = "done"
                          /\ p.socket[s].net = "closed" => q.socket[s].net = "closed"
  BY CloseCloses
<1>2. p.entry[e] \in Entry
  BY DEF Pools
<1>3. /\ x.state = p.entry[e].state /\ x.timers = p.entry[e].timers /\ x.kept = p.entry[e].kept
      /\ x.connector = p.entry[e].connector /\ x.refs = p.entry[e].refs
      /\ x.idle = p.entry[e].idle /\ x.pending = p.entry[e].pending
  BY <1>2 DEF Entry
<1> HIDE DEF x, q
<1>4. EntryOK(q, e)
  BY <1>1, <1>3 DEF EntryOK, Attempt
<1>5. Free(p) \subseteq Free(q)
  BY <1>1 DEF Free
<1> QED
  BY <1>1, <1>3, <1>4, <1>5 DEF SameUse, q

LEMMA CancelOK ==
  ASSUME NEW p \in Pools, NEW e \in Entries, EntryOK(p, e)
  PROVE  LET q == CancelRetry(p, e)
         IN  /\ OnlyOf(e, p, q) /\ EntryOK(q, e) /\ SameUse(e, p, q) /\ q.socket = p.socket
             /\ q.entry[e].state = p.entry[e].state
<1> DEFINE q == CancelRetry(p, e)
<1>1. p.entry[e].kept => p.entry[e].timers > 0
  BY DEF EntryOK
<1>2. PICK x \in Entry :
        /\ SetEntry(p, q, e, x)
        /\ x.state = p.entry[e].state /\ x.pending = p.entry[e].pending
        /\ x.connector = p.entry[e].connector
        /\ x.refs = p.entry[e].refs /\ x.idle = p.entry[e].idle /\ x.kept = FALSE
        /\ p.entry[e].timers = 0 => x.timers = 0
  BY <1>1, CancelSets
<1> HIDE DEF q
<1>3. OnlyOf(e, p, q) /\ q.entry[e] = x /\ q.socket = p.socket
  BY <1>2, SetOnly DEF SetEntry
<1>4. EntryOK(q, e)
  BY <1>2, <1>3 DEF EntryOK, Attempt
<1> QED
  BY <1>2, <1>3, <1>4 DEF SameUse, q

\* A field that has nothing to do with the attempts changes.
LEMMA FieldOK ==
  ASSUME NEW p \in Pools, NEW e \in Entries, EntryOK(p, e), NEW x \in Entry, NEW q,
         q = [p EXCEPT !.entry[e] = x],
         x.timers = p.entry[e].timers, x.kept = p.entry[e].kept,
         x.connector = p.entry[e].connector, x.pending = p.entry[e].pending,
         x.state = "connected" => p.entry[e].state = "connected"
  PROVE  OnlyOf(e, p, q) /\ EntryOK(q, e) /\ q.entry[e] = x /\ q.socket = p.socket
<1>1. SetEntry(p, q, e, x)
  BY EntryIsSet
<1>2. OnlyOf(e, p, q) /\ q.entry[e] = x /\ q.socket = p.socket
  BY <1>1, SetOnly DEF SetEntry
<1> QED
  BY <1>2 DEF EntryOK, Attempt

LEMMA TearDownOK ==
  ASSUME NEW p \in Pools, NEW e \in Entries, EntryOK(p, e)
  PROVE  LET q == TearDown(p, e)
         IN  /\ OnlyOf(e, p, q) /\ EntryOK(q, e) /\ ~q.entry[e].idle
             /\ q.entry[e].refs = p.entry[e].refs /\ Free(p) \subseteq Free(q)
<1> DEFINE c == CancelRetry(p, e)
           x == [c.entry[e] EXCEPT !.idle = FALSE]
           r == [c EXCEPT !.entry[e].idle = FALSE]
           q == Close(r, e)
<1>1. OnlyOf(e, p, c) /\ EntryOK(c, e) /\ SameUse(e, p, c) /\ c.socket = p.socket
  BY CancelOK
<1> HIDE DEF c
<1>2. c \in Pools /\ c.entry[e] \in Entry
  BY <1>1 DEF OnlyOf, Pools
<1>3. /\ x \in Entry /\ x.timers = c.entry[e].timers /\ x.kept = c.entry[e].kept
      /\ x.connector = c.entry[e].connector /\ x.pending = c.entry[e].pending
      /\ x.state = c.entry[e].state /\ x.idle = FALSE /\ x.refs = c.entry[e].refs
      /\ r = [c EXCEPT !.entry[e] = x]
  BY <1>2 DEF Entry
<1> HIDE DEF x, r
<1>4. OnlyOf(e, c, r) /\ EntryOK(r, e) /\ r.entry[e] = x /\ r.socket = c.socket
  BY <1>1, <1>2, <1>3, FieldOK
<1>5. r \in Pools
  BY <1>4 DEF OnlyOf
<1>6. /\ OnlyOf(e, r, q) /\ EntryOK(q, e) /\ SameUse(e, r, q) /\ Free(r) \subseteq Free(q)
  BY <1>4, <1>5, CloseOK
<1>7. TearDown(p, e) = q
  BY DEF TearDown, c, r
<1> HIDE DEF q
<1>8. OnlyOf(e, p, q)
  BY <1>1, <1>4, <1>6, OnlyOfTransitive
<1>9. Free(p) \subseteq Free(q)
  BY <1>1, <1>4, <1>6 DEF Free
<1> QED
  BY <1>1, <1>3, <1>4, <1>6, <1>7, <1>8, <1>9 DEF SameUse

-----------------------------------------------------------------------------
(* The steps *)

PoolInv ==
  /\ connectors \in Devices /\ made \in 0..MaxEntries /\ current \in 0..made
  /\ handle \in [Consumers -> 0..made] /\ asks \in 0..MaxAsks
  /\ PoolOK(Pool, made)
  /\ \A e \in Entries : entry[e].idle => e = current /\ entry[e].refs = 0
  /\ ConnectedIsConnected

LEMMA PoolFacts ==
  ASSUME PoolInv
  PROVE  /\ Pool \in Pools /\ Pool.entry = entry /\ Pool.socket = socket
         /\ 1..made \subseteq Entries /\ made \in Nat
         /\ \A e \in Entries : EntryOK(Pool, e)
         /\ \A e \in Entries : e > made => entry[e] = NewEntry
         /\ Len(connectors) \in Nat
<1>1. MaxEntries \in Nat /\ connectors \in Seq({"direct_ws", "relay"})
  BY PoolAssumption DEF PoolAssumption, PoolInv
<1>2. Pool.entry = entry /\ Pool.socket = socket
  BY DEF Pool
<1> QED
  BY <1>1, <1>2 DEF PoolInv, PoolOK, Entries

\* What the pool becomes keeps the invariant.
LEMMA BecomesInv ==
  ASSUME PoolInv, NEW q, Becomes(q), PoolOK(q, made'), UNCHANGED connectors,
         made' \in 0..MaxEntries, current' \in 0..made',
         handle' \in [Consumers -> 0..made'], asks' \in 0..MaxAsks,
         \A e \in Entries : q.entry[e].idle => e = current' /\ q.entry[e].refs = 0,
         current' # 0 /\ q.entry[current'].state = "connected" =>
           \E s \in Slots : IsUp(q, s, current')
  PROVE  PoolInv'
<1>1. entry' = q.entry /\ socket' = q.socket /\ q \in Pools
  BY DEF Becomes, PoolOK
<1>2. Pool' = q
  <2>1. Pool' = [entry |-> q.entry, socket |-> q.socket]
    BY <1>1 DEF Pool
  <2> QED
    BY <1>1, <2>1 DEF Pools
<1>3. PoolOK(Pool, made)'
  <2>1. \A e \in Entries : EntryOK(q, e)
    BY DEF PoolOK
  <2>2. \A e \in Entries : EntryOK(Pool, e)'
    BY <1>2, <2>1 DEF EntryOK, Attempt
  <2> QED
    BY <1>2, <2>2 DEF PoolOK
<1>4. ConnectedIsConnected'
  BY <1>1 DEF ConnectedIsConnected, IsUp
<1> QED
  BY <1>1, <1>3, <1>4 DEF PoolInv

\* ... when it differs by entry e.
LEMMA OneEntryInv ==
  ASSUME PoolInv, NEW e \in 1..made, NEW q, Becomes(q), OnlyOf(e, Pool, q), EntryOK(q, e),
         UNCHANGED <<connectors, made, current>>,
         handle' \in [Consumers -> 0..made], asks' \in 0..MaxAsks,
         q.entry[e].idle => e = current /\ q.entry[e].refs = 0,
         e = current /\ q.entry[e].state = "connected" => \E s \in Slots : IsUp(q, s, e)
  PROVE  PoolInv'
<1>1. made \in 0..MaxEntries /\ current \in 0..made /\ PoolOK(Pool, made) /\ made \in Nat
      /\ e \in Entries
  BY PoolFacts DEF PoolInv
<1>2. PoolOK(q, made)
  BY <1>1, OnlyOfOK
<1>3. \A f \in Entries : q.entry[f].idle => f = current /\ q.entry[f].refs = 0
  BY PoolFacts DEF OnlyOf, PoolInv
<1>4. current # 0 /\ q.entry[current].state = "connected" => \E s \in Slots : IsUp(q, s, current)
  <2>1. CASE e = current
    BY <2>1
  <2>2. CASE e # current
    <3> SUFFICES ASSUME current # 0, q.entry[current].state = "connected"
                 PROVE  \E s \in Slots : IsUp(q, s, current)
      OBVIOUS
    <3>1. current \in Entries
      BY <1>1, PoolFacts
    <3>2. /\ q.entry[current] = Pool.entry[current]
          /\ \A s \in Slots : IsUp(Pool, s, current) => IsUp(q, s, current)
      BY <2>2, <3>1, OthersStayUp
    <3>3. \E s \in Slots : IsUp(Pool, s, current)
      BY <3>2, PoolFacts DEF PoolInv, ConnectedIsConnected, IsUp
    <3> QED
      BY <3>2, <3>3
  <2> QED
    BY <2>1, <2>2
<1> QED
  BY <1>1, <1>2, <1>3, <1>4, BecomesInv

LEMMA Dispatched ==
  ASSUME NEW p \in Pools, NEW e \in Entries,
         NEW event \in {"connect_start", "connected", "error", "disconnect_manual", "retry_attempt"}
  PROVE  LET q == Dispatch(p, e, event)
         IN  /\ OnlyOf(e, p, q) /\ q.socket = p.socket /\ SameUse(e, p, q)
             /\ q.entry[e].timers = p.entry[e].timers /\ q.entry[e].kept = p.entry[e].kept
             /\ q.entry[e].connector = p.entry[e].connector
             /\ event # "connected" =>
                  (q.entry[e].state = "connected" => p.entry[e].state = "connected")
<1> DEFINE q == Dispatch(p, e, event)
           x == [p.entry[e] EXCEPT !.state = Transition(p.entry[e].state, event)]
<1>1. SetEntry(p, q, e, x)
  BY DispatchSets
<1> HIDE DEF q
<1>2. OnlyOf(e, p, q) /\ q.socket = p.socket /\ q.entry[e] = x
  BY <1>1, SetOnly DEF SetEntry
<1>3. p.entry[e] \in Entry
  BY DEF Pools
<1>4. event # "connected" =>
        (Transition(p.entry[e].state, event) = "connected" => p.entry[e].state = "connected")
  BY <1>3, TransitionState DEF Entry
<1>5. /\ x.state = Transition(p.entry[e].state, event)
      /\ x.timers = p.entry[e].timers /\ x.kept = p.entry[e].kept
      /\ x.connector = p.entry[e].connector /\ x.refs = p.entry[e].refs
      /\ x.idle = p.entry[e].idle
  BY <1>3 DEF Entry
<1> HIDE DEF x
<1> QED
  BY <1>2, <1>4, <1>5 DEF SameUse, q

LEMMA RetryTimerInv ==
  ASSUME PoolInv, NEW e \in Entries, RetryTimer(e)
  PROVE  PoolInv'
<1> DEFINE x == [Pool.entry[e] EXCEPT !.timers = @ - 1, !.kept = FALSE]
           fired == [Pool EXCEPT !.entry[e].timers = @ - 1, !.entry[e].kept = FALSE]
           d1 == Dispatch(fired, e, "retry_attempt")
           d2 == Dispatch(d1, e, "retry_attempt")
           q == RunConnect(d2, e)
<1>1. /\ Becomes(q) /\ UNCHANGED <<connectors, made, current, handle, asks>>
      /\ entry[e].timers > 0 /\ Free(Pool) # {}
  BY DEF RetryTimer
<1>2. /\ Pool \in Pools /\ Pool.entry = entry /\ Pool.socket = socket /\ EntryOK(Pool, e)
      /\ Len(connectors) \in Nat
  BY PoolFacts
<1>3. entry[e] \in Entry
  BY <1>2 DEF Pools
<1>4. /\ x \in Entry /\ x.kept = FALSE /\ x.connector = entry[e].connector
      /\ x.state = entry[e].state /\ x.refs = entry[e].refs /\ x.idle = entry[e].idle
      /\ fired = [Pool EXCEPT !.entry[e] = x]
  <2>1. entry[e].timers - 1 \in Nat
    BY <1>1, <1>3 DEF Entry
  <2> QED
    BY <1>2, <1>3, <2>1, ZenonT(60) DEF Entry
<1> HIDE DEF x, fired
<1>5. SetEntry(Pool, fired, e, x)
  BY <1>2, <1>4, EntryIsSet
<1>6. fired \in Pools /\ OnlyOf(e, Pool, fired) /\ fired.entry[e] = x /\ fired.socket = Pool.socket
  BY <1>5, SetOnly DEF SetEntry
<1>7. /\ OnlyOf(e, fired, d1) /\ d1.socket = fired.socket /\ SameUse(e, fired, d1)
      /\ d1.entry[e].kept = x.kept /\ d1.entry[e].connector = x.connector
      /\ d1.entry[e].state = "connected" => x.state = "connected"
  BY <1>6, Dispatched
<1> HIDE DEF d1
<1>8. d1 \in Pools
  BY <1>7 DEF OnlyOf
<1>9. /\ OnlyOf(e, d1, d2) /\ d2.socket = d1.socket /\ SameUse(e, d1, d2)
      /\ d2.entry[e].kept = x.kept /\ d2.entry[e].connector = x.connector
      /\ d2.entry[e].state = "connected" => d1.entry[e].state = "connected"
  BY <1>7, <1>8, Dispatched
<1> HIDE DEF d2
<1>10. d2 \in Pools /\ d2.entry[e] \in Entry /\ Free(d2) # {}
  BY <1>1, <1>6, <1>7, <1>9 DEF OnlyOf, Pools, Free
<1> DEFINE s == Min(Free(d2))
           y == [d2.entry[e] EXCEPT !.client = s]
<1>11. /\ OnlyOf(e, d2, q) /\ q.entry[e] = y
       /\ \A t \in Slots : IsUp(d2, t, e) => IsUp(q, t, e)
  BY <1>10, RunConnectOpens
<1>12. /\ y.kept = d2.entry[e].kept /\ y.connector = d2.entry[e].connector
       /\ y.state = d2.entry[e].state /\ y.refs = d2.entry[e].refs /\ y.idle = d2.entry[e].idle
  BY <1>10 DEF Entry
<1> HIDE DEF y, q
<1>13. OnlyOf(e, Pool, q)
  <2>1. OnlyOf(e, Pool, d1)
    BY <1>6, <1>7, OnlyOfTransitive
  <2>2. OnlyOf(e, Pool, d2)
    BY <1>9, <2>1, OnlyOfTransitive
  <2> QED
    BY <1>11, <2>2, OnlyOfTransitive
<1>14. entry[e].connector \in 1..Len(connectors) /\ ~(entry[e].connector < Len(connectors))
  BY <1>1, <1>2 DEF EntryOK
<1>15. EntryOK(q, e)
  BY <1>4, <1>9, <1>11, <1>12, <1>14 DEF EntryOK
<1>16. e \in 1..made
  <2>1. ~(e > made)
    <3>1. NewEntry.timers = 0
      BY DEF NewEntry
    <3> QED
      BY <1>1, <3>1, PoolFacts
  <2> QED
    BY <2>1, PoolFacts DEF Entries
<1>17. q.entry[e].idle => e = current /\ q.entry[e].refs = 0
  BY <1>4, <1>6, <1>7, <1>9, <1>11, <1>12 DEF SameUse, PoolInv
<1>18. e = current /\ q.entry[e].state = "connected" => \E t \in Slots : IsUp(q, t, e)
  <2> SUFFICES ASSUME e = current, q.entry[e].state = "connected"
               PROVE  \E t \in Slots : IsUp(q, t, e)
    OBVIOUS
  <2>1. entry[e].state = "connected"
    BY <1>4, <1>7, <1>9, <1>11, <1>12
  <2>2. current # 0
    BY <1>16
  <2>3. \E t \in Slots : IsUp(d2, t, e)
    BY <1>2, <1>6, <1>7, <1>9, <2>1, <2>2 DEF PoolInv, ConnectedIsConnected, IsUp
  <2> QED
    BY <1>11, <2>3
<1>19. handle' \in [Consumers -> 0..made] /\ asks' \in 0..MaxAsks
  BY <1>1 DEF PoolInv
<1> QED
  BY <1>1, <1>13, <1>15, <1>16, <1>17, <1>18, <1>19, OneEntryInv

\* The entry that is current keeps its socket when its sockets stay what they were.
LEMMA StillUp ==
  ASSUME PoolInv, NEW e \in 1..made, NEW q, q.socket = Pool.socket,
         q.entry[e].state = "connected" => entry[e].state = "connected"
  PROVE  e = current /\ q.entry[e].state = "connected" => \E s \in Slots : IsUp(q, s, e)
<1> SUFFICES ASSUME e = current, q.entry[e].state = "connected"
             PROVE  \E s \in Slots : IsUp(q, s, e)
  OBVIOUS
<1>1. current # 0 /\ entry[current].state = "connected"
  BY PoolFacts
<1> QED
  BY <1>1, PoolFacts DEF PoolInv, ConnectedIsConnected, IsUp

LEMMA ReuseInv ==
  ASSUME PoolInv, NEW c \in Consumers, NEW dialog \in BOOLEAN, Acquire(c, dialog),
         current # 0, entry[current].state # "error"
  PROVE  PoolInv'
<1> DEFINE x == [Pool.entry[current] EXCEPT !.idle = FALSE, !.refs = @ + 1]
           p == [Pool EXCEPT !.entry[current].idle = FALSE, !.entry[current].refs = @ + 1]
           q == IF dialog /\ entry[current].state # "connected" THEN ConnectEntry(p, current) ELSE p
<1>1. /\ Becomes(q) /\ UNCHANGED <<connectors, made, current>> /\ Free(Pool) # {}
      /\ handle' = [handle EXCEPT ![c] = current] /\ asks' = asks + 1 /\ asks < MaxAsks
  BY DEF Acquire
<1>2. current \in 1..made /\ current \in Entries
  BY PoolFacts DEF PoolInv
<1>3. /\ Pool \in Pools /\ Pool.entry = entry /\ Pool.socket = socket /\ EntryOK(Pool, current)
      /\ entry[current] \in Entry
  BY <1>2, PoolFacts DEF Pools
<1>4. /\ x \in Entry /\ x.timers = Pool.entry[current].timers /\ x.kept = Pool.entry[current].kept
      /\ x.connector = Pool.entry[current].connector /\ x.pending = Pool.entry[current].pending
      /\ x.state = Pool.entry[current].state /\ x.idle = FALSE
      /\ p = [Pool EXCEPT !.entry[current] = x]
  <2>1. entry[current].refs + 1 \in Nat
    BY <1>3 DEF Entry
  <2>2. x \in Entry /\ x.idle = FALSE
    BY <1>3, <2>1 DEF Entry
  <2>3. p = [Pool EXCEPT !.entry[current] = x]
    BY <1>2, <1>3 DEF Pools
  <2> QED
    BY <1>3, <2>2, <2>3 DEF Entry
<1> HIDE DEF x, p
<1>5. /\ OnlyOf(current, Pool, p) /\ EntryOK(p, current) /\ p.entry[current] = x
      /\ p.socket = Pool.socket
  BY <1>2, <1>3, <1>4, FieldOK
<1>6. p \in Pools /\ Free(p) # {}
  BY <1>1, <1>5 DEF OnlyOf, Free
<1>7. handle' \in [Consumers -> 0..made] /\ asks' \in 0..MaxAsks
  <2>1. asks \in 0..MaxAsks /\ MaxAsks \in Nat /\ current \in 0..made
    BY PoolAssumption DEF PoolInv, PoolAssumption
  <2> QED
    BY <1>1, <2>1 DEF PoolInv
<1>8. CASE dialog /\ entry[current].state # "connected"
  <2>1. q = ConnectEntry(p, current)
    BY <1>8
  <2>2. /\ OnlyOf(current, p, q) /\ EntryOK(q, current) /\ SameUse(current, p, q)
        /\ q.entry[current].state # "connected"
    BY <1>2, <1>3, <1>4, <1>5, <1>6, <1>8, <2>1, ConnectOK
  <2> HIDE DEF q
  <2>3. OnlyOf(current, Pool, q)
    BY <1>2, <1>5, <2>2, OnlyOfTransitive
  <2>4. ~q.entry[current].idle
    BY <1>4, <1>5, <2>2 DEF SameUse
  <2> QED
    BY <1>1, <1>2, <1>7, <2>2, <2>3, <2>4, OneEntryInv
<1>9. CASE ~(dialog /\ entry[current].state # "connected")
  <2>1. q = p
    BY <1>9
  <2> HIDE DEF q
  <2>2. current = current /\ q.entry[current].state = "connected" =>
          \E s \in Slots : IsUp(q, s, current)
    BY <1>2, <1>3, <1>4, <1>5, <2>1, StillUp
  <2> QED
    BY <1>1, <1>2, <1>4, <1>5, <1>7, <2>1, <2>2, OneEntryInv
<1> QED
  BY <1>8, <1>9

LEMMA NewEntryInv ==
  ASSUME PoolInv, NEW c \in Consumers, NEW dialog \in BOOLEAN, Acquire(c, dialog),
         ~(current # 0 /\ entry[current].state # "error")
  PROVE  PoolInv'
<1> DEFINE e == made + 1
           p == IF current = 0 THEN Pool ELSE TearDown(Pool, current)
           x == [p.entry[e] EXCEPT !.refs = 1]
           r == [p EXCEPT !.entry[e].refs = 1]
           q == ConnectEntry(r, e)
<1>1. /\ Becomes(q) /\ UNCHANGED connectors /\ made' = e /\ current' = e /\ made < MaxEntries
      /\ Free(Pool) # {} /\ handle' = [handle EXCEPT ![c] = e] /\ asks' = asks + 1
      /\ asks < MaxAsks
  BY DEF Acquire
<1>2. /\ Pool \in Pools /\ Pool.entry = entry /\ Pool.socket = socket /\ made \in Nat
      /\ PoolOK(Pool, made)
  BY PoolFacts DEF PoolInv
<1>3. e \in Entries /\ e \in 1..e /\ e \in 0..MaxEntries /\ MaxEntries \in Nat
  BY <1>1, <1>2, PoolAssumption DEF Entries, PoolAssumption
<1>4. PoolOK(p, made) /\ Free(p) # {} /\ \A f \in Entries : ~p.entry[f].idle
  <2>1. CASE current = 0
    BY <1>1, <1>2, <2>1, PoolFacts DEF PoolInv, Entries
  <2>2. CASE current # 0
    <3>1. current \in 1..made /\ current \in Entries /\ made \in 0..MaxEntries
      BY <2>2, PoolFacts DEF PoolInv
    <3>2. /\ OnlyOf(current, Pool, p) /\ EntryOK(p, current) /\ ~p.entry[current].idle
          /\ Free(Pool) \subseteq Free(p)
      BY <1>2, <2>2, <3>1, PoolFacts, TearDownOK
    <3> HIDE DEF p
    <3>3. PoolOK(p, made)
      BY <1>2, <3>1, <3>2, OnlyOfOK
    <3>4. \A f \in Entries : ~p.entry[f].idle
      BY <1>2, <3>2 DEF OnlyOf, PoolInv
    <3> QED
      BY <1>1, <3>2, <3>3, <3>4
  <2> QED
    BY <2>1, <2>2
<1> HIDE DEF p
<1>5. /\ p \in Pools /\ EntryOK(p, e) /\ p.entry[e] = NewEntry /\ p.entry[e] \in Entry
  BY <1>2, <1>3, <1>4 DEF PoolOK, Pools
<1>6. /\ x \in Entry /\ x.timers = p.entry[e].timers /\ x.kept = p.entry[e].kept
      /\ x.connector = p.entry[e].connector /\ x.pending = p.entry[e].pending
      /\ x.state = p.entry[e].state /\ x.idle = p.entry[e].idle
      /\ r = [p EXCEPT !.entry[e] = x]
  BY <1>5 DEF Entry
<1>7. p.entry[e].state = "idle" /\ p.entry[e].idle = FALSE
  BY <1>5 DEF NewEntry
<1> HIDE DEF x, r
<1>8. OnlyOf(e, p, r) /\ EntryOK(r, e) /\ r.entry[e] = x /\ r.socket = p.socket
  BY <1>3, <1>5, <1>6, FieldOK
<1>9. r \in Pools /\ Free(r) # {} /\ r.entry[e].state # "connected"
  BY <1>4, <1>6, <1>7, <1>8 DEF OnlyOf, Free
<1>10. /\ OnlyOf(e, r, q) /\ EntryOK(q, e) /\ SameUse(e, r, q) /\ q.entry[e].state # "connected"
  BY <1>3, <1>8, <1>9, ConnectOK
<1> HIDE DEF q
<1>11. OnlyOf(e, p, q)
  BY <1>3, <1>8, <1>10, OnlyOfTransitive
<1>12. PoolOK(p, e)
  <2>1. \A f \in Entries : EntryOK(p, f) /\ (f > e => p.entry[f] = NewEntry)
    <3>1. \A f \in Entries : f > e => f > made
      BY <1>2 DEF Entries
    <3> QED
      BY <1>4, <3>1 DEF PoolOK
  <2>2. 0..made \subseteq 0..e
    BY <1>2
  <2> QED
    BY <1>4, <2>1, <2>2 DEF PoolOK
<1>13. PoolOK(q, e)
  BY <1>3, <1>10, <1>11, <1>12, OnlyOfOK
<1>14. \A f \in Entries : ~q.entry[f].idle
  BY <1>4, <1>6, <1>8, <1>10, <1>11 DEF OnlyOf, SameUse
<1>15. handle' \in [Consumers -> 0..e]
  <2>1. e \in 0..e /\ 0..made \subseteq 0..e /\ handle \in [Consumers -> 0..made]
    BY <1>2 DEF PoolInv
  <2> HIDE DEF e
  <2> QED
    BY <1>1, <2>1
<1>16. asks' \in 0..MaxAsks
  <2>1. asks \in 0..MaxAsks /\ MaxAsks \in Nat
    BY PoolAssumption DEF PoolInv, PoolAssumption
  <2> QED
    BY <1>1, <2>1
<1>17. current' \in 0..e
  BY <1>1, <1>2
<1> QED
  BY <1>1, <1>3, <1>10, <1>13, <1>14, <1>15, <1>16, <1>17, BecomesInv

LEMMA AcquireInv ==
  ASSUME PoolInv, NEW c \in Consumers, NEW dialog \in BOOLEAN, Acquire(c, dialog)
  PROVE  PoolInv'
  BY ReuseInv, NewEntryInv

LEMMA MaxOfTwo ==
  ASSUME NEW n \in Int
  PROVE  Max({0, n}) = IF n > 0 THEN n ELSE 0
<1> DEFINE m == IF n > 0 THEN n ELSE 0
<1>1. m \in {0, n} /\ \A y \in {0, n} : m >= y
  OBVIOUS
<1>2. \A x \in {0, n} : (\A y \in {0, n} : x >= y) => x = m
  OBVIOUS
<1>3. Max({0, n}) \in {0, n} /\ \A y \in {0, n} : Max({0, n}) >= y
  BY <1>1, Zenon DEF Max
<1> QED
  BY <1>2, <1>3

LEMMA ReleaseInv ==
  ASSUME PoolInv, NEW c \in Consumers, Release(c)
  PROVE  PoolInv'
<1>1. /\ UNCHANGED <<connectors, made, current, socket, asks>>
      /\ handle' = [handle EXCEPT ![c] = 0]
  BY DEF Release
<1>2. /\ Pool \in Pools /\ Pool.entry = entry /\ Pool.socket = socket /\ made \in Nat
      /\ PoolOK(Pool, made) /\ made \in 0..MaxEntries
  BY PoolFacts DEF PoolInv
<1>3. handle' \in [Consumers -> 0..made] /\ asks' \in 0..MaxAsks
  <2>1. 0 \in 0..made
    BY <1>2
  <2> QED
    BY <1>1, <2>1 DEF PoolInv
<1>4. CASE current = 0
  <2>1. Becomes(Pool)
    BY <1>1, <1>2, <1>4 DEF Release, Becomes
  <2>2. current' \in 0..made /\ current' = 0
    BY <1>1, <1>2, <1>4
  <2>3. \A e \in Entries : Pool.entry[e].idle => e = current' /\ Pool.entry[e].refs = 0
    BY <1>1, <1>2 DEF PoolInv
  <2> QED
    BY <1>1, <1>2, <1>3, <2>1, <2>2, <2>3, BecomesInv
<1>5. CASE current # 0
  <2> DEFINE refs == Max({0, entry[current].refs - 1})
             x == [entry[current] EXCEPT !.refs = refs, !.idle = @ \/ refs = 0]
             q == [Pool EXCEPT !.entry[current] = x]
  <2>1. current \in 1..made /\ current \in Entries /\ EntryOK(Pool, current)
    BY <1>5, PoolFacts DEF PoolInv
  <2>2. entry[current] \in Entry
    BY <1>2, <2>1 DEF Pools
  <2>3. refs \in Nat /\ (entry[current].refs = 0 => refs = 0)
    <3>1. entry[current].refs \in Nat
      BY <2>2 DEF Entry
    <3> QED
      BY <3>1, MaxOfTwo
  <2>4. entry' = [entry EXCEPT ![current].refs = refs, ![current].idle = @ \/ refs = 0]
    BY <1>5 DEF Release
  <2> HIDE DEF refs
  <2>5. x \in Entry
    <3>1. (entry[current].idle \/ refs = 0) \in BOOLEAN
      OBVIOUS
    <3> QED
      BY <2>2, <2>3, <3>1 DEF Entry
  <2>6. /\ x.timers = entry[current].timers /\ x.kept = entry[current].kept
        /\ x.connector = entry[current].connector /\ x.pending = entry[current].pending
        /\ x.state = entry[current].state /\ x.refs = refs
        /\ x.idle = (entry[current].idle \/ refs = 0)
    BY <2>2 DEF Entry
  <2>7. entry' = [entry EXCEPT ![current] = x]
    BY <2>4
  <2> HIDE DEF x
  <2>8. Becomes(q)
    BY <1>1, <1>2, <2>7 DEF Becomes, Pool
  <2>9. OnlyOf(current, Pool, q) /\ EntryOK(q, current) /\ q.entry[current] = x
        /\ q.socket = Pool.socket
    <3>1. q = [Pool EXCEPT !.entry[current] = x]
      OBVIOUS
    <3>2. /\ x.timers = Pool.entry[current].timers /\ x.kept = Pool.entry[current].kept
          /\ x.connector = Pool.entry[current].connector
          /\ x.pending = Pool.entry[current].pending
          /\ x.state = "connected" => Pool.entry[current].state = "connected"
      BY <1>2, <2>6
    <3> HIDE DEF q
    <3> QED
      <4>1. Pool \in Pools /\ current \in Entries /\ EntryOK(Pool, current)
        BY <1>2, <2>1
      <4>2. SetEntry(Pool, q, current, x)
        BY <2>5, <3>1, <4>1, EntryIsSet
      <4>3. OnlyOf(current, Pool, q) /\ q.entry[current] = x /\ q.socket = Pool.socket
        BY <4>1, <4>2, SetOnly DEF SetEntry
      <4>4. EntryOK(q, current)
        BY <3>2, <4>1, <4>3 DEF EntryOK, Attempt
      <4> QED
        BY <4>3, <4>4
  <2> HIDE DEF q
  <2>10. q.entry[current].idle => current = current /\ q.entry[current].refs = 0
    BY <2>1, <2>3, <2>6, <2>9 DEF PoolInv
  <2>11. current = current /\ q.entry[current].state = "connected" =>
           \E s \in Slots : IsUp(q, s, current)
    BY <2>1, <2>6, <2>9, StillUp
  <2> QED
    BY <1>1, <1>3, <2>1, <2>8, <2>9, <2>10, <2>11, OneEntryInv
<1> QED
  BY <1>4, <1>5

LEMMA IdleReleaseInv ==
  ASSUME PoolInv, IdleRelease
  PROVE  PoolInv'
<1> DEFINE q == TearDown(Pool, current)
<1>1. Becomes(q) /\ current # 0 /\ current' = 0 /\ UNCHANGED <<connectors, made, handle, asks>>
  BY DEF IdleRelease
<1>2. /\ Pool \in Pools /\ Pool.entry = entry /\ made \in Nat /\ made \in 0..MaxEntries
      /\ PoolOK(Pool, made)
      /\ current \in 1..made /\ current \in Entries /\ EntryOK(Pool, current)
  BY <1>1, PoolFacts DEF PoolInv
<1>3. OnlyOf(current, Pool, q) /\ EntryOK(q, current) /\ ~q.entry[current].idle
  BY <1>2, TearDownOK
<1> HIDE DEF q
<1>4. PoolOK(q, made)
  BY <1>2, <1>3, OnlyOfOK
<1>5. \A e \in Entries : ~q.entry[e].idle
  BY <1>2, <1>3 DEF OnlyOf, PoolInv
<1>6. /\ 0 \in 0..made /\ handle' \in [Consumers -> 0..made] /\ asks' \in 0..MaxAsks
  BY <1>1, <1>2 DEF PoolInv
<1> QED
  BY <1>1, <1>2, <1>4, <1>5, <1>6, BecomesInv

LEMMA ReconnectInv ==
  ASSUME PoolInv, NEW c \in Consumers, Reconnect(c)
  PROVE  PoolInv'
<1> DEFINE e == handle[c]
           p == CancelRetry(Pool, e)
           x == [p.entry[e] EXCEPT !.attempt = 0]
           r == [p EXCEPT !.entry[e].attempt = 0]
           q == ConnectEntry(r, e)
<1>1. /\ Becomes(q) /\ UNCHANGED <<connectors, made, current, handle>> /\ Free(Pool) # {}
      /\ e # 0 /\ entry[e].state = "error" /\ asks' = asks + 1 /\ asks < MaxAsks
  BY DEF Reconnect
<1>2. e \in 1..made
  <2>1. e \in 0..made /\ made \in Nat
    BY PoolFacts DEF PoolInv
  <2> QED
    BY <1>1, <2>1
<1> HIDE DEF e
<1>3. /\ Pool \in Pools /\ Pool.entry = entry /\ e \in Entries /\ EntryOK(Pool, e)
  BY <1>2, PoolFacts
<1>4. /\ OnlyOf(e, Pool, p) /\ EntryOK(p, e) /\ SameUse(e, Pool, p) /\ p.socket = Pool.socket
      /\ p.entry[e].state = Pool.entry[e].state
  BY <1>3, CancelOK
<1> HIDE DEF p
<1>5. p \in Pools /\ p.entry[e] \in Entry
  BY <1>3, <1>4 DEF OnlyOf, Pools
<1>6. /\ x \in Entry /\ x.timers = p.entry[e].timers /\ x.kept = p.entry[e].kept
      /\ x.connector = p.entry[e].connector /\ x.pending = p.entry[e].pending
      /\ x.state = p.entry[e].state /\ x.idle = p.entry[e].idle /\ x.refs = p.entry[e].refs
      /\ r = [p EXCEPT !.entry[e] = x]
  <2>1. 0 \in 0..MaxRetryAttempts
    BY PoolAssumption DEF PoolAssumption
  <2> QED
    BY <1>5, <2>1 DEF Entry
<1> HIDE DEF x, r
<1>7. OnlyOf(e, p, r) /\ EntryOK(r, e) /\ r.entry[e] = x /\ r.socket = p.socket
  BY <1>3, <1>4, <1>5, <1>6, FieldOK
<1>8. r \in Pools /\ Free(r) # {} /\ r.entry[e].state # "connected"
  BY <1>1, <1>3, <1>4, <1>6, <1>7 DEF OnlyOf, Free
<1>9. /\ OnlyOf(e, r, q) /\ EntryOK(q, e) /\ SameUse(e, r, q) /\ q.entry[e].state # "connected"
  BY <1>3, <1>7, <1>8, ConnectOK
<1> HIDE DEF q
<1>10. OnlyOf(e, Pool, q)
  <2>1. OnlyOf(e, Pool, r)
    BY <1>3, <1>4, <1>7, OnlyOfTransitive
  <2> QED
    BY <1>3, <1>9, <2>1, OnlyOfTransitive
<1>11. q.entry[e].idle => e = current /\ q.entry[e].refs = 0
  BY <1>3, <1>4, <1>6, <1>7, <1>9 DEF SameUse, PoolInv
<1>12. handle' \in [Consumers -> 0..made] /\ asks' \in 0..MaxAsks
  <2>1. asks \in 0..MaxAsks /\ MaxAsks \in Nat
    BY PoolAssumption DEF PoolInv, PoolAssumption
  <2> QED
    BY <1>1, <2>1 DEF PoolInv
<1> QED
  BY <1>1, <1>2, <1>9, <1>10, <1>11, <1>12, OneEntryInv

LEMMA DisconnectInv ==
  ASSUME PoolInv, NEW c \in Consumers, Disconnect(c)
  PROVE  PoolInv'
<1> DEFINE e == handle[c]
           p == CancelRetry(Pool, e)
           r == Close(p, e)
           x == [r.entry[e] EXCEPT !.attempt = 0, !.state = "idle"]
           q == [[r EXCEPT !.entry[e].attempt = 0] EXCEPT !.entry[e].state = "idle"]
<1>1. /\ Becomes(q) /\ UNCHANGED <<connectors, made, current, handle>>
      /\ e # 0 /\ asks' = asks + 1 /\ asks < MaxAsks
  BY DEF Disconnect
<1>2. e \in 1..made
  <2>1. e \in 0..made /\ made \in Nat
    BY PoolFacts DEF PoolInv
  <2> QED
    BY <1>1, <2>1
<1> HIDE DEF e
<1>3. /\ Pool \in Pools /\ Pool.entry = entry /\ e \in Entries /\ EntryOK(Pool, e)
  BY <1>2, PoolFacts
<1>4. /\ OnlyOf(e, Pool, p) /\ EntryOK(p, e) /\ SameUse(e, Pool, p)
  BY <1>3, CancelOK
<1> HIDE DEF p
<1>5. p \in Pools
  BY <1>4 DEF OnlyOf
<1>6. /\ OnlyOf(e, p, r) /\ EntryOK(r, e) /\ SameUse(e, p, r)
  BY <1>3, <1>4, <1>5, CloseOK
<1> HIDE DEF r
<1>7. r \in Pools /\ r.entry[e] \in Entry
  BY <1>3, <1>6 DEF OnlyOf, Pools
<1>8. /\ x \in Entry /\ x.timers = r.entry[e].timers /\ x.kept = r.entry[e].kept
      /\ x.connector = r.entry[e].connector /\ x.pending = r.entry[e].pending
      /\ x.state = "idle" /\ x.idle = r.entry[e].idle /\ x.refs = r.entry[e].refs
  <2>1. 0 \in 0..MaxRetryAttempts /\ "idle" \in State
    BY PoolAssumption DEF PoolAssumption, State
  <2> QED
    BY <1>7, <2>1 DEF Entry
<1>9. q = [r EXCEPT !.entry[e] = x]
  <2>1. q.entry[e] = x
    BY <1>3, <1>7 DEF Pools
  <2> QED
    BY <1>3, <1>7 DEF Pools
<1> HIDE DEF x, q
<1>10. OnlyOf(e, r, q) /\ EntryOK(q, e) /\ q.entry[e] = x
  BY <1>3, <1>6, <1>7, <1>8, <1>9, FieldOK
<1>11. OnlyOf(e, Pool, q)
  <2>1. OnlyOf(e, Pool, r)
    BY <1>3, <1>4, <1>6, OnlyOfTransitive
  <2> QED
    BY <1>3, <1>10, <2>1, OnlyOfTransitive
<1>12. q.entry[e].idle => e = current /\ q.entry[e].refs = 0
  BY <1>3, <1>4, <1>6, <1>8, <1>10 DEF SameUse, PoolInv
<1>13. q.entry[e].state # "connected"
  BY <1>8, <1>10
<1>14. handle' \in [Consumers -> 0..made] /\ asks' \in 0..MaxAsks
  <2>1. asks \in 0..MaxAsks /\ MaxAsks \in Nat
    BY PoolAssumption DEF PoolInv, PoolAssumption
  <2> QED
    BY <1>1, <2>1 DEF PoolInv
<1> QED
  BY <1>1, <1>2, <1>10, <1>11, <1>12, <1>13, <1>14, OneEntryInv

\* Messages and closed sockets settle promises; entries stay what they are.
LEMMA SettledOK ==
  ASSUME NEW m, NEW p, PoolOK(p, m), NEW q \in Pools, q.entry = p.entry,
         \A s \in Slots : /\ q.socket[s].entry = p.socket[s].entry
                          /\ q.socket[s].promise # "done" => p.socket[s].promise # "done"
                          /\ q.socket[s].net # "closed" => p.socket[s].net # "closed"
  PROVE  PoolOK(q, m)
<1>1. \A e \in Entries : EntryOK(p, e) => EntryOK(q, e)
  BY DEF EntryOK, Attempt
<1> QED
  BY <1>1 DEF PoolOK

LEMMA SocketsInv ==
  ASSUME PoolInv, NEW q, Becomes(q), PoolOK(q, made), q.entry = entry, OnlySockets,
         \A s \in Slots : IsUp(Pool, s, current) => IsUp(q, s, current)
  PROVE  PoolInv'
<1>1. /\ Pool.socket = socket /\ made \in 0..MaxEntries /\ current' \in 0..made'
      /\ handle' \in [Consumers -> 0..made'] /\ asks' \in 0..MaxAsks /\ made' = made
      /\ connectors' = connectors /\ current' = current
  BY PoolFacts DEF PoolInv, OnlySockets
<1>2. \A e \in Entries : q.entry[e].idle => e = current /\ q.entry[e].refs = 0
  BY DEF PoolInv
<1>3. current # 0 /\ q.entry[current].state = "connected" => \E s \in Slots : IsUp(q, s, current)
  BY <1>1 DEF PoolInv, ConnectedIsConnected, IsUp
<1> QED
  BY <1>1, <1>2, <1>3, BecomesInv

\* Then something happens to the entry e that the socket is of.
LEMMA SocketThenInv ==
  ASSUME PoolInv, NEW p, PoolOK(p, made), p.entry = entry, OnlySockets,
         \A s \in Slots, f \in Entries : IsUp(Pool, s, f) => IsUp(p, s, f),
         NEW e \in 1..made, NEW q, Becomes(q), OnlyOf(e, p, q), EntryOK(q, e), SameUse(e, p, q),
         q.entry[e].state = "connected" =>
           \/ \E s \in Slots : IsUp(q, s, e)
           \/ p.entry[e].state = "connected" /\ q.socket = p.socket
  PROVE  PoolInv'
<1>1. /\ Pool.socket = socket /\ made \in 0..MaxEntries /\ current' \in 0..made'
      /\ handle' \in [Consumers -> 0..made'] /\ asks' \in 0..MaxAsks /\ made' = made
      /\ connectors' = connectors /\ current' = current /\ e \in Entries
  BY PoolFacts DEF PoolInv, OnlySockets
<1>2. PoolOK(q, made)
  BY <1>1, OnlyOfOK
<1>3. \A f \in Entries : q.entry[f].idle => f = current /\ q.entry[f].refs = 0
  BY DEF PoolInv, OnlyOf, SameUse
<1>4. ASSUME current # 0, q.entry[current].state = "connected"
      PROVE  \E s \in Slots : IsUp(q, s, current)
  <2>1. current \in Entries
    BY <1>4, PoolFacts DEF PoolInv
  <2>2. p.entry[current].state = "connected" => \E s \in Slots : IsUp(p, s, current)
    BY <1>1, <1>4, <2>1 DEF PoolInv, ConnectedIsConnected, IsUp
  <2>3. CASE e = current
    BY <1>4, <2>2, <2>3 DEF IsUp
  <2>4. CASE e # current
    BY <1>4, <2>1, <2>2, <2>4, OthersStayUp
  <2> QED
    BY <2>3, <2>4
<1> QED
  BY <1>1, <1>2, <1>3, <1>4, BecomesInv

\* What socket s says is about entry e.
LEMMA SocketFacts ==
  ASSUME PoolInv, NEW s \in Slots, socket[s].net # "closed"
  PROVE  /\ socket[s].entry \in 1..made /\ socket[s] \in Socket /\ socket \in [Slots -> Socket]
         /\ PoolOK(Pool, made)
<1>1. PoolOK(Pool, made) /\ Pool.socket = socket /\ Pool \in Pools /\ made \in Nat
  BY PoolFacts DEF PoolInv
<1>2. socket[s].entry \in 0..made /\ socket[s].entry # 0
  BY <1>1 DEF PoolOK
<1> QED
  BY <1>1, <1>2 DEF Pools

\* The pool with other sockets
LEMMA WithSockets ==
  ASSUME NEW p \in Pools, NEW sockets \in [Slots -> Socket]
  PROVE  LET q == [p EXCEPT !.socket = sockets]
         IN  q \in Pools /\ q.entry = p.entry /\ q.socket = sockets
  BY DEF Pools

LEMMA OpenInv ==
  ASSUME PoolInv, NEW s \in Slots, Open(s)
  PROVE  PoolInv'
<1> DEFINE netNow == IF entry[socket[s].entry].client = s THEN "asked" ELSE "mute"
           sockets == [socket EXCEPT ![s].net = netNow]
           q == [Pool EXCEPT !.socket = sockets]
<1>1. /\ socket[s].net = "opening" /\ socket' = sockets /\ UNCHANGED entry /\ OnlySockets
      /\ netNow \in {"asked", "mute"}
  BY DEF Open
<1> HIDE DEF netNow
<1>2. /\ socket[s] \in Socket /\ socket \in [Slots -> Socket] /\ PoolOK(Pool, made)
      /\ Pool \in Pools /\ Pool.entry = entry /\ Pool.socket = socket
  BY <1>1, SocketFacts, PoolFacts
<1>3. /\ sockets \in [Slots -> Socket]
      /\ \A t \in Slots : /\ sockets[t].entry = socket[t].entry
                          /\ sockets[t].promise = socket[t].promise
                          /\ sockets[t].net = IF t = s THEN netNow ELSE socket[t].net
  BY <1>1, <1>2 DEF Socket, Net
<1> HIDE DEF sockets
<1>4. q \in Pools /\ q.entry = entry /\ q.socket = sockets
  BY <1>2, <1>3, WithSockets
<1> HIDE DEF q
<1>5. Becomes(q)
  BY <1>1, <1>4 DEF Becomes
<1>6. PoolOK(q, made)
  <2>1. \A t \in Slots : /\ q.socket[t].entry = Pool.socket[t].entry
                         /\ q.socket[t].promise # "done" => Pool.socket[t].promise # "done"
                         /\ q.socket[t].net # "closed" => Pool.socket[t].net # "closed"
    BY <1>1, <1>2, <1>3, <1>4
  <2> QED
    BY <1>2, <1>4, <2>1, SettledOK
<1>7. \A t \in Slots : IsUp(Pool, t, current) => IsUp(q, t, current)
  BY <1>1, <1>2, <1>3, <1>4 DEF IsUp
<1> QED
  BY <1>1, <1>4, <1>5, <1>6, <1>7, SocketsInv

LEMMA DropInv ==
  ASSUME PoolInv, NEW s \in Slots, Drop(s)
  PROVE  PoolInv'
<1> DEFINE netNow == IF socket[s].net = "up" THEN "dead" ELSE "closed"
           sockets == [socket EXCEPT ![s].net = netNow]
           q == [Pool EXCEPT !.socket = sockets]
<1>1. /\ socket[s].net \in {"asked", "mute", "up"} /\ socket' = sockets /\ UNCHANGED entry
      /\ OnlySockets
      /\ netNow \in {"dead", "closed"} /\ (socket[s].net = "up" => netNow = "dead")
  BY DEF Drop
<1> HIDE DEF netNow
<1>2. /\ socket[s] \in Socket /\ socket \in [Slots -> Socket] /\ PoolOK(Pool, made)
      /\ Pool \in Pools /\ Pool.entry = entry /\ Pool.socket = socket
  BY <1>1, SocketFacts, PoolFacts
<1>3. /\ sockets \in [Slots -> Socket]
      /\ \A t \in Slots : /\ sockets[t].entry = socket[t].entry
                          /\ sockets[t].promise = socket[t].promise
                          /\ sockets[t].net = IF t = s THEN netNow ELSE socket[t].net
  BY <1>1, <1>2 DEF Socket, Net
<1> HIDE DEF sockets
<1>4. q \in Pools /\ q.entry = entry /\ q.socket = sockets
  BY <1>2, <1>3, WithSockets
<1> HIDE DEF q
<1>5. Becomes(q)
  BY <1>1, <1>4 DEF Becomes
<1>6. PoolOK(q, made)
  <2>1. \A t \in Slots : /\ q.socket[t].entry = Pool.socket[t].entry
                         /\ q.socket[t].promise # "done" => Pool.socket[t].promise # "done"
                         /\ q.socket[t].net # "closed" => Pool.socket[t].net # "closed"
    BY <1>1, <1>2, <1>3, <1>4
  <2> QED
    BY <1>2, <1>4, <2>1, SettledOK
<1>7. \A t \in Slots : IsUp(Pool, t, current) => IsUp(q, t, current)
  BY <1>1, <1>2, <1>3, <1>4 DEF IsUp
<1> QED
  BY <1>1, <1>4, <1>5, <1>6, <1>7, SocketsInv

LEMMA FailInv ==
  ASSUME PoolInv, NEW s \in Slots, Fail(s)
  PROVE  PoolInv'
<1> DEFINE y == [socket[s] EXCEPT !.net = "closed", !.promise = "done"]
           sockets == [socket EXCEPT ![s] = y]
           p == [Pool EXCEPT !.socket = sockets]
           e == socket[s].entry
<1>1. /\ socket[s].net \in {"opening", "asked", "mute", "closing"} /\ OnlySockets
  BY DEF Fail
<1>2. /\ socket[s] \in Socket /\ socket \in [Slots -> Socket] /\ PoolOK(Pool, made)
      /\ Pool \in Pools /\ Pool.entry = entry /\ Pool.socket = socket /\ e \in 1..made
      /\ made \in Nat /\ 1..made \subseteq Entries
  BY <1>1, SocketFacts, PoolFacts
<1>3. IF socket[s].promise = "done" THEN Becomes(p)
      ELSE \E reason \in Reasons : Becomes(Failed(p, e, reason))
  <2>1. [Pool EXCEPT !.socket[s].net = "closed", !.socket[s].promise = "done"] = p
    BY <1>2 DEF Pools
  <2> QED
    BY <2>1, Zenon DEF Fail
<1>4. y \in Socket /\ y.entry = e /\ y.net = "closed" /\ y.promise = "done"
  BY <1>2 DEF Socket, Net
<1> HIDE DEF y, e
<1>5. /\ sockets \in [Slots -> Socket] /\ sockets[s] = y
      /\ \A t \in Slots : t # s => sockets[t] = socket[t]
  BY <1>2, <1>4
<1> HIDE DEF sockets
<1>6. p \in Pools /\ p.entry = entry /\ p.socket = sockets
  BY <1>2, <1>5, WithSockets
<1> HIDE DEF p
<1>7. PoolOK(p, made)
  <2>1. \A t \in Slots : /\ p.socket[t].entry = Pool.socket[t].entry
                         /\ p.socket[t].promise # "done" => Pool.socket[t].promise # "done"
                         /\ p.socket[t].net # "closed" => Pool.socket[t].net # "closed"
    BY <1>2, <1>4, <1>5, <1>6 DEF e
  <2> QED
    BY <1>2, <1>6, <2>1, SettledOK
<1>8. \A t \in Slots, f \in Entries : IsUp(Pool, t, f) => IsUp(p, t, f)
  BY <1>1, <1>2, <1>5, <1>6 DEF IsUp
<1>9. CASE socket[s].promise = "done"
  <2>1. Becomes(p)
    BY <1>3, <1>9
  <2>2. \A t \in Slots : IsUp(Pool, t, current) => IsUp(p, t, current)
    BY <1>1, <1>2, <1>5, <1>6 DEF IsUp
  <2> QED
    BY <1>1, <1>6, <1>7, <2>1, <2>2, SocketsInv
<1>10. CASE socket[s].promise # "done"
  <2>1. PICK reason \in Reasons : Becomes(Failed(p, e, reason))
    BY <1>3, <1>10
  <2> DEFINE q == Failed(p, e, reason)
  <2>2. EntryOK(p, e) /\ EntryOK(Pool, e) /\ e \in Entries
    BY <1>2, <1>7 DEF PoolOK
  <2>3. Free(p) # {}
    BY <1>4, <1>5, <1>6 DEF Free
  <2>4. Failing(p, e)
    <3> SUFFICES ASSUME p.entry[e].connector < Len(connectors)
                 PROVE  /\ p.entry[e].pending /\ p.entry[e].state # "connected"
                        /\ \A t \in Slots : ~Attempt(p, t, e)
      BY DEF Failing
    <3>1. Attempt(Pool, s, e)
      BY <1>2, <1>10 DEF Attempt, e
    <3>2. /\ Pool.entry[e].pending /\ Pool.entry[e].state # "connected"
          /\ \A t \in Slots : Attempt(Pool, t, e) => t = s
      BY <1>2, <1>6, <2>2, <3>1 DEF EntryOK
    <3> QED
      BY <1>2, <1>4, <1>5, <1>6, <3>2 DEF Attempt
  <2>5. /\ OnlyOf(e, p, q) /\ EntryOK(q, e) /\ SameUse(e, p, q)
        /\ q.entry[e].state = "connected" => p.entry[e].state = "connected"
        /\ p.entry[e].connector < Len(connectors) => q.entry[e].state # "connected"
        /\ ~(p.entry[e].connector < Len(connectors)) => q.socket = p.socket
    BY <1>6, <2>2, <2>3, <2>4, FailedOK
  <2> HIDE DEF q
  <2>6. Becomes(q)
    BY <2>1 DEF q
  <2> QED
    BY <1>1, <1>2, <1>6, <1>7, <1>8, <2>5, <2>6, SocketThenInv
<1> QED
  BY <1>9, <1>10

\* A message on socket s settles promises and leaves the socket in `net`.
LEMMA MessageSettles ==
  ASSUME PoolInv, NEW s \in Slots, socket[s].net = "asked", NEW netNow \in {"up", "mute", "closed"}
  PROVE  LET p == [Done(Pool, Settled(s)) EXCEPT !.socket[s].net = netNow]
         IN  /\ p \in Pools /\ p.entry = entry /\ PoolOK(p, made) /\ Free(Pool) \subseteq Free(p)
             /\ p.socket[s].entry = socket[s].entry /\ p.socket[s].net = netNow
             /\ \A t \in Settled(s) : p.socket[t].promise = "done"
             /\ \A t \in Slots, f \in Entries : /\ IsUp(Pool, t, f) => IsUp(p, t, f)
                                                /\ Attempt(p, t, f) => Attempt(Pool, t, f)
<1> DEFINE settled == Settled(s)
           now(t) == IF t \in settled THEN [socket[t] EXCEPT !.promise = "done"] ELSE socket[t]
           sockets == [t \in Slots |-> now(t)]
           y == [sockets[s] EXCEPT !.net = netNow]
           after == [sockets EXCEPT ![s] = y]
           p == [Pool EXCEPT !.socket = after]
<1>1. /\ socket[s] \in Socket /\ socket \in [Slots -> Socket] /\ PoolOK(Pool, made)
      /\ Pool \in Pools /\ Pool.entry = entry /\ Pool.socket = socket
  BY SocketFacts, PoolFacts
<1>2. [Done(Pool, Settled(s)) EXCEPT !.socket[s].net = netNow] = p
  <2>1. Done(Pool, settled) = [Pool EXCEPT !.socket = sockets]
    BY <1>1 DEF Done
  <2>2. /\ [Pool EXCEPT !.socket = sockets] \in Pools
        /\ [Pool EXCEPT !.socket = sockets].socket = sockets
        /\ [Pool EXCEPT !.socket = sockets].entry = entry
    <3>1. sockets \in [Slots -> Socket]
      BY <1>1 DEF Socket
    <3> HIDE DEF sockets
    <3> QED
      BY <1>1, <3>1, WithSockets
  <2> HIDE DEF sockets, settled
  <2>3. [[Pool EXCEPT !.socket = sockets] EXCEPT !.socket[s].net = netNow] = p
    BY <1>1, <2>2 DEF Pools
  <2> QED
    BY <2>1, <2>3 DEF settled
<1> HIDE DEF settled
<1>3. ASSUME NEW t \in Slots
      PROVE  /\ sockets[t] \in Socket /\ sockets[t].entry = socket[t].entry
             /\ sockets[t].net = socket[t].net
             /\ sockets[t].promise = IF t \in settled THEN "done" ELSE socket[t].promise
  BY <1>1 DEF Socket
<1> HIDE DEF now
<1>4. sockets \in [Slots -> Socket]
  BY <1>3
<1> HIDE DEF sockets
<1>5. /\ y \in Socket /\ y.entry = socket[s].entry /\ y.net = netNow
      /\ y.promise = sockets[s].promise
  BY <1>3 DEF Socket, Net
<1> HIDE DEF y
<1>6. /\ after \in [Slots -> Socket]
      /\ \A t \in Slots :
           /\ after[t].entry = socket[t].entry
           /\ after[t].net = IF t = s THEN netNow ELSE socket[t].net
           /\ after[t].promise = IF t \in settled THEN "done" ELSE socket[t].promise
  BY <1>3, <1>4, <1>5
<1> HIDE DEF after
<1>7. p \in Pools /\ p.entry = entry /\ p.socket = after
  BY <1>1, <1>6, WithSockets
<1> HIDE DEF p
<1>8. PoolOK(p, made)
  <2>1. \A t \in Slots : /\ p.socket[t].entry = Pool.socket[t].entry
                         /\ p.socket[t].promise # "done" => Pool.socket[t].promise # "done"
                         /\ p.socket[t].net # "closed" => Pool.socket[t].net # "closed"
    BY <1>1, <1>6, <1>7
  <2> QED
    BY <1>1, <1>7, <2>1, SettledOK
<1>9. Free(Pool) \subseteq Free(p)
  BY <1>1, <1>6, <1>7 DEF Free
<1>10. \A t \in Slots, f \in Entries : /\ IsUp(Pool, t, f) => IsUp(p, t, f)
                                       /\ Attempt(p, t, f) => Attempt(Pool, t, f)
  BY <1>1, <1>6, <1>7 DEF IsUp, Attempt
<1>11. /\ p.socket[s].entry = socket[s].entry /\ p.socket[s].net = netNow
       /\ \A t \in settled : p.socket[t].promise = "done"
  BY <1>6, <1>7 DEF settled, Settled
<1> QED
  BY <1>2, <1>7, <1>8, <1>9, <1>10, <1>11 DEF settled

\* What a message settles are attempts of its entry: before the last connector the only one.
LEMMA SettledAttempts ==
  ASSUME PoolInv, NEW s \in Slots, socket[s].net = "asked", NEW e, e = socket[s].entry,
         entry[e].connector < Len(connectors), Settled(s) # {}
  PROVE  /\ entry[e].pending /\ entry[e].state # "connected" /\ entry[e].timers = 0
         /\ \E t \in Slots : Settled(s) = {t} /\ \A r \in Slots : Attempt(Pool, r, e) => r = t
<1>1. /\ Pool.entry = entry /\ Pool.socket = socket /\ EntryOK(Pool, e)
  BY SocketFacts, PoolFacts
<1>2. \A t \in Settled(s) : t \in Slots /\ Attempt(Pool, t, e)
  BY <1>1 DEF Settled, Attempt
<1>3. PICK t \in Settled(s) : TRUE
  OBVIOUS
<1>4. /\ entry[e].pending /\ entry[e].state # "connected" /\ entry[e].timers = 0
      /\ \A r \in Slots : Attempt(Pool, r, e) => r = t
  BY <1>1, <1>2, <1>3 DEF EntryOK
<1>5. Settled(s) = {t}
  BY <1>2, <1>3, <1>4
<1> QED
  BY <1>2, <1>3, <1>4, <1>5

LEMMA AnswerInv ==
  ASSUME PoolInv, NEW s \in Slots, Answer(s)
  PROVE  PoolInv'
<1> DEFINE e == socket[s].entry
           p == [Done(Pool, Settled(s)) EXCEPT !.socket[s].net = "up"]
           d == Dispatch(p, e, "connected")
           x == [d.entry[e] EXCEPT !.attempt = 0, !.pending = FALSE]
           q == [d EXCEPT !.entry[e].attempt = 0, !.entry[e].pending = FALSE]
<1>1. socket[s].net = "asked" /\ Becomes(IF Settled(s) = {} THEN p ELSE q) /\ OnlySockets
  BY DEF Answer
<1>2. e \in 1..made /\ e \in Entries /\ EntryOK(Pool, e) /\ Pool.entry = entry
  BY <1>1, SocketFacts, PoolFacts, SMTT(30)
<1>3. /\ p \in Pools /\ p.entry = entry /\ PoolOK(p, made)
      /\ p.socket[s].entry = e /\ p.socket[s].net = "up"
      /\ \A t \in Settled(s) : p.socket[t].promise = "done"
      /\ \A t \in Slots, f \in Entries : /\ IsUp(Pool, t, f) => IsUp(p, t, f)
                                         /\ Attempt(p, t, f) => Attempt(Pool, t, f)
  BY <1>1, MessageSettles
<1> HIDE DEF p
<1>4. CASE Settled(s) = {}
  <2>1. Becomes(p)
    BY <1>1, <1>4
  <2>2. PoolInv'
    <3>1. \A t \in Slots : IsUp(Pool, t, current) => IsUp(p, t, current)
      <4>1. CASE current \in Entries
        BY <1>3, <4>1
      <4>2. CASE current \notin Entries
        <5>1. current = 0
          <6>1. current \in 0..made /\ made \in Nat /\ 1..made \subseteq Entries
            BY PoolFacts DEF PoolInv
          <6> QED
            BY <4>2, <6>1
        <5>2. \A t \in Slots : ~IsUp(Pool, t, 0)
          BY DEF IsUp, PoolInv, PoolOK
        <5> QED
          BY <5>1, <5>2
      <4> QED
        BY <4>1, <4>2
    <3> QED
      BY <1>1, <1>3, <2>1, <3>1, SocketsInv
  <2> QED
    BY <2>2
<1>5. CASE Settled(s) # {}
  <2>1. Becomes(q)
    BY <1>1, <1>5
  <2>2. /\ OnlyOf(e, p, d) /\ d.socket = p.socket /\ SameUse(e, p, d)
        /\ d.entry[e].timers = p.entry[e].timers /\ d.entry[e].kept = p.entry[e].kept
        /\ d.entry[e].connector = p.entry[e].connector
    BY <1>2, <1>3, Dispatched
  <2> HIDE DEF d
  <2>3. d \in Pools /\ d.entry[e] \in Entry
    BY <1>2, <2>2 DEF OnlyOf, Pools
  <2>4. /\ x \in Entry /\ x.timers = entry[e].timers /\ x.kept = entry[e].kept
        /\ x.connector = entry[e].connector /\ x.refs = entry[e].refs /\ x.idle = entry[e].idle
    <3>1. 0 \in 0..MaxRetryAttempts
      BY PoolAssumption DEF PoolAssumption
    <3> QED
      BY <1>3, <2>2, <2>3, <3>1 DEF Entry, SameUse
  <2>5. q = [d EXCEPT !.entry[e] = x]
    BY <1>2, <2>3 DEF Pools
  <2> HIDE DEF x, q, e
  <2>6. SetEntry(d, q, e, x)
    BY <1>2, <2>3, <2>4, <2>5, EntryIsSet
  <2>7. OnlyOf(e, p, q) /\ q.entry[e] = x /\ q.socket = p.socket
    <3>1. OnlyOf(e, d, q) /\ q.entry[e] = x /\ q.socket = d.socket
      BY <1>2, <2>6, SetOnly DEF SetEntry
    <3> QED
      BY <1>2, <2>2, <3>1, OnlyOfTransitive
  <2>8. EntryOK(q, e)
    <3>1. x.connector < Len(connectors) => \A t \in Slots : ~Attempt(q, t, e)
      <4> SUFFICES ASSUME entry[e].connector < Len(connectors), NEW t \in Slots, Attempt(q, t, e)
                   PROVE  FALSE
        BY <2>4
      <4>1. Attempt(p, t, e) /\ Attempt(Pool, t, e)
        BY <1>2, <1>3, <2>7 DEF Attempt
      <4>2. t \in Settled(s)
        BY <1>1, <1>5, <4>1, SettledAttempts DEF e
      <4> QED
        BY <1>3, <4>1, <4>2 DEF Attempt
    <3>2. x.connector < Len(connectors) => x.timers = 0
      BY <1>2, <2>4 DEF EntryOK
    <3> QED
      BY <1>2, <2>4, <2>7, <3>1, <3>2 DEF EntryOK
  <2>9. SameUse(e, p, q) /\ IsUp(q, s, e)
    BY <1>3, <2>4, <2>7 DEF SameUse, IsUp
  <2> QED
    BY <1>1, <1>2, <1>3, <2>1, <2>7, <2>8, <2>9, SocketThenInv
<1> QED
  BY <1>4, <1>5, SMTT(30)

-----------------------------------------------------------------------------
(* One attempt fails after the other *)

IsAfter(p, e, n, f) ==
  f = [k \in 0..n |-> IF k = 0 THEN p ELSE Failed(f[k - 1], e, "unknown")]

LEMMA AfterExists ==
  ASSUME NEW p, NEW e
  PROVE  \A n \in Nat : \E f : IsAfter(p, e, n, f)
<1> DEFINE Bad == {n \in Nat : ~\E f : IsAfter(p, e, n, f)}
<1> SUFFICES ASSUME Bad # {}
             PROVE  FALSE
  OBVIOUS
<1>1. PICK n \in Bad : \A k \in Bad : n <= k
  <2>1. Bad \in SUBSET Nat
    OBVIOUS
  <2> HIDE DEF Bad
  <2> QED
    BY <2>1, LeastNatural
<1>2. CASE n = 0
  <2>1. IsAfter(p, e, n, [k \in 0..n |-> p])
    BY <1>2 DEF IsAfter
  <2> QED
    BY <1>1, <2>1
<1>3. CASE n # 0
  <2>1. n \in Nat /\ n - 1 \in Nat /\ ~(n <= n - 1)
    BY <1>1, <1>3
  <2>2. n - 1 \notin Bad
    <3> HIDE DEF Bad
    <3> QED
      BY <1>1, <2>1
  <2>3. PICK f : IsAfter(p, e, n - 1, f)
    BY <2>1, <2>2
  <2> DEFINE g == [k \in 0..n |-> IF k = n THEN Failed(f[n - 1], e, "unknown") ELSE f[k]]
  <2>4. ASSUME NEW k \in 0..n
        PROVE  g[k] = IF k = 0 THEN p ELSE Failed(g[k - 1], e, "unknown")
    <3>1. k # 0 => k - 1 \in 0..n /\ k - 1 # n /\ g[k - 1] = f[k - 1]
      BY <2>1
    <3>2. CASE k = n
      BY <1>3, <3>1, <3>2
    <3>3. CASE k # n
      <4>1. k \in 0..(n - 1) /\ g[k] = f[k]
        BY <2>1, <3>3
      <4>2. f[k] = IF k = 0 THEN p ELSE Failed(f[k - 1], e, "unknown")
        BY <2>3, <4>1 DEF IsAfter
      <4> QED
        BY <3>1, <4>1, <4>2
    <3> QED
      BY <3>2, <3>3
  <2>5. IsAfter(p, e, n, g)
    BY <2>4 DEF IsAfter
  <2> QED
    BY <1>1, <2>5
<1> QED
  BY <1>2, <1>3

InARow(p, e, n, f) == f[0] = p /\ \A k \in 1..n : f[k] = Failed(f[k - 1], e, "unknown")

LEMMA FailedTimesIs ==
  ASSUME NEW p, NEW e, NEW n \in Nat
  PROVE  \E f : FailedTimes(p, e, n) = f[n] /\ InARow(p, e, n, f)
<1> DEFINE after == CHOOSE f : f = [k \in 0..n |-> IF k = 0 THEN p
                                                   ELSE Failed(f[k - 1], e, "unknown")]
<1>1. FailedTimes(p, e, n) = after[n]
  BY DEF FailedTimes
<1>2. IsAfter(p, e, n, after)
  <2>1. \E f : IsAfter(p, e, n, f)
    BY AfterExists
  <2>2. after = CHOOSE f : IsAfter(p, e, n, f)
    BY DEF IsAfter
  <2> HIDE DEF after
  <2> QED
    BY <2>1, <2>2, Zenon
<1> HIDE DEF after
<1>3. after = [k \in 0..n |-> IF k = 0 THEN p ELSE Failed(after[k - 1], e, "unknown")]
  BY <1>2 DEF IsAfter
<1>4. after[0] = p
  BY <1>3
<1>5. ASSUME NEW k \in 1..n
      PROVE  after[k] = Failed(after[k - 1], e, "unknown")
  <2>1. k \in 0..n /\ k # 0
    OBVIOUS
  <2> QED
    BY <1>3, <2>1, Zenon
<1> QED
  BY <1>1, <1>4, <1>5 DEF InARow

\* On the last connector: each schedules a retry or not; none closes or opens a socket.
LEMMA LastFails ==
  ASSUME NEW p \in Pools, NEW e \in Entries, Free(p) # {}, EntryOK(p, e), NEW n \in Nat,
         ~(p.entry[e].connector < Len(connectors))
  PROVE  LET q == FailedTimes(p, e, n)
         IN  /\ OnlyOf(e, p, q) /\ EntryOK(q, e) /\ SameUse(e, p, q) /\ q.socket = p.socket
             /\ q.entry[e].state = "connected" => p.entry[e].state = "connected"
<1>1. PICK f : FailedTimes(p, e, n) = f[n] /\ InARow(p, e, n, f)
  BY FailedTimesIs, Zenon
<1> DEFINE Good(q) ==
      /\ OnlyOf(e, p, q) /\ EntryOK(q, e) /\ SameUse(e, p, q) /\ q.socket = p.socket
      /\ q.entry[e].state = "connected" => p.entry[e].state = "connected"
      /\ ~(q.entry[e].connector < Len(connectors))
<1>2. Good(p)
  BY DEF OnlyOf, SameUse
<1>3. ASSUME NEW q, Good(q)
      PROVE  Good(Failed(q, e, "unknown"))
  <2> DEFINE r == Failed(q, e, "unknown")
  <2>1. q \in Pools /\ Free(q) # {} /\ Failing(q, e)
    BY <1>3 DEF OnlyOf, Free, Failing
  <2>2. /\ OnlyOf(e, q, r) /\ EntryOK(r, e) /\ SameUse(e, q, r)
        /\ r.entry[e].state = "connected" => q.entry[e].state = "connected"
        /\ r.socket = q.socket /\ ~(r.entry[e].connector < Len(connectors))
    BY <1>3, <2>1, FailedOK
  <2> HIDE DEF r
  <2>3. OnlyOf(e, p, r)
    BY <1>3, <2>2, OnlyOfTransitive
  <2>4. Good(r)
    BY <1>3, <2>2, <2>3 DEF SameUse
  <2> QED
    BY <2>4 DEF r
<1> HIDE DEF Good
<1> DEFINE Bad == {k \in 0..n : ~Good(f[k])}
<1>4. Bad = {}
  <2> SUFFICES ASSUME Bad # {}
               PROVE  FALSE
    OBVIOUS
  <2>1. PICK k \in Bad : \A j \in Bad : k <= j
    <3>1. Bad \in SUBSET Nat
      OBVIOUS
    <3> HIDE DEF Bad
    <3> QED
      BY <3>1, LeastNatural
  <2>2. k \in 1..n
    BY <1>1, <1>2, <2>1 DEF InARow
  <2>3. k - 1 \in 0..n /\ ~(k <= k - 1)
    BY <2>2
  <2>4. Good(f[k - 1])
    BY <2>1, <2>3
  <2> QED
    BY <1>1, <1>3, <2>1, <2>2, <2>4 DEF InARow
<1>5. Good(f[n])
  <2>1. n \in 0..n
    OBVIOUS
  <2> QED
    BY <1>4, <2>1
<1> QED
  BY <1>1, <1>5 DEF Good

LEMMA RefuseInv ==
  ASSUME PoolInv, NEW s \in Slots, Refuse(s)
  PROVE  PoolInv'
<1> DEFINE e == socket[s].entry
           netNow == IF Direct(s, Pool) THEN "closed" ELSE "mute"
           p == [Done(Pool, Settled(s)) EXCEPT !.socket[s].net = netNow]
           n == Cardinality(Settled(s))
           q == FailedTimes(p, e, n)
<1>1. socket[s].net = "asked" /\ Becomes(q) /\ OnlySockets /\ Free(Pool) # {}
  BY DEF Refuse
<1>2. /\ e \in 1..made /\ e \in Entries /\ EntryOK(Pool, e) /\ Pool.entry = entry
      /\ netNow \in {"up", "mute", "closed"}
  BY <1>1, SocketFacts, PoolFacts
<1> HIDE DEF netNow
<1>3. /\ p \in Pools /\ p.entry = entry /\ PoolOK(p, made) /\ Free(Pool) \subseteq Free(p)
      /\ \A t \in Settled(s) : p.socket[t].promise = "done"
      /\ \A t \in Slots, f \in Entries : /\ IsUp(Pool, t, f) => IsUp(p, t, f)
                                         /\ Attempt(p, t, f) => Attempt(Pool, t, f)
  BY <1>1, <1>2, MessageSettles
<1> HIDE DEF p
<1>4. Free(p) # {} /\ EntryOK(p, e)
  BY <1>1, <1>2, <1>3 DEF PoolOK
<1>5. n \in Nat
  <2>1. IsFiniteSet(Slots)
    <3>1. MaxSlots \in Nat
      BY PoolAssumption DEF PoolAssumption
    <3> QED
      BY <3>1, FS_Interval DEF Slots
  <2>2. Settled(s) \subseteq Slots
    BY DEF Settled
  <2> QED
    BY <2>1, <2>2, FS_Subset, FS_CardinalityType
<1>6. /\ OnlyOf(e, p, q) /\ EntryOK(q, e) /\ SameUse(e, p, q)
      /\ q.entry[e].state = "connected" => p.entry[e].state = "connected" /\ q.socket = p.socket
  <2>1. CASE ~(p.entry[e].connector < Len(connectors))
    <3> HIDE DEF n, e
    <3> QED
      BY <1>2, <1>3, <1>4, <1>5, <2>1, LastFails
  <2>2. CASE p.entry[e].connector < Len(connectors) /\ Settled(s) = {}
    <3>1. n = 0
      BY <2>2, FS_EmptySet
    <3>2. q = p
      BY <1>5, <3>1, FailedTimesIs DEF InARow
    <3> QED
      BY <1>2, <1>3, <1>4, <3>2 DEF OnlyOf, SameUse
  <2>3. CASE p.entry[e].connector < Len(connectors) /\ Settled(s) # {}
    <3>1. /\ entry[e].pending /\ entry[e].state # "connected"
          /\ \E t \in Slots : Settled(s) = {t} /\ \A r \in Slots : Attempt(Pool, r, e) => r = t
      BY <1>1, <1>3, <2>3, SettledAttempts
    <3>2. n = 1
      BY <3>1, FS_Singleton
    <3>3. q = Failed(p, e, "unknown")
      <4> HIDE DEF n, e
      <4>1. PICK f : FailedTimes(p, e, 1) = f[1] /\ InARow(p, e, 1, f)
        BY FailedTimesIs
      <4>2. f[1] = Failed(f[1 - 1], e, "unknown") /\ 1 - 1 = 0
        BY <4>1 DEF InARow
      <4>3. q = FailedTimes(p, e, 1)
        BY <3>2
      <4>4. f[1] = Failed(p, e, "unknown")
        BY <4>1, <4>2 DEF InARow
      <4> HIDE DEF q
      <4> QED
        BY <4>1, <4>3, <4>4
    <3>4. Failing(p, e)
      <4>1. \A t \in Slots : ~Attempt(p, t, e)
        BY <1>2, <1>3, <3>1 DEF Attempt
      <4> QED
        BY <1>3, <3>1, <4>1 DEF Failing
    <3> HIDE DEF n, e
    <3> QED
      BY <1>2, <1>3, <1>4, <2>3, <3>3, <3>4, FailedOK
  <2> QED
    BY <2>1, <2>2, <2>3
<1> HIDE DEF q
<1> QED
  BY <1>1, <1>2, <1>3, <1>6, SocketThenInv

-----------------------------------------------------------------------------
(* The theorems *)

LEMMA PoolInvInit ==
  ASSUME PoolInit
  PROVE  PoolInv
<1>1. /\ {MaxRetryAttempts, MaxEntries, MaxAsks, MaxSlots} \subseteq Nat
      /\ connectors \in Seq({"direct_ws", "relay"}) /\ connectors # <<>> /\ connectors \in Devices
  BY PoolAssumption DEF PoolAssumption, PoolInit
<1>2. Len(connectors) \in Nat /\ 1 \in 1..Len(connectors)
  BY <1>1
<1>3. NewEntry \in Entry /\ NoSocket \in Socket
  BY <1>1 DEF NewEntry, Entry, State, NoSocket, Socket, Net
<1>4. entry \in [Entries -> Entry] /\ socket \in [Slots -> Socket]
  BY <1>3 DEF PoolInit
<1>5. Pool \in Pools /\ Pool.entry = entry /\ Pool.socket = socket
  BY <1>4 DEF Pool, Pools
<1>6. /\ \A e \in Entries : entry[e] = NewEntry
      /\ \A s \in Slots : socket[s] = NoSocket
  BY DEF PoolInit
<1>7. \A s \in Slots, e \in Entries : ~Attempt(Pool, s, e)
  BY <1>5, <1>6 DEF Attempt, NoSocket
<1>8. \A e \in Entries : EntryOK(Pool, e)
  BY <1>2, <1>5, <1>6, <1>7 DEF EntryOK, NewEntry
<1>9. PoolOK(Pool, made)
  <2>1. made = 0
    BY DEF PoolInit
  <2> QED
    BY <1>5, <1>6, <1>8, <2>1 DEF PoolOK, NoSocket
<1> QED
  BY <1>1, <1>6, <1>9 DEF PoolInv, PoolInit, ConnectedIsConnected, NewEntry

LEMMA PoolInvStep ==
  ASSUME PoolInv, [PoolNext]_poolVars
  PROVE  PoolInv'
<1>1. ASSUME NEW e \in Entries, RetryTimer(e)
      PROVE  PoolInv'
  BY <1>1, RetryTimerInv
<1>2. CASE IdleRelease
  BY <1>2, IdleReleaseInv
<1>3. ASSUME NEW c \in Consumers, NEW dialog \in BOOLEAN, Acquire(c, dialog)
      PROVE  PoolInv'
  BY <1>3, AcquireInv
<1>4. ASSUME NEW c \in Consumers, Release(c)
      PROVE  PoolInv'
  BY <1>4, ReleaseInv
<1>5. ASSUME NEW c \in Consumers, Reconnect(c)
      PROVE  PoolInv'
  BY <1>5, ReconnectInv
<1>6. ASSUME NEW c \in Consumers, Disconnect(c)
      PROVE  PoolInv'
  BY <1>6, DisconnectInv
<1>7. ASSUME NEW s \in Slots, Open(s)
      PROVE  PoolInv'
  BY <1>7, OpenInv
<1>8. ASSUME NEW s \in Slots, Answer(s)
      PROVE  PoolInv'
  BY <1>8, AnswerInv
<1>9. ASSUME NEW s \in Slots, Refuse(s)
      PROVE  PoolInv'
  BY <1>9, RefuseInv
<1>10. ASSUME NEW s \in Slots, Fail(s)
       PROVE  PoolInv'
  BY <1>10, FailInv
<1>11. ASSUME NEW s \in Slots, Drop(s)
       PROVE  PoolInv'
  BY <1>11, DropInv
<1>12. CASE UNCHANGED poolVars
  <2>1. /\ connectors' = connectors /\ made' = made /\ current' = current /\ handle' = handle
        /\ asks' = asks /\ entry' = entry /\ socket' = socket
    BY <1>12 DEF poolVars
  <2>2. Becomes(Pool) /\ PoolOK(Pool, made) /\ Pool.entry = entry /\ OnlySockets
    BY <2>1, PoolFacts DEF Becomes, PoolInv, OnlySockets
  <2> QED
    BY <2>2, SocketsInv
<1> QED
  BY <1>1, <1>2, <1>3, <1>4, <1>5, <1>6, <1>7, <1>8, <1>9, <1>10, <1>11, <1>12 DEF PoolNext

LEMMA PoolInvHolds == PoolSpec => []PoolInv
<1>1. PoolInit => PoolInv
  BY PoolInvInit
<1>2. PoolInv /\ [PoolNext]_poolVars => PoolInv'
  BY PoolInvStep
<1> QED
  BY <1>1, <1>2, PTL DEF PoolSpec

\* Every variable of the pool keeps its type, whatever attempts, timers, users and networks do; a
\* kept timer is set, and the idle timer runs only without users.
THEOREM PoolTypeCorrect == PoolSpec => []PoolTypeOK
<1>1. PoolInv => PoolTypeOK
  <2> SUFFICES ASSUME PoolInv
               PROVE  PoolTypeOK
    OBVIOUS
  <2>1. entry \in [Entries -> Entry] /\ socket \in [Slots -> Socket]
    BY PoolFacts DEF Pools
  <2>2. \A e \in Entries : /\ entry[e].connector \in 1..Len(connectors)
                           /\ entry[e].kept => entry[e].timers > 0
    BY PoolFacts DEF EntryOK
  <2> QED
    BY <2>1, <2>2 DEF PoolInv, PoolTypeOK
<1> QED
  BY <1>1, PoolInvHolds, PTL

\* The pool shows a device as connected only while a socket of that entry completed the handshake
\* and was not closed by the pool, for any number of entries, components, connectors and sockets
\* (#runConnect, #tryFallbackConnector, #manualDisconnect).
THEOREM ShownIsConnected == PoolSpec => []ConnectedIsConnected
<1>1. PoolInv => ConnectedIsConnected
  BY DEF PoolInv
<1> QED
  BY <1>1, PoolInvHolds, PTL
=============================================================================
