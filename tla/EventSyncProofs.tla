---------------------------- MODULE EventSyncProofs --------------------------
(***************************************************************************)
(* Proofs about EventSync, for any clients and bounds: the log's seqs      *)
(* increase, clients see only what is durable, and an attached client      *)
(* shows the log.                                                          *)
(***************************************************************************)
EXTENDS EventSync, FiniteSetTheorems, WellFoundedInduction, TLAPS

USE EventSyncAssumption

InTree(e) == e.id \in DOMAIN log /\ log[e.id] = e.seq
\* No persistent event has, or is being given, this seq.
Unused(seq) == seq # writing /\ \A i \in DOMAIN log : log[i] # seq

LogOK ==
  /\ LogIncreases
  /\ writing > 0 => TreeSeq < writing /\ Len(log) < MaxPersistent
  /\ \A b \in DOMAIN buffer : buffer[b].id # 0 => InTree(buffer[b])

\* The counter is ahead of the log, and of the buffer; what was recorded since some event
\* of the buffer is in the buffer too.
CounterOK ==
  /\ lane => TreeSeq <= seqs
  /\ writing <= seqs
  /\ ~lane => seqs \in {0, TreeSeq}
  /\ \A b \in DOMAIN buffer :
       buffer[b].seq <= seqs /\ (buffer[b].id = 0 => Unused(buffer[b].seq))
  /\ \A a, b \in DOMAIN buffer : buffer[a].seq = buffer[b].seq => a = b
  /\ \A b \in DOMAIN buffer, i \in DOMAIN log :
       buffer[b].seq <= log[i] => \E a \in DOMAIN buffer : buffer[a].id = i

CacheOK(k) == \A e \in k.cache : e.id # 0 /\ InTree(e)

\* What a client holds is of the log, and load_session has read all of the file if nobody
\* has written since.
Holds(k) ==
  /\ \A a \in DOMAIN k.answer : k.answer[a].id # 0 => InTree(k.answer[a])
  /\ k.view \subseteq DOMAIN log /\ k.during \subseteq DOMAIN log
  /\ k.load <= Len(log)
  /\ k.phase = "loading" /\ k.load = Live => lane
  /\ k.phase = "loading" /\ k.load # Live /\ (buffer = <<>> \/ ~lane) => k.load = Len(log)
  /\ k.phase \in {"loading", "loaded"} => k.during = {}
  /\ k.mode = "full_reload" => \A a \in DOMAIN k.answer : k.answer[a].id # 0

\* The seqs a client has applied: a persistent event's only with the event.
Follows(k) ==
  /\ k.phase \in {"loaded", "resyncing", "attached"} => TreeSeq <= seqs
  /\ \A seq \in k.applied : seq # writing /\ (seq <= seqs \/ \E i \in DOMAIN log : log[i] = seq)
  /\ \A i \in DOMAIN log : log[i] \in k.applied => i \in k.view

\* The events of resync_events' result
AnswerOK(k) ==
  /\ \A a \in DOMAIN k.answer :
       k.answer[a].id = 0 => Unused(k.answer[a].seq) /\ k.answer[a].seq <= seqs
  /\ \A a, b \in DOMAIN k.answer : k.answer[a].seq = k.answer[b].seq => a = b

Answered(k) == {k.answer[a].id : a \in DOMAIN k.answer}

\* What a client shows, or will once it has the result
Covers(k) ==
  /\ k.sound => \A i \in DOMAIN log : log[i] <= k.anchor => i \in k.view
  /\ k.mode = "full_reload" => k.anchor = 0
  /\ k.phase = "resyncing" =>
       /\ AnswerOK(k)
       /\ k.mode = "full_reload" => Answered(k) = DOMAIN log \ k.during
       /\ k.mode # "full_reload" /\ k.sound =>
            \A i \in DOMAIN log : i \in k.view \cup Answered(k)
  /\ k.phase = "attached" /\ k.sound =>
       k.view = DOMAIN log \ (IF k.mode = "full_reload" THEN k.during ELSE {})

ClientOK(k) ==
  IF k.phase = "off" THEN DOMAIN k.answer = {}
                     ELSE Holds(k) /\ (~regressed => Follows(k) /\ Covers(k))
ClientsOK == \A c \in Client : CacheOK(client[c]) /\ ClientOK(client[c])

IInv == TypeOK /\ LogOK /\ (~regressed => CounterOK) /\ ClientsOK

-----------------------------------------------------------------------------
\* Sets of naturals

LEMMA LeastNatural ==
  ASSUME NEW S \in SUBSET Nat, S # {}
  PROVE  \E m \in S : \A n \in S : m <= n
<1> DEFINE Less == {ss \in Nat \X Nat : ss[1] < ss[2]}
<1>1. IsWellFoundedOn(Less, Nat)
  BY NatLessThanWellFounded, Zenon DEF OpToRel
<1>2. PICK m \in S : \A n \in S : ~(<<n, m>> \in Less)
  <2> HIDE DEF Less
  <2> QED
    BY <1>1, WFMin, Zenon
<1>3. \A n \in S : n < m => <<n, m>> \in Less
  OBVIOUS
<1>4. \A n \in S : ~(n < m)
  <2> HIDE DEF Less
  <2> QED
    BY <1>2, <1>3, Zenon
<1>5. \A n \in S : m <= n
  BY <1>4
<1> QED
  BY <1>5, Zenon

LEMMA AnchorType ==
  ASSUME NEW events \in SUBSET Event, NEW bound \in Nat, \A e \in events : e.seq <= bound
  PROVE  HighestSeq(events) \in Nat
<1> DEFINE Bounds == {n \in Nat : \A e \in events : e.seq <= n}
<1>1. PICK m \in Bounds : \A n \in Bounds : m <= n
  BY LeastNatural
<1>2. m \in Seqs(events) \cup {0}
  <2> SUFFICES ASSUME m # 0, m \notin Seqs(events) PROVE FALSE
    OBVIOUS
  <2>1. m - 1 \in Nat
    OBVIOUS
  <2>2. \A e \in events : e.seq \in Nat /\ e.seq <= m /\ e.seq # m
    BY DEF Event, Seqs
  <2>3. m - 1 \in Bounds
    BY <2>1, <2>2
  <2> QED
    BY <1>1, <2>3
<1>3. HighestSeq(events) \in Seqs(events) \cup {0}
  BY <1>2 DEF HighestSeq
<1> QED
  BY <1>3 DEF Seqs, Event

-----------------------------------------------------------------------------
\* The log and the tree

LEMMA LogFacts ==
  ASSUME log \in Seq(Nat \ {0}), Len(log) <= MaxPersistent, LogIncreases
  PROVE  /\ DOMAIN log = 1..Len(log) /\ Len(log) \in Nat
         /\ \A i \in DOMAIN log : log[i] \in Nat \ {0} /\ log[i] <= TreeSeq
         /\ \A i, j \in DOMAIN log : log[i] = log[j] => i = j
         /\ TreeSeq \in Nat
         /\ log # <<>> => Len(log) \in DOMAIN log /\ TreeSeq = log[Len(log)]
         /\ log = <<>> => TreeSeq = 0
         /\ DOMAIN log \subseteq 1..MaxPersistent
<1>1. DOMAIN log = 1..Len(log) /\ Len(log) \in Nat /\ \A i \in DOMAIN log : log[i] \in Nat \ {0}
  OBVIOUS
<1>2. \A i, j \in DOMAIN log : log[i] = log[j] => i = j
  BY <1>1 DEF LogIncreases
<1>3. log # <<>> => Len(log) \in DOMAIN log /\ TreeSeq = log[Len(log)]
  BY <1>1 DEF TreeSeq, Last
<1>4. \A i \in DOMAIN log : log[i] <= TreeSeq
  BY <1>1, <1>3 DEF LogIncreases
<1> QED
  BY <1>1, <1>2, <1>3, <1>4 DEF TreeSeq

LEMMA TreeFacts ==
  ASSUME log \in Seq(Nat \ {0}), Len(log) <= MaxPersistent
  PROVE  /\ Tree \in Seq(Event) /\ Len(Tree) = Len(log) /\ DOMAIN Tree = DOMAIN log
         /\ \A i \in DOMAIN log : Tree[i] = [id |-> i, seq |-> log[i]] /\ InTree(Tree[i])
<1>1. DOMAIN log = 1..Len(log) /\ Len(log) \in Nat /\ \A i \in DOMAIN log : log[i] \in Nat \ {0}
  OBVIOUS
<1>2. \A i \in DOMAIN log : Tree[i] = [id |-> i, seq |-> log[i]] /\ Tree[i] \in Event
  BY <1>1 DEF Tree, Event
<1>3. Tree \in [1..Len(log) -> Event]
  BY <1>1, <1>2 DEF Tree
<1> QED
  BY <1>1, <1>2, <1>3 DEF InTree

-----------------------------------------------------------------------------
\* What a client is given

LEMMA Fields ==
  ASSUME NEW k \in Attachment
  PROVE  /\ k.cache \subseteq Event /\ k.view \subseteq 1..MaxPersistent
         /\ k.applied \subseteq Nat \ {0} /\ k.anchor \in Nat /\ k.sound \in BOOLEAN
         /\ k.load \in -1..MaxPersistent /\ k.mode \in Mode
         /\ k.phase \in {"off", "loading", "loaded", "resyncing", "attached"}
         /\ DOMAIN k.answer \subseteq Nat \ {0}
         /\ \A a \in DOMAIN k.answer : k.answer[a] \in Event
         /\ k.during \subseteq 1..MaxPersistent
<1>1. k.answer \in Answer
  BY DEF Attachment
<1>2. PICK places \in SUBSET (Nat \ {0}) : k.answer \in [places -> Event]
  BY <1>1 DEF Answer
<1>3. DOMAIN k.answer \subseteq Nat \ {0} /\ \A a \in DOMAIN k.answer : k.answer[a] \in Event
  BY <1>2
<1> QED
  BY <1>3 DEF Attachment

LEMMA ReceiveOne ==
  ASSUME NEW k \in Attachment, NEW e \in Event
  PROVE  /\ Receive(k, e) \in Attachment
         /\ LET r == Receive(k, e) IN
            /\ r.phase = k.phase /\ r.anchor = k.anchor /\ r.sound = k.sound
            /\ r.load = k.load /\ r.mode = k.mode /\ r.answer = k.answer
            /\ r.view = IF e.id = 0 \/ e.seq \in k.applied THEN k.view ELSE k.view \cup {e.id}
            /\ r.applied = k.applied \cup {e.seq}
            /\ r.cache = IF e.id = 0 THEN k.cache ELSE k.cache \cup {e}
            /\ r.during = IF k.phase = "resyncing" /\ e.id # 0 THEN k.during \cup {e.id}
                          ELSE k.during
<1>1. DOMAIN <<e>> = {1} /\ <<e>>[1] = e
  OBVIOUS
<1>2. ToSet(<<e>>) = {e}
  BY <1>1 DEF ToSet
<1>3. Projected(k, <<e>>) = IF e.id = 0 \/ e.seq \in k.applied THEN {} ELSE {e.id}
  BY <1>1 DEF Projected
<1>4. Seqs(ToSet(<<e>>)) = {e.seq} /\ Persistent(ToSet(<<e>>)) = IF e.id = 0 THEN {} ELSE {e}
  BY <1>2 DEF Seqs, Persistent
<1>5. e.id \in 0..MaxPersistent /\ e.seq \in Nat \ {0}
  BY DEF Event
<1> DEFINE r == Receive(k, e)
<1>6. r = [k EXCEPT
            !.view = @ \cup (IF e.id = 0 \/ e.seq \in k.applied THEN {} ELSE {e.id}),
            !.applied = @ \cup {e.seq},
            !.cache = @ \cup (IF e.id = 0 THEN {} ELSE {e}),
            !.during = IF k.phase = "resyncing" /\ e.id # 0 THEN @ \cup {e.id} ELSE @]
  BY <1>3, <1>4 DEF Receive, ApplyEvents, Attachment
<1>7. r \in Attachment
  <2> DEFINE v == k.view \cup (IF e.id = 0 \/ e.seq \in k.applied THEN {} ELSE {e.id})
             a == k.applied \cup {e.seq}
             h == k.cache \cup (IF e.id = 0 THEN {} ELSE {e})
             d == IF k.phase = "resyncing" /\ e.id # 0 THEN k.during \cup {e.id} ELSE k.during
  <2>1. /\ v \in SUBSET (1..MaxPersistent) /\ a \in SUBSET (Nat \ {0})
        /\ h \in SUBSET Event /\ d \in SUBSET (1..MaxPersistent)
    BY <1>5, Fields
  <2>2. r = [k EXCEPT !.view = v, !.applied = a, !.cache = h, !.during = d]
    BY <1>6
  <2> HIDE DEF v, a, h, d, r
  <2> QED
    BY <2>1, <2>2 DEF Attachment
<1> QED
  BY <1>6, <1>7 DEF Attachment

\* A client is as well off when the host's counter goes on, is given to an event, or a lane is
\* loaded.
LEMMA ClientKept ==
  ASSUME TypeOK, LogOK, NEW k \in Attachment, CacheOK(k), ClientOK(k),
         log' = log, lane => lane', buffer' = <<>> => buffer = <<>>,
         regressed' \in BOOLEAN, regressed => regressed', seqs' \in Nat, writing' \in Nat,
         ~regressed' => /\ seqs <= seqs'
                        /\ writing' = writing \/ (seqs < writing' /\ TreeSeq < writing')
  PROVE  CacheOK(k)' /\ ClientOK(k)'
<1>1. CacheOK(k)'
  BY DEF CacheOK, InTree
<1>2. SUFFICES ASSUME k.phase # "off" PROVE ClientOK(k)'
  BY <1>1 DEF ClientOK
<1>3. Holds(k)'
  BY <1>2 DEF ClientOK, Holds, InTree, TypeOK
<1>4. SUFFICES ASSUME ~regressed' PROVE Follows(k)' /\ Covers(k)'
  BY <1>3 DEF ClientOK
<1>5. /\ seqs \in Nat /\ writing \in Nat /\ seqs <= seqs' /\ TreeSeq' = TreeSeq
      /\ writing' = writing \/ (seqs < writing' /\ TreeSeq < writing')
      /\ Follows(k) /\ Covers(k)
  BY <1>2, <1>4 DEF ClientOK, TypeOK, TreeSeq
<1>6. /\ DOMAIN log = 1..Len(log) /\ TreeSeq \in Nat
      /\ \A i \in DOMAIN log : log[i] \in Nat \ {0} /\ log[i] <= TreeSeq
  BY LogFacts DEF TypeOK, LogOK
<1>7. Follows(k)'
  BY <1>5, <1>6, Fields DEF Follows
<1>8. AnswerOK(k) => AnswerOK(k)'
  <2>1. \A a \in DOMAIN k.answer : k.answer[a].seq \in Nat
    BY Fields DEF Event
  <2> QED
    BY <1>5, <1>6, <2>1 DEF AnswerOK, Unused
<1>9. Covers(k)'
  BY <1>5, <1>8 DEF Covers, Answered
<1> QED
  BY <1>7, <1>9

\* A client that hears of a transient event
LEMMA TransientHeard ==
  ASSUME TypeOK, LogOK, ~regressed => CounterOK, lane, NEW k \in Attachment, k.phase # "off",
         CacheOK(k), ClientOK(k), NEW e \in Event, e.id = 0, e.seq = seqs + 1,
         log' = log, lane' = lane, writing' = writing, seqs' = seqs + 1,
         regressed' = regressed, buffer' # <<>>
  PROVE  CacheOK(Receive(k, e))' /\ ClientOK(Receive(k, e))'
<1> DEFINE r == Receive(k, e)
<1>1. /\ r \in Attachment /\ r.phase = k.phase /\ r.anchor = k.anchor /\ r.sound = k.sound
      /\ r.load = k.load /\ r.mode = k.mode /\ r.answer = k.answer
      /\ r.view = k.view /\ r.applied = k.applied \cup {seqs + 1}
      /\ r.cache = k.cache /\ r.during = k.during
  BY ReceiveOne
<1> HIDE DEF r
<1>2. CacheOK(k)' /\ ClientOK(k)'
  <2> QED
    BY ClientKept DEF TypeOK
<1>3. CacheOK(r)' /\ Holds(r)'
  BY <1>1, <1>2 DEF CacheOK, ClientOK, Holds, InTree
<1>4. SUFFICES ASSUME ~regressed PROVE Follows(r)' /\ Covers(r)'
  BY <1>1, <1>3 DEF ClientOK, r
<1>5. Follows(k)' /\ Covers(k)'
  BY <1>2, <1>4 DEF ClientOK
<1>6. \A i \in DOMAIN log : log[i] \in Nat /\ log[i] < seqs + 1
  BY <1>4, LogFacts DEF TypeOK, LogOK, CounterOK
<1>7. writing < seqs + 1 /\ seqs \in Nat
  BY <1>4 DEF CounterOK, TypeOK
<1>8. Follows(r)'
  BY <1>1, <1>5, <1>6, <1>7 DEF Follows
<1>9. Covers(r)'
  BY <1>1, <1>5 DEF Covers, Answered, AnswerOK
<1> QED
  BY <1>8, <1>9

-----------------------------------------------------------------------------
\* The log grows

LEMMA Grown ==
  ASSUME TypeOK, LogOK, writing > 0, log' = Append(log, writing)
  PROVE  /\ log' \in Seq(Nat \ {0}) /\ Len(log') = Len(log) + 1 /\ Len(log') <= MaxPersistent
         /\ DOMAIN log' = DOMAIN log \cup {Len(log) + 1} /\ Len(log) + 1 \notin DOMAIN log
         /\ \A i \in DOMAIN log : log'[i] = log[i] /\ log[i] < writing
         /\ log'[Len(log) + 1] = writing
         /\ LogIncreases' /\ TreeSeq' = writing
         /\ \A e : InTree(e) => InTree(e)'
<1>1. /\ DOMAIN log = 1..Len(log) /\ Len(log) \in Nat /\ TreeSeq \in Nat
      /\ \A i \in DOMAIN log : log[i] \in Nat \ {0} /\ log[i] <= TreeSeq
  BY LogFacts DEF TypeOK, LogOK
<1>2. writing \in Nat \ {0} /\ TreeSeq < writing /\ Len(log) < MaxPersistent /\ log \in Seq(Nat \ {0})
  BY DEF TypeOK, LogOK
<1>3. log' \in Seq(Nat \ {0}) /\ Len(log') = Len(log) + 1 /\ DOMAIN log' = 1..(Len(log) + 1)
  BY <1>1, <1>2
<1>4. \A i \in DOMAIN log : log'[i] = log[i] /\ log[i] < writing
  BY <1>1, <1>2
<1>5. log'[Len(log) + 1] = writing
  BY <1>1, <1>2
<1>6. DOMAIN log' = DOMAIN log \cup {Len(log) + 1} /\ Len(log) + 1 \notin DOMAIN log
  BY <1>1, <1>3
<1>7. LogIncreases'
  <2> SUFFICES ASSUME NEW i \in DOMAIN log', NEW j \in DOMAIN log', i < j PROVE log'[i] < log'[j]
    BY DEF LogIncreases
  <2>1. i \in DOMAIN log
    BY <1>1, <1>3
  <2>2. CASE j \in DOMAIN log
    BY <1>4, <2>1, <2>2 DEF LogOK, LogIncreases
  <2>3. CASE j = Len(log) + 1
    BY <1>4, <1>5, <2>1, <2>3
  <2> QED
    BY <1>6, <2>2, <2>3
<1>8. TreeSeq' = writing
  <2>1. log' # <<>>
    BY <1>3, <1>1
  <2> QED
    BY <1>3, <1>5, <2>1 DEF TreeSeq, Last
<1>9. \A e : InTree(e) => InTree(e)'
  BY <1>4, <1>6 DEF InTree
<1> QED
  BY <1>1, <1>2, <1>3, <1>4, <1>5, <1>6, <1>7, <1>8, <1>9

\* A client that hears of the event that was written
LEMMA PersistentHeard ==
  ASSUME TypeOK, LogOK, ~regressed => CounterOK, writing > 0, NEW k \in Attachment,
         k.phase # "off", CacheOK(k), ClientOK(k),
         NEW e \in Event, e.id = Len(log) + 1, e.seq = writing,
         log' = Append(log, writing), lane' = lane, writing' = 0, seqs' = seqs,
         regressed' = regressed, buffer' # <<>>
  PROVE  CacheOK(Receive(k, e))' /\ ClientOK(Receive(k, e))'
<1> DEFINE r == Receive(k, e)
           new == Len(log) + 1
<1>1. /\ Len(log) \in Nat /\ new # 0 /\ writing \in Nat /\ writing # 0 /\ seqs \in Nat
      /\ TreeSeq \in Nat /\ TreeSeq < writing /\ lane'
      /\ DOMAIN log = 1..Len(log) /\ \A i \in DOMAIN log : log[i] <= TreeSeq /\ log[i] \in Nat
  BY LogFacts DEF TypeOK, LogOK
<1>2. /\ r \in Attachment /\ r.phase = k.phase /\ r.anchor = k.anchor /\ r.sound = k.sound
      /\ r.load = k.load /\ r.mode = k.mode /\ r.answer = k.answer
      /\ r.view = IF writing \in k.applied THEN k.view ELSE k.view \cup {new}
      /\ r.applied = k.applied \cup {writing} /\ r.cache = k.cache \cup {e}
      /\ r.during = IF k.phase = "resyncing" THEN k.during \cup {new} ELSE k.during
  <2>1. e.id = new /\ e.id # 0 /\ e.seq = writing
    BY <1>1
  <2> HIDE DEF new
  <2>2. /\ r \in Attachment /\ r.phase = k.phase /\ r.anchor = k.anchor /\ r.sound = k.sound
        /\ r.load = k.load /\ r.mode = k.mode /\ r.answer = k.answer
        /\ r.view = IF e.id = 0 \/ e.seq \in k.applied THEN k.view ELSE k.view \cup {e.id}
        /\ r.applied = k.applied \cup {e.seq}
        /\ r.cache = IF e.id = 0 THEN k.cache ELSE k.cache \cup {e}
        /\ r.during = IF k.phase = "resyncing" /\ e.id # 0 THEN k.during \cup {e.id} ELSE k.during
    BY ReceiveOne
  <2> HIDE DEF r
  <2> QED
    BY <2>1, <2>2, Zenon
<1>3. /\ Len(log') = Len(log) + 1
      /\ DOMAIN log' = DOMAIN log \cup {new} /\ new \notin DOMAIN log
      /\ \A i \in DOMAIN log : log'[i] = log[i] /\ log[i] < writing
      /\ log'[new] = writing /\ TreeSeq' = writing
      /\ \A x : InTree(x) => InTree(x)'
  BY Grown
<1> HIDE DEF r, new
<1>4. CacheOK(r)'
  <2>1. e.id # 0 /\ InTree(e)'
    BY <1>1, <1>3 DEF InTree, new
  <2> QED
    BY <1>2, <1>3, <2>1 DEF CacheOK
<1>5. Holds(k)
  BY DEF ClientOK
<1>6. Holds(r)'
  <2>1. k.load \in Int
    BY Fields
  <2> QED
    BY <1>1, <1>2, <1>3, <1>5, <2>1 DEF Holds
<1>7. SUFFICES ASSUME ~regressed PROVE Follows(r)' /\ Covers(r)'
  BY <1>2, <1>4, <1>6 DEF ClientOK, r
<1>8. Follows(k) /\ Covers(k) /\ writing <= seqs
  BY <1>7 DEF ClientOK, CounterOK
<1>9. writing \notin k.applied
  BY <1>8 DEF Follows
<1>10. k.applied \subseteq Nat \ {0}
  BY Fields
<1>11. Follows(r)'
  <2>1. \A seq \in r.applied : seq # 0 /\ (seq <= seqs \/ \E i \in DOMAIN log' : log'[i] = seq)
    BY <1>1, <1>2, <1>3, <1>8, <1>10 DEF Follows
  <2>2. \A i \in DOMAIN log' : log'[i] \in r.applied => i \in r.view
    BY <1>2, <1>3, <1>8, <1>9, <1>1 DEF Follows
  <2> QED
    BY <1>3, <1>8, <2>1, <2>2 DEF Follows
<1>12. AnswerOK(k) => AnswerOK(r)'
  <2>1. \A a \in DOMAIN k.answer : k.answer[a].seq # 0
    BY Fields DEF Event
  <2> QED
    BY <1>2, <1>3, <2>1 DEF AnswerOK, Unused
<1>13. k.during \subseteq DOMAIN log
  BY <1>5 DEF Holds
<1>14. Covers(r)'
  <2>1. r.view = k.view \cup {new}
    BY <1>2, <1>9
  <2>2. r.sound => \A i \in DOMAIN log' : log'[i] <= r.anchor => i \in r.view
    BY <1>2, <1>3, <1>8, <2>1 DEF Covers
  <2>3. ASSUME r.phase = "resyncing"
        PROVE  /\ AnswerOK(r)'
               /\ r.mode = "full_reload" => Answered(r) = DOMAIN log' \ r.during
               /\ r.mode # "full_reload" /\ r.sound =>
                    \A i \in DOMAIN log' : i \in r.view \cup Answered(r)
    <3>1. Answered(r) = Answered(k)
      BY <1>2 DEF Answered
    <3> QED
      BY <1>2, <1>3, <1>8, <1>12, <2>1, <2>3, <3>1 DEF Covers
  <2>4. ASSUME r.phase = "attached", r.sound
        PROVE  r.view = DOMAIN log' \ (IF r.mode = "full_reload" THEN r.during ELSE {})
    BY <1>2, <1>3, <1>8, <1>13, <2>1, <2>4 DEF Covers
  <2> QED
    BY <1>2, <1>8, <2>2, <2>3, <2>4 DEF Covers, Answered
<1> QED
  BY <1>11, <1>14

-----------------------------------------------------------------------------
\* The host's steps

LEMMA Recorded ==
  ASSUME TypeOK, NEW e \in Event, RecordAndBroadcast(e)
  PROVE  /\ buffer' \in Seq(Event) /\ buffer' # <<>>
         /\ DOMAIN buffer' = DOMAIN buffer \cup {Len(buffer) + 1}
         /\ Len(buffer) + 1 \notin DOMAIN buffer /\ buffer'[Len(buffer) + 1] = e
         /\ \A b \in DOMAIN buffer : buffer'[b] = buffer[b] /\ buffer[b] \in Event
         /\ client' \in [Client -> Attachment]
         /\ \A c \in Client : client'[c] = IF client[c].phase = "off" THEN client[c]
                                           ELSE Receive(client[c], e)
<1>1. buffer \in Seq(Event) /\ buffer' = Append(buffer, e)
  BY DEF TypeOK, RecordAndBroadcast
<1>2. \A c \in Client : client'[c] = IF client[c].phase = "off" THEN client[c]
                                     ELSE Receive(client[c], e)
  BY DEF TypeOK, RecordAndBroadcast
<1>3. \A c \in Client : client'[c] \in Attachment
  <2> SUFFICES ASSUME NEW c \in Client PROVE client'[c] \in Attachment
    OBVIOUS
  <2>1. client[c] \in Attachment
    BY DEF TypeOK
  <2>2. Receive(client[c], e) \in Attachment
    BY <2>1, ReceiveOne
  <2> QED
    BY <1>2, <2>1, <2>2
<1>4. client' \in [Client -> Attachment]
  BY <1>3 DEF RecordAndBroadcast
<1>5. buffer' \in Seq(Event) /\ buffer' # <<>> /\ DOMAIN buffer' = 1..(Len(buffer) + 1)
  BY <1>1
<1>6. DOMAIN buffer = 1..Len(buffer) /\ Len(buffer) \in Nat
  BY <1>1
<1>7. /\ buffer'[Len(buffer) + 1] = e
      /\ \A b \in DOMAIN buffer : buffer'[b] = buffer[b] /\ buffer[b] \in Event
  BY <1>1, <1>6
<1> QED
  BY <1>2, <1>4, <1>5, <1>6, <1>7

LEMMA BufferTyped ==
  ASSUME TypeOK
  PROVE  \A b \in DOMAIN buffer : buffer[b] \in Event /\ buffer[b].seq \in Nat \ {0}
<1>1. buffer \in Seq(Event)
  BY DEF TypeOK
<1>2. \A b \in DOMAIN buffer : buffer[b] \in Event
  BY <1>1
<1> QED
  BY <1>2 DEF Event

LEMMA BroadcastTransientStep ==
  ASSUME IInv, BroadcastTransient
  PROVE  IInv'
<1>1. PICK e \in Event : e.id = 0 /\ e.seq = seqs + 1 /\ RecordAndBroadcast(e)
  <2>1. [id |-> 0, seq |-> seqs + 1] \in Event
    BY DEF IInv, TypeOK, Event
  <2> QED
    BY <2>1 DEF BroadcastTransient, NextSeq
<1>2. /\ lane /\ seqs' = seqs + 1 /\ log' = log /\ lane' = lane /\ writing' = writing
      /\ restarts' = restarts /\ regressed' = regressed /\ refused' = refused
  BY DEF BroadcastTransient, NextSeq
<1>3. TypeOK'
  BY <1>1, <1>2, Recorded DEF IInv, TypeOK
<1>4. TreeSeq' = TreeSeq /\ \A x : InTree(x) => InTree(x)'
  BY <1>2 DEF TreeSeq, InTree
<1>5. LogOK'
  <2>1. \A b \in DOMAIN buffer' : buffer'[b].id # 0 => InTree(buffer[b])'
    BY <1>1, <1>2, Recorded DEF IInv, LogOK, InTree
  <2> QED
    BY <1>2, <1>4, <2>1 DEF IInv, LogOK, LogIncreases
<1>6. ASSUME ~regressed PROVE CounterOK'
  <2>1. CounterOK
    BY <1>6 DEF IInv
  <2>2. \A i \in DOMAIN log : log[i] \in Nat /\ log[i] <= TreeSeq
    BY LogFacts DEF IInv, TypeOK, LogOK
  <2>3. seqs \in Nat /\ writing \in Nat /\ TreeSeq \in Nat
    BY LogFacts DEF IInv, TypeOK, LogOK
  <2>4. \A i \in DOMAIN log : log[i] < seqs + 1
    BY <1>2, <2>1, <2>2, <2>3 DEF CounterOK
  <2>5. Unused(e.seq)'
    BY <1>1, <1>2, <2>1, <2>3, <2>4 DEF CounterOK, Unused
  <2>6. \A b \in DOMAIN buffer : buffer[b].seq \in Nat /\ buffer[b].seq <= seqs
    BY <2>1, <1>1, Recorded DEF IInv, CounterOK, Event
  <2>7. \A b \in DOMAIN buffer' :
          buffer'[b].seq <= seqs' /\ (buffer'[b].id = 0 => Unused(buffer[b].seq)')
    BY <1>1, <1>2, <2>1, <2>3, <2>5, <2>6, Recorded DEF IInv, CounterOK, Unused
  <2>8. \A a, b \in DOMAIN buffer' : buffer'[a].seq = buffer'[b].seq => a = b
    BY <1>1, <1>2, <2>1, <2>3, <2>6, Recorded DEF IInv, CounterOK
  <2>9. \A b \in DOMAIN buffer', i \in DOMAIN log' :
           buffer'[b].seq <= log'[i] => \E a \in DOMAIN buffer' : buffer'[a].id = i
    <3> SUFFICES ASSUME NEW b \in DOMAIN buffer', NEW i \in DOMAIN log, buffer'[b].seq <= log[i]
                 PROVE  \E a \in DOMAIN buffer' : buffer'[a].id = i
      BY <1>2
    <3>1. b \in DOMAIN buffer /\ buffer'[b] = buffer[b]
      BY <1>1, <1>2, <2>2, <2>3, <2>4, Recorded DEF IInv
    <3>2. PICK a \in DOMAIN buffer : buffer[a].id = i
      BY <2>1, <3>1 DEF CounterOK
    <3> QED
      BY <1>1, <1>2, <3>2, Recorded DEF IInv
  <2> QED
    BY <1>2, <1>4, <2>1, <2>3, <2>7, <2>8, <2>9 DEF CounterOK
<1>7. ClientsOK'
  <2> SUFFICES ASSUME NEW c \in Client, NEW k, k = client'[c] PROVE CacheOK(k)' /\ ClientOK(k)'
    BY DEF ClientsOK
  <2> DEFINE old == client[c]
  <2>1. old \in Attachment /\ CacheOK(old) /\ ClientOK(old)
    BY DEF IInv, TypeOK, ClientsOK
  <2>2. PICK was \in Attachment : was = old
    BY <2>1
  <2>3. CASE was.phase = "off"
    <3>1. k = was
      BY <1>1, <2>2, <2>3, Recorded DEF IInv
    <3> QED
      BY <1>4, <2>1, <2>2, <2>3, <3>1 DEF ClientOK, CacheOK
  <2>4. CASE was.phase # "off"
    <3>1. k = Receive(was, e) /\ buffer' # <<>>
      BY <1>1, <2>2, <2>4, Recorded DEF IInv
    <3>2. CacheOK(was) /\ ClientOK(was)
      BY <2>1, <2>2
    <3> QED
      BY <1>1, <1>2, <2>4, <3>1, <3>2, TransientHeard DEF IInv
  <2> QED
    BY <2>3, <2>4
<1> QED
  BY <1>2, <1>3, <1>5, <1>6, <1>7 DEF IInv

LEMMA FinishAppendStep ==
  ASSUME IInv, FinishAppend
  PROVE  IInv'
<1> DEFINE new == Len(log) + 1
<1>0. /\ writing > 0 /\ log' = Append(log, writing) /\ writing' = 0 /\ lane' = lane
      /\ seqs' = seqs /\ restarts' = restarts /\ regressed' = regressed /\ refused' = refused
  BY DEF FinishAppend
<1>1. PICK e \in Event : e.id = new /\ e.seq = writing /\ RecordAndBroadcast(e)
  <2>1. Len(log) \in Nat /\ Len(log) < MaxPersistent /\ writing \in Nat \ {0}
    BY <1>0, LogFacts DEF IInv, TypeOK, LogOK
  <2>2. [id |-> new, seq |-> writing] \in Event
    BY <2>1 DEF Event
  <2> QED
    BY <2>2 DEF FinishAppend
<1>2. /\ log' \in Seq(Nat \ {0}) /\ Len(log') = new /\ Len(log') <= MaxPersistent
      /\ DOMAIN log' = DOMAIN log \cup {new} /\ new \notin DOMAIN log
      /\ \A i \in DOMAIN log : log'[i] = log[i] /\ log[i] < writing
      /\ log'[new] = writing
      /\ LogIncreases' /\ TreeSeq' = writing
      /\ \A x : InTree(x) => InTree(x)'
  BY <1>0, Grown DEF IInv
<1>3. TypeOK'
  BY <1>0, <1>1, <1>2, Recorded DEF IInv, TypeOK
<1>4. /\ new # 0 /\ writing \in Nat /\ seqs \in Nat /\ lane
      /\ \A i \in DOMAIN log : log[i] \in Nat
  BY <1>0, LogFacts DEF IInv, TypeOK, LogOK
<1> HIDE DEF new
<1>5. LogOK'
  <2>1. \A b \in DOMAIN buffer' : buffer'[b].id # 0 => InTree(buffer[b])'
    BY <1>1, <1>2, Recorded DEF IInv, LogOK, InTree
  <2> QED
    BY <1>0, <1>2, <2>1 DEF LogOK
<1>6. ASSUME ~regressed PROVE CounterOK'
  <2>1. CounterOK /\ writing <= seqs
    BY <1>6 DEF IInv, CounterOK
  <2>2. \A b \in DOMAIN buffer : buffer[b].id # 0 => InTree(buffer[b])
    BY DEF IInv, LogOK
  <2>3. \A b \in DOMAIN buffer : buffer[b].seq \in Nat \ {0} /\ buffer[b].seq # writing
    BY <1>1, <1>2, <1>4, <2>1, <2>2, Recorded DEF IInv, CounterOK, Unused, InTree, Event
  <2>4. \A b \in DOMAIN buffer' :
          buffer'[b].seq <= seqs' /\ (buffer'[b].id = 0 => Unused(buffer[b].seq)')
    <3> SUFFICES ASSUME NEW b \in DOMAIN buffer'
                 PROVE  buffer'[b].seq <= seqs' /\ (buffer'[b].id = 0 => Unused(buffer[b].seq)')
      OBVIOUS
    <3>1. CASE b \in DOMAIN buffer
      <4>1. buffer'[b] = buffer[b]
        BY <1>1, <3>1, Recorded DEF IInv
      <4>2. buffer[b].seq <= seqs /\ (buffer[b].id = 0 => Unused(buffer[b].seq))
        BY <2>1, <3>1 DEF CounterOK
      <4> QED
        BY <1>0, <1>2, <2>3, <3>1, <4>1, <4>2 DEF Unused
    <3>2. CASE b \notin DOMAIN buffer
      <4>1. buffer'[b] = e
        BY <1>1, <3>2, Recorded DEF IInv
      <4> QED
        BY <1>0, <1>1, <1>4, <2>1, <4>1
    <3> QED
      BY <3>1, <3>2
  <2>5. \A a, b \in DOMAIN buffer' : buffer'[a].seq = buffer'[b].seq => a = b
    BY <1>1, <2>1, <2>3, Recorded DEF IInv, CounterOK
  <2>6. \A b \in DOMAIN buffer', i \in DOMAIN log' :
          buffer'[b].seq <= log'[i] => \E a \in DOMAIN buffer' : buffer'[a].id = i
    <3> SUFFICES ASSUME NEW b \in DOMAIN buffer', NEW i \in DOMAIN log', buffer'[b].seq <= log'[i]
                 PROVE  \E a \in DOMAIN buffer' : buffer'[a].id = i
      OBVIOUS
    <3>1. CASE i = new
      BY <1>1, <3>1, Recorded DEF IInv
    <3>2. CASE i \in DOMAIN log
      <4>1. log'[i] = log[i] /\ log[i] < writing
        BY <1>2, <3>2
      <4>2. b \in DOMAIN buffer /\ buffer'[b] = buffer[b]
        BY <1>1, <1>4, <3>2, <4>1, Recorded DEF IInv
      <4>3. PICK a \in DOMAIN buffer : buffer[a].id = i
        BY <2>1, <3>2, <4>1, <4>2 DEF CounterOK
      <4> QED
        BY <1>1, <4>3, Recorded DEF IInv
    <3> QED
      BY <1>2, <3>1, <3>2
  <2> QED
    BY <1>0, <1>2, <1>4, <2>1, <2>4, <2>5, <2>6, SMTT(30) DEF CounterOK
<1>7. ClientsOK'
  <2> SUFFICES ASSUME NEW c \in Client, NEW k, k = client'[c] PROVE CacheOK(k)' /\ ClientOK(k)'
    BY DEF ClientsOK
  <2> DEFINE old == client[c]
  <2>1. old \in Attachment /\ CacheOK(old) /\ ClientOK(old)
    BY DEF IInv, TypeOK, ClientsOK
  <2>2. PICK was \in Attachment : was = old
    BY <2>1
  <2>3. CASE was.phase = "off"
    <3>1. k = was
      BY <1>1, <2>2, <2>3, Recorded DEF IInv
    <3> QED
      BY <1>2, <2>1, <2>2, <2>3, <3>1 DEF ClientOK, CacheOK
  <2>4. CASE was.phase # "off"
    <3>1. k = Receive(was, e) /\ buffer' # <<>>
      BY <1>1, <2>2, <2>4, Recorded DEF IInv
    <3>2. CacheOK(was) /\ ClientOK(was)
      BY <2>1, <2>2
    <3> QED
      BY <1>0, <1>1, <2>4, <3>1, <3>2, PersistentHeard DEF IInv, new
  <2> QED
    BY <2>3, <2>4
<1> QED
  BY <1>0, <1>3, <1>5, <1>6, <1>7 DEF IInv

\* The clients stay as they are.
LEMMA ClientsKept ==
  ASSUME IInv, log' = log, lane => lane', buffer' = <<>> => buffer = <<>>,
         regressed' \in BOOLEAN, regressed => regressed', seqs' \in Nat, writing' \in Nat,
         ~regressed' => /\ seqs <= seqs'
                        /\ writing' = writing \/ (seqs < writing' /\ TreeSeq < writing'),
         NEW c \in Client, client'[c] = client[c]
  PROVE  CacheOK(client[c])' /\ ClientOK(client[c])'
<1>1. PICK k \in Attachment : k = client[c]
  BY DEF IInv, TypeOK
<1>2. CacheOK(k) /\ ClientOK(k)
  BY <1>1 DEF IInv, ClientsOK
<1>3. CacheOK(k)' /\ ClientOK(k)'
  BY <1>2, ClientKept DEF IInv
<1>4. k = client'[c]
  BY <1>1
<1> QED
  BY <1>3, <1>4

LEMMA AppendPersistentStep ==
  ASSUME IInv, AppendPersistent
  PROVE  IInv'
<1>1. /\ lane /\ writing = 0 /\ Len(log) < MaxPersistent /\ seqs' = seqs + 1
      /\ log' = log /\ lane' = lane /\ buffer' = buffer /\ client' = client
      /\ restarts' = restarts /\ regressed' = regressed
      /\ \/ TreeSeq < seqs + 1 /\ writing' = seqs + 1 /\ refused' = refused
         \/ ~(TreeSeq < seqs + 1) /\ writing' = writing /\ refused' = TRUE
  BY DEF AppendPersistent, NextSeq
<1>2. /\ seqs \in Nat /\ TreeSeq \in Nat /\ TreeSeq' = TreeSeq
      /\ \A i \in DOMAIN log : log[i] \in Nat \ {0} /\ log[i] <= TreeSeq
  BY <1>1, LogFacts DEF IInv, TypeOK, LogOK, TreeSeq
<1>3. TypeOK'
  <2>1. seqs' \in Nat /\ writing' \in Nat
    BY <1>1, <1>2 DEF IInv, TypeOK
  <2>2. refused \in BOOLEAN
    BY DEF IInv, TypeOK
  <2>3. refused' \in BOOLEAN
    BY <1>1, <2>2, Zenon
  <2> QED
    BY <1>1, <2>1, <2>3 DEF IInv, TypeOK
<1>4. LogOK'
  BY <1>1, <1>2 DEF IInv, LogOK, LogIncreases, InTree
<1>5. ASSUME ~regressed PROVE CounterOK'
  <2>1. CounterOK
    BY <1>5 DEF IInv
  <2>2. \A b \in DOMAIN buffer : buffer[b].seq \in Nat
    BY BufferTyped DEF IInv
  <2>3. \A b \in DOMAIN buffer :
          buffer[b].seq <= seqs' /\ (buffer[b].id = 0 => Unused(buffer[b].seq)')
    BY <1>1, <1>2, <2>1, <2>2 DEF CounterOK, Unused
  <2> QED
    BY <1>1, <1>2, <2>1, <2>3 DEF CounterOK
<1>6. ClientsOK'
  <2>1. seqs' \in Nat /\ writing' \in Nat /\ regressed \in BOOLEAN /\ seqs <= seqs'
    BY <1>1, <1>2 DEF IInv, TypeOK
  <2>2. writing' = writing \/ (seqs < writing' /\ TreeSeq < writing')
    BY <1>1, <1>2
  <2> QED
    BY <1>1, <2>1, <2>2, ClientsKept DEF ClientsOK
<1> QED
  BY <1>1, <1>3, <1>4, <1>5, <1>6 DEF IInv

LEMMA GetLaneStep ==
  ASSUME IInv, GetLane
  PROVE  IInv'
<1>1. /\ ~lane /\ lane' = TRUE /\ seqs' = TreeSeq /\ regressed' = (regressed \/ seqs' < seqs)
      /\ log' = log /\ buffer' = buffer /\ writing' = writing /\ client' = client
      /\ restarts' = restarts /\ refused' = refused
  BY DEF GetLane
<1>2. /\ seqs \in Nat /\ TreeSeq \in Nat /\ TreeSeq' = TreeSeq /\ writing = 0
      /\ regressed \in BOOLEAN /\ regressed' \in BOOLEAN
  BY <1>1, LogFacts DEF IInv, TypeOK, LogOK, TreeSeq
<1>3. TypeOK'
  BY <1>1, <1>2 DEF IInv, TypeOK
<1>4. LogOK'
  BY <1>1, <1>2 DEF IInv, LogOK, LogIncreases, InTree
<1>5. ASSUME ~regressed' PROVE CounterOK' /\ seqs <= seqs'
  <2>0. ~regressed /\ ~(seqs' < seqs)
    BY <1>1, <1>5, Zenon
  <2>1. CounterOK /\ seqs <= seqs'
    BY <1>1, <1>2, <2>0 DEF IInv
  <2>2. \A b \in DOMAIN buffer : buffer[b].seq \in Nat
    BY BufferTyped DEF IInv
  <2>3. \A b \in DOMAIN buffer :
          buffer[b].seq <= seqs' /\ (buffer[b].id = 0 => Unused(buffer[b].seq)')
    BY <1>1, <1>2, <2>1, <2>2 DEF CounterOK, Unused
  <2> QED
    BY <1>1, <1>2, <2>1, <2>3 DEF CounterOK
<1>6. ClientsOK'
  <2>1. seqs' \in Nat /\ writing' \in Nat
    BY <1>1, <1>2
  <2> QED
    BY <1>1, <1>2, <1>5, <2>1, ClientsKept DEF ClientsOK
<1> QED
  BY <1>1, <1>3, <1>4, <1>5, <1>6 DEF IInv

LEMMA OffFacts ==
  ASSUME NEW cache \in SUBSET Event
  PROVE  /\ Off(cache) \in Attachment
         /\ Off(cache).phase = "off" /\ Off(cache).cache = cache
         /\ Off(cache).answer = <<>> /\ DOMAIN Off(cache).answer = {}
         /\ Off(cache).during = {} /\ Off(cache).mode = "stream_resume"
<1>1. <<>> \in [{} -> Event]
  OBVIOUS
<1>2. <<>> \in Answer
  BY <1>1 DEF Answer
<1> QED
  BY <1>2 DEF Off, Attachment, Mode

LEMMA RestartStep ==
  ASSUME IInv, Restart
  PROVE  IInv'
<1>1. /\ restarts < MaxRestarts /\ restarts' = restarts + 1
      /\ \/ log' = log
         \/ writing > 0 /\ log' = Append(log, writing)
      /\ lane' = FALSE /\ seqs' = 0 /\ buffer' = <<>> /\ writing' = 0
      /\ client' = [c \in Client |-> Off(client[c].cache)]
      /\ regressed' = regressed /\ refused' = refused
  BY DEF Restart
<1>2. /\ log' \in Seq(Nat \ {0}) /\ Len(log') <= MaxPersistent /\ LogIncreases'
      /\ \A x : InTree(x) => InTree(x)'
  <2>1. CASE log' = log
    BY <2>1 DEF IInv, TypeOK, LogOK, LogIncreases, InTree
  <2>2. CASE writing > 0 /\ log' = Append(log, writing)
    BY <2>2, Grown DEF IInv
  <2> QED
    BY <1>1, <2>1, <2>2
<1>3. \A c \in Client : client[c] \in Attachment /\ client[c].cache \in SUBSET Event
  BY Fields DEF IInv, TypeOK
<1>4. \A c \in Client : /\ client'[c] \in Attachment /\ client'[c].phase = "off"
                        /\ client'[c].cache = client[c].cache
                        /\ DOMAIN client'[c].answer = {}
  BY <1>1, <1>3, OffFacts
<1>5. TypeOK'
  <2>1. client' \in [Client -> Attachment]
    BY <1>1, <1>4
  <2>2. restarts' \in 0..MaxRestarts /\ regressed' \in BOOLEAN /\ refused' \in BOOLEAN
    BY <1>1 DEF IInv, TypeOK
  <2>3. /\ seqs' \in Nat /\ buffer' \in Seq(Event) /\ writing' \in Nat
        /\ writing' > 0 => lane'
    BY <1>1
  <2>5. lane' \in BOOLEAN
    BY <1>1, Zenon
  <2>4. log' \in Seq(Nat \ {0}) /\ Len(log') <= MaxPersistent
    BY <1>2, Zenon
  <2> QED
    BY <2>1, <2>2, <2>3, <2>4, <2>5, Zenon DEF TypeOK
<1>6. LogOK'
  BY <1>1, <1>2 DEF LogOK
<1>7. CounterOK'
  BY <1>1 DEF CounterOK
<1>8. ClientsOK'
  BY <1>2, <1>4 DEF IInv, ClientsOK, CacheOK, ClientOK
<1> QED
  BY <1>5, <1>6, <1>7, <1>8 DEF IInv

-----------------------------------------------------------------------------
\* A client's steps

\* The other clients, and the host, stay as they are.
LEMMA OneClient ==
  ASSUME IInv, NEW c \in Client, NEW k \in Attachment, client' = [client EXCEPT ![c] = k],
         UNCHANGED <<hostVars, restarts, regressed, refused>>,
         CacheOK(k), ClientOK(k)
  PROVE  IInv'
<1>1. /\ log' = log /\ lane' = lane /\ seqs' = seqs /\ buffer' = buffer /\ writing' = writing
      /\ restarts' = restarts /\ regressed' = regressed /\ refused' = refused
  BY DEF hostVars
<1>2. TypeOK'
  BY <1>1 DEF IInv, TypeOK
<1>3. LogOK' /\ (~regressed' => CounterOK')
  BY <1>1 DEF IInv, LogOK, LogIncreases, TreeSeq, InTree, CounterOK, Unused
<1>4. \A x \in Attachment : CacheOK(x) /\ ClientOK(x) => CacheOK(x)' /\ ClientOK(x)'
  BY <1>1 DEF CacheOK, ClientOK, Holds, Follows, Covers, AnswerOK, Answered, InTree, Unused, TreeSeq
<1>5. ClientsOK'
  <2> SUFFICES ASSUME NEW d \in Client, NEW x, x = client'[d] PROVE CacheOK(x)' /\ ClientOK(x)'
    BY DEF ClientsOK
  <2>1. x = IF d = c THEN k ELSE client[d]
    BY DEF IInv, TypeOK
  <2>2. x \in Attachment /\ CacheOK(x) /\ ClientOK(x)
    BY <2>1 DEF IInv, TypeOK, ClientsOK
  <2> QED
    BY <1>4, <2>2
<1> QED
  BY <1>2, <1>3, <1>5 DEF IInv

LEMMA DisconnectStep ==
  ASSUME IInv, NEW c \in Client, Disconnect(c)
  PROVE  IInv'
<1>1. /\ client' = [client EXCEPT ![c] = Off(client[c].cache)]
      /\ UNCHANGED <<hostVars, restarts, regressed, refused>>
  BY DEF Disconnect
<1>2. client[c] \in Attachment /\ CacheOK(client[c]) /\ client[c].cache \in SUBSET Event
  BY Fields DEF IInv, TypeOK, ClientsOK
<1>3. PICK k \in Attachment : k = Off(client[c].cache)
  BY <1>2, OffFacts
<1>4. CacheOK(k) /\ ClientOK(k)
  BY <1>2, <1>3, OffFacts DEF CacheOK, ClientOK
<1>5. client' = [client EXCEPT ![c] = k]
  BY <1>1, <1>3
<1> QED
  BY <1>1, <1>4, <1>5, OneClient

LEMMA AttachStep ==
  ASSUME IInv, NEW c \in Client, Attach(c)
  PROVE  IInv'
<1> DEFINE cache == client[c].cache
           anchor == HighestSeq(cache)
           sound == {e \in ToSet(Tree) : e.seq <= anchor} \subseteq cache
           load == IF lane THEN Live ELSE Len(log)
           view == {e.id : e \in cache}
           new == [Off(cache) EXCEPT !.phase = "loading", !.view = view, !.applied = Seqs(cache),
                     !.anchor = anchor, !.sound = sound, !.load = load]
<1>1. client' = [client EXCEPT ![c] = new] /\ UNCHANGED <<hostVars, restarts, regressed, refused>>
  BY DEF Attach
<1>2. cache \in SUBSET Event /\ \A e \in cache : e.id # 0 /\ InTree(e)
  BY Fields DEF IInv, TypeOK, ClientsOK, CacheOK
<1>3. /\ DOMAIN log = 1..Len(log) /\ Len(log) \in Nat /\ TreeSeq \in Nat
      /\ \A i \in DOMAIN log : log[i] \in Nat \ {0} /\ log[i] <= TreeSeq
      /\ \A i, j \in DOMAIN log : log[i] = log[j] => i = j
      /\ DOMAIN log \subseteq 1..MaxPersistent /\ Len(log) <= MaxPersistent
  BY LogFacts DEF IInv, TypeOK, LogOK
<1>4. anchor \in Nat
  BY <1>2, <1>3, AnchorType DEF InTree
<1>5. Seqs(cache) \subseteq Nat \ {0} /\ view \subseteq DOMAIN log
  BY <1>2 DEF Seqs, Event, InTree
<1>6. sound \in BOOLEAN /\ load \in -1..MaxPersistent
  BY <1>3 DEF Live
<1>7. \A i \in DOMAIN log : [id |-> i, seq |-> log[i]] \in ToSet(Tree)
  BY TreeFacts DEF IInv, TypeOK, ToSet
<1>8. sound => \A i \in DOMAIN log : log[i] <= anchor => i \in view
  <2> SUFFICES ASSUME sound, NEW i \in DOMAIN log, log[i] <= anchor PROVE i \in view
    OBVIOUS
  <2> DEFINE e == [id |-> i, seq |-> log[i]]
  <2>1. e \in ToSet(Tree) /\ e.seq <= anchor /\ e.id = i
    BY <1>7
  <2> QED
    BY <2>1
<1>9. \A i \in DOMAIN log : log[i] \in Seqs(cache) => i \in view
  BY <1>2, <1>3 DEF Seqs, InTree
<1>10. \A seq \in Seqs(cache) : seq # writing /\ \E i \in DOMAIN log : log[i] = seq
  BY <1>2, <1>3 DEF Seqs, InTree, IInv, LogOK, TypeOK
<1>11. PICK k : k = new
  OBVIOUS
<1>12. /\ k \in Attachment /\ k.phase = "loading" /\ k.cache = cache /\ k.view = view
       /\ k.applied = Seqs(cache) /\ k.anchor = anchor /\ k.sound = sound /\ k.load = load
       /\ k.answer = <<>> /\ k.during = {} /\ k.mode = "stream_resume"
  <2>1. Off(cache) \in Attachment /\ Off(cache).cache = cache /\ Off(cache).answer = <<>>
        /\ Off(cache).during = {} /\ Off(cache).mode = "stream_resume"
    BY <1>2, OffFacts
  <2>2. view \in SUBSET (1..MaxPersistent) /\ Seqs(cache) \in SUBSET (Nat \ {0})
    BY <1>3, <1>5
  <2> HIDE DEF cache, anchor, sound, load, view
  <2> QED
    BY <1>4, <1>6, <1>11, <2>1, <2>2 DEF Attachment
<1> HIDE DEF new
<1>13. CacheOK(k)
  BY <1>2, <1>12 DEF CacheOK
<1>14. Holds(k)
  <2>1. load <= Len(log) /\ (load = Live => lane) /\ (load # Live => load = Len(log))
    BY <1>3 DEF Live
  <2> HIDE DEF load, view
  <2> QED
    BY <1>5, <1>12, <2>1 DEF Holds
<1>15. Follows(k)
  <2> HIDE DEF cache, view
  <2> QED
    BY <1>9, <1>10, <1>12 DEF Follows
<1>16. Covers(k)
  <2> HIDE DEF sound, view, anchor
  <2> QED
    BY <1>8, <1>12 DEF Covers
<1>17. ClientOK(k)
  BY <1>12, <1>14, <1>15, <1>16 DEF ClientOK
<1> QED
  BY <1>1, <1>11, <1>12, <1>13, <1>17, OneClient

LEMMA HandleLoadSessionStep ==
  ASSUME IInv, NEW c \in Client, HandleLoadSession(c)
  PROVE  IInv'
<1>1. PICK was \in Attachment : was = client[c]
  BY DEF IInv, TypeOK
<1> DEFINE loaded == IF was.load = Live THEN Tree ELSE SubSeq(Tree, 1, was.load)
           n == IF was.load = Live THEN Len(log) ELSE was.load
           new == [was EXCEPT !.phase = "loaded"]
<1>2. /\ was.phase = "loading"
      /\ buffer' = (IF buffer = <<>> THEN loaded ELSE buffer)
      /\ seqs' = (IF loaded = <<>> THEN 0 ELSE Last(loaded).seq)
      /\ regressed' = (regressed \/ seqs' < seqs)
      /\ client' = [client EXCEPT ![c] = new]
      /\ log' = log /\ lane' = lane /\ writing' = writing
      /\ restarts' = restarts /\ refused' = refused
  BY <1>1 DEF HandleLoadSession
<1>3. /\ DOMAIN log = 1..Len(log) /\ Len(log) \in Nat /\ TreeSeq \in Nat /\ TreeSeq' = TreeSeq
      /\ \A i \in DOMAIN log : log[i] \in Nat \ {0} /\ log[i] <= TreeSeq
      /\ \A i, j \in DOMAIN log : log[i] = log[j] => i = j
      /\ log # <<>> => Len(log) \in DOMAIN log /\ TreeSeq = log[Len(log)]
      /\ log = <<>> => TreeSeq = 0
  BY <1>2, LogFacts DEF IInv, TypeOK, LogOK, TreeSeq
<1>4. CacheOK(was) /\ ClientOK(was) /\ Holds(was)
  BY <1>1, <1>2 DEF IInv, ClientsOK, ClientOK
<1>5. n \in 0..Len(log) /\ (lane \/ n = Len(log)) /\ (buffer = <<>> => n = Len(log))
  BY <1>2, <1>3, <1>4, Fields DEF Holds, Live
<1>6. /\ loaded \in Seq(Event) /\ DOMAIN loaded = 1..n /\ Len(loaded) = n
      /\ \A i \in 1..n : loaded[i] = [id |-> i, seq |-> log[i]]
  <2>1. /\ Tree \in Seq(Event) /\ Len(Tree) = Len(log)
        /\ \A i \in 1..Len(log) : Tree[i] = [id |-> i, seq |-> log[i]]
    BY <1>3, TreeFacts DEF IInv, TypeOK
  <2>2. CASE was.load = Live
    BY <1>3, <2>1, <2>2
  <2>3. CASE was.load # Live
    BY <1>3, <1>5, <2>1, <2>3
  <2> QED
    BY <2>2, <2>3
<1> HIDE DEF loaded, n
<1>7. seqs' = IF n = 0 THEN 0 ELSE log[n]
  <2>1. CASE n = 0
    BY <1>2, <1>6, <2>1
  <2>2. CASE n # 0
    BY <1>2, <1>5, <1>6, <2>2 DEF Last
  <2> QED
    BY <2>1, <2>2
<1>8. /\ seqs' \in Nat /\ seqs' <= TreeSeq /\ (n = Len(log) => seqs' = TreeSeq)
      /\ seqs \in Nat /\ writing \in Nat
  <2>1. CASE n = 0
    BY <1>3, <1>7, <2>1 DEF IInv, TypeOK
  <2>2. CASE n # 0
    <3>0. n \in 1..Len(log)
      <4>1. n \in 0..Len(log) /\ Len(log) \in Nat
        BY <1>3, <1>5, Zenon
      <4> QED
        BY <2>2, <4>1
    <3>1. n \in DOMAIN log
      BY <1>3, <3>0, Zenon
    <3>2. log # <<>> /\ seqs' = log[n]
      BY <1>3, <1>7, <2>2, <3>1
    <3> QED
      BY <1>3, <3>1, <3>2 DEF IInv, TypeOK
  <2> QED
    BY <2>1, <2>2
<1>9. regressed' \in BOOLEAN /\ (regressed => regressed') /\ (~regressed' => ~regressed /\ ~(seqs' < seqs))
  BY <1>2, Zenon DEF IInv, TypeOK
<1>10. ~regressed' => seqs <= seqs' /\ CounterOK
  BY <1>8, <1>9 DEF IInv
<1>11. new \in Attachment /\ new.phase = "loaded"
  BY DEF Attachment
<1>12. TypeOK'
  <2>1. buffer' \in Seq(Event)
    BY <1>2, <1>6 DEF IInv, TypeOK
  <2>2. client' \in [Client -> Attachment]
    BY <1>2, <1>11 DEF IInv, TypeOK
  <2> QED
    BY <1>2, <1>8, <1>9, <2>1, <2>2 DEF IInv, TypeOK
<1>13. LogOK'
  <2>1. \A b \in DOMAIN buffer' : buffer'[b].id # 0 => InTree(buffer[b])'
    <3>1. CASE buffer = <<>>
      BY <1>2, <1>3, <1>5, <1>6, <3>1 DEF InTree
    <3>2. CASE buffer # <<>>
      BY <1>2, <3>2 DEF IInv, LogOK, InTree
    <3> QED
      BY <3>1, <3>2
  <2> QED
    BY <1>2, <1>3, <2>1 DEF IInv, LogOK, LogIncreases
<1>14. ASSUME ~regressed' PROVE CounterOK'
  <2>1. CounterOK /\ seqs <= seqs'
    BY <1>10, <1>14
  <2>2. /\ lane' => TreeSeq' <= seqs'
        /\ writing' <= seqs'
        /\ ~lane' => seqs' \in {0, TreeSeq'}
    BY <1>2, <1>3, <1>5, <1>8, <2>1 DEF CounterOK
  <2>3. CASE buffer = <<>>
    <3>1. \A b \in DOMAIN buffer' :
            b \in DOMAIN log /\ buffer'[b] = [id |-> b, seq |-> log[b]] /\ b # 0
      BY <1>2, <1>3, <1>5, <1>6, <2>3
    <3>2. DOMAIN buffer' = DOMAIN log /\ seqs' = TreeSeq
      BY <1>2, <1>3, <1>5, <1>6, <1>8, <2>3
    <3>3. /\ \A b \in DOMAIN buffer' :
               buffer'[b].seq <= seqs' /\ (buffer'[b].id = 0 => Unused(buffer[b].seq)')
          /\ \A a, b \in DOMAIN buffer' : buffer'[a].seq = buffer'[b].seq => a = b
      BY <1>3, <3>1, <3>2
    <3>4. \A i \in DOMAIN log' : i \in DOMAIN buffer' /\ buffer'[i].id = i
      <4>1. log' = log
        BY <1>2
      <4> QED
        BY <3>1, <3>2, <4>1
    <3> QED
      BY <2>2, <3>3, <3>4 DEF CounterOK
  <2>4. CASE buffer # <<>>
    <3>1. \A b \in DOMAIN buffer : buffer[b].seq \in Nat
      BY BufferTyped DEF IInv
    <3>2. buffer' = buffer
      BY <1>2, <2>4
    <3>3. \A b \in DOMAIN buffer :
            buffer[b].seq <= seqs' /\ (buffer[b].id = 0 => Unused(buffer[b].seq)')
      BY <1>2, <1>8, <2>1, <3>1 DEF CounterOK, Unused
    <3> QED
      BY <1>2, <2>1, <2>2, <3>2, <3>3 DEF CounterOK
  <2> QED
    BY <2>3, <2>4
<1>15. CacheOK(new)' /\ ClientOK(new)'
  <2>1. buffer' = <<>> => buffer = <<>>
    BY <1>2
  <2>2. CacheOK(was)' /\ ClientOK(was)'
    BY <1>2, <1>4, <1>8, <1>9, <1>10, <2>1, ClientKept DEF IInv
  <2>3. /\ new.cache = was.cache /\ new.view = was.view /\ new.applied = was.applied
        /\ new.anchor = was.anchor /\ new.sound = was.sound /\ new.load = was.load
        /\ new.mode = was.mode /\ new.answer = was.answer /\ new.during = was.during
    BY DEF Attachment
  <2>4. ~regressed' => TreeSeq' <= seqs'
    <3>1. CASE lane
      BY <1>3, <1>8, <1>10, <3>1, SMTT(30) DEF CounterOK
    <3>2. CASE ~lane
      BY <1>3, <1>5, <1>8, <3>2
    <3> QED
      BY <3>1, <3>2
  <2> HIDE DEF new
  <2>5. CacheOK(new)' /\ Holds(new)'
    BY <1>2, <1>11, <2>2, <2>3 DEF CacheOK, ClientOK, Holds
  <2>6. ~regressed' => Follows(new)' /\ Covers(new)'
    BY <1>2, <1>11, <2>2, <2>3, <2>4 DEF ClientOK, Follows, Covers
  <2> QED
    BY <1>11, <2>5, <2>6 DEF ClientOK
<1>16. ClientsOK'
  <2> SUFFICES ASSUME NEW d \in Client, NEW x, x = client'[d] PROVE CacheOK(x)' /\ ClientOK(x)'
    BY DEF ClientsOK
  <2>1. CASE d = c
    <3>1. x = new
      BY <1>2, <2>1 DEF IInv, TypeOK
    <3> HIDE DEF new
    <3> QED
      BY <1>15, <3>1
  <2>2. CASE d # c
    <3>1. client'[d] = client[d] /\ (buffer' = <<>> => buffer = <<>>)
      BY <1>2, <2>2 DEF IInv, TypeOK
    <3> QED
      BY <1>2, <1>8, <1>9, <1>10, <3>1, ClientsKept
  <2> QED
    BY <2>1, <2>2
<1> QED
  BY <1>12, <1>13, <1>14, <1>16 DEF IInv

LEMMA AfterFacts ==
  ASSUME NEW events \in Seq(Event), NEW seq \in Nat
  PROVE  LET after == EventsAfter(events, seq) IN
         /\ after \in Answer
         /\ DOMAIN after = {i \in DOMAIN events : events[i].seq > seq}
         /\ \A i \in DOMAIN after : after[i] = events[i]
<1> DEFINE places == {i \in DOMAIN events : events[i].seq > seq}
           after == EventsAfter(events, seq)
<1>1. DOMAIN events \subseteq Nat \ {0} /\ \A i \in DOMAIN events : events[i] \in Event
  OBVIOUS
<1>2. after = [i \in places |-> events[i]]
  BY DEF EventsAfter, Restrict
<1>3. places \in SUBSET (Nat \ {0}) /\ after \in [places -> Event]
  BY <1>1, <1>2
<1>4. after \in Answer
  BY <1>3 DEF Answer
<1> QED
  BY <1>2, <1>4

\* A covering answer begins right after the anchor.
LEMMA CoverageBegins ==
  ASSUME NEW events \in Answer, NEW seq \in Nat, HasContinuousCoverage(events, seq)
  PROVE  \E a \in DOMAIN events : events[a].seq = seq
<1>1. DOMAIN events \subseteq Nat /\ DOMAIN events # {}
  <2>1. PICK places \in SUBSET (Nat \ {0}) : events \in [places -> Event]
    BY DEF Answer
  <2> QED
    BY <2>1 DEF HasContinuousCoverage
<1>2. PICK a \in DOMAIN events : \A h \in DOMAIN events : a <= h
  BY <1>1, LeastNatural
<1>3. {h \in DOMAIN events : h < a} = {}
  BY <1>1, <1>2
<1>4. Cardinality({h \in DOMAIN events : h < a}) = 0
  BY <1>3, FS_EmptySet
<1>5. events[a].seq = seq + Cardinality({h \in DOMAIN events : h < a})
  BY DEF HasContinuousCoverage
<1> QED
  BY <1>4, <1>5

\* resync_events answers a client that has loaded.
LEMMA AnsweredClient ==
  ASSUME TypeOK, LogOK, NEW was \in Attachment, was.phase = "loaded",
         CacheOK(was)', ClientOK(was)', log' = log,
         NEW mode \in Mode, NEW events \in Answer,
         \A a \in DOMAIN events : events[a].id # 0 => InTree(events[a]),
         mode = "full_reload" =>
           /\ was.anchor = 0 /\ \A a \in DOMAIN events : events[a].id # 0
           /\ {events[a].id : a \in DOMAIN events} = DOMAIN log,
         ~regressed' =>
           /\ \A a \in DOMAIN events :
                events[a].id = 0 => Unused(events[a].seq)' /\ events[a].seq <= seqs'
           /\ \A a, b \in DOMAIN events : events[a].seq = events[b].seq => a = b
           /\ mode # "full_reload" /\ was.sound =>
                \A i \in DOMAIN log : i \in was.view \/ \E a \in DOMAIN events : events[a].id = i,
         NEW k, k = [was EXCEPT !.phase = "resyncing", !.mode = mode, !.answer = events]
  PROVE  k \in Attachment /\ CacheOK(k)' /\ ClientOK(k)'
<1>1. /\ k \in Attachment /\ k.phase = "resyncing" /\ k.mode = mode /\ k.answer = events
      /\ k.cache = was.cache /\ k.view = was.view /\ k.applied = was.applied
      /\ k.anchor = was.anchor /\ k.sound = was.sound /\ k.load = was.load
      /\ k.during = was.during
  BY DEF Attachment
<1>2. CacheOK(k)'
  BY <1>1 DEF CacheOK
<1>3. Holds(was)'
  BY DEF ClientOK
<1>4. \A a \in DOMAIN events : events[a].id # 0 => InTree(events[a])'
  BY DEF InTree
<1>5. Holds(k)'
  BY <1>1, <1>3, <1>4 DEF Holds
<1>6. ASSUME ~regressed' PROVE Follows(k)' /\ Covers(k)'
  <2>1. Follows(was)' /\ Covers(was)'
    BY <1>6 DEF ClientOK
  <2>2. Follows(k)'
    BY <1>1, <2>1 DEF Follows
  <2>3. AnswerOK(k)'
    BY <1>1, <1>6 DEF AnswerOK
  <2>4. k.during = {}
    BY <1>1, <1>3 DEF Holds
  <2>5. Answered(k)' = {events[a].id : a \in DOMAIN events}
    BY <1>1 DEF Answered
  <2>6. Covers(k)'
    BY <1>1, <1>6, <2>1, <2>3, <2>4, <2>5 DEF Covers
  <2> QED
    BY <2>2, <2>6
<1> QED
  BY <1>1, <1>2, <1>5, <1>6 DEF ClientOK

\* resync_events, with the answer it has chosen
LEMMA ResyncAnswer ==
  ASSUME IInv, NEW c \in Client, NEW was \in Attachment, was = client[c], was.phase = "loaded",
         log' = log, buffer' = buffer, writing' = writing, restarts' = restarts,
         refused' = refused, regressed' = (regressed \/ seqs' < seqs),
         \/ lane' = lane /\ seqs' = seqs
         \/ ~lane /\ lane' = TRUE /\ seqs' = TreeSeq,
         NEW mode \in Mode, NEW events \in Answer,
         client' = [client EXCEPT ![c] =
                      [was EXCEPT !.phase = "resyncing", !.mode = mode, !.answer = events]],
         \A a \in DOMAIN events : events[a].id # 0 => InTree(events[a]),
         mode = "full_reload" =>
           /\ was.anchor = 0 /\ \A a \in DOMAIN events : events[a].id # 0
           /\ {events[a].id : a \in DOMAIN events} = DOMAIN log,
         ~regressed =>
           /\ \A a \in DOMAIN events :
                events[a].id = 0 => Unused(events[a].seq) /\ events[a].seq <= seqs
           /\ \A a, b \in DOMAIN events : events[a].seq = events[b].seq => a = b
           /\ mode # "full_reload" /\ was.sound =>
                \A i \in DOMAIN log : i \in was.view \/ \E a \in DOMAIN events : events[a].id = i
  PROVE  IInv'
<1> DEFINE new == [was EXCEPT !.phase = "resyncing", !.mode = mode, !.answer = events]
<1>1. /\ TreeSeq \in Nat /\ TreeSeq' = TreeSeq /\ seqs \in Nat /\ writing \in Nat
      /\ \A i \in DOMAIN log : log[i] \in Nat \ {0} /\ log[i] <= TreeSeq
  BY LogFacts DEF IInv, TypeOK, LogOK, TreeSeq
<1>2. seqs' \in Nat /\ (lane => lane') /\ lane' \in BOOLEAN /\ (writing' > 0 => lane')
  <2>1. lane \in BOOLEAN /\ (writing > 0 => lane)
    BY DEF IInv, TypeOK
  <2>2. lane' \in BOOLEAN /\ (lane => lane')
    BY <2>1, Zenon
  <2> QED
    BY <1>1, <2>1, <2>2
<1>3. regressed' \in BOOLEAN /\ (regressed => regressed') /\ (~regressed' => ~regressed /\ ~(seqs' < seqs))
  BY Zenon DEF IInv, TypeOK
<1>4. ~regressed' => seqs <= seqs' /\ CounterOK /\ ~regressed
  BY <1>1, <1>2, <1>3 DEF IInv
<1>5. /\ CacheOK(was) /\ ClientOK(was)
      /\ buffer' = <<>> => buffer = <<>>
  BY DEF IInv, ClientsOK
<1>6. CacheOK(was)' /\ ClientOK(was)'
  BY <1>1, <1>2, <1>3, <1>4, <1>5, ClientKept DEF IInv
<1>7. PICK k : k = new
  OBVIOUS
<1>8. ~regressed' =>
        /\ \A a \in DOMAIN events :
             events[a].id = 0 => Unused(events[a].seq)' /\ events[a].seq <= seqs'
        /\ \A a, b \in DOMAIN events : events[a].seq = events[b].seq => a = b
        /\ mode # "full_reload" /\ was.sound =>
             \A i \in DOMAIN log : i \in was.view \/ \E a \in DOMAIN events : events[a].id = i
  <2>1. \A a \in DOMAIN events : events[a].seq \in Nat
    <3>1. PICK places \in SUBSET (Nat \ {0}) : events \in [places -> Event]
      BY DEF Answer
    <3> QED
      BY <3>1 DEF Event
  <2> QED
    BY <1>1, <1>2, <1>4, <2>1 DEF Unused
<1>9. k \in Attachment /\ CacheOK(k)' /\ ClientOK(k)'
  BY <1>6, <1>7, <1>8, AnsweredClient DEF IInv
<1>10. TypeOK'
  <2>1. client' \in [Client -> Attachment]
    BY <1>7, <1>9 DEF IInv, TypeOK
  <2> QED
    BY <1>2, <1>3, <2>1 DEF IInv, TypeOK
<1>11. LogOK'
  BY <1>1 DEF IInv, LogOK, LogIncreases, InTree
<1>12. ASSUME ~regressed' PROVE CounterOK'
  <2>1. CounterOK /\ seqs <= seqs'
    BY <1>4, <1>12
  <2>2. \A b \in DOMAIN buffer : buffer[b].seq \in Nat
    BY BufferTyped DEF IInv
  <2>3. \A b \in DOMAIN buffer :
          buffer[b].seq <= seqs' /\ (buffer[b].id = 0 => Unused(buffer[b].seq)')
    BY <1>1, <1>2, <2>1, <2>2 DEF CounterOK, Unused
  <2>4. (lane' => TreeSeq' <= seqs') /\ writing' <= seqs' /\ (~lane' => seqs' \in {0, TreeSeq'})
    BY <1>1, <1>2, <2>1 DEF CounterOK
  <2> QED
    BY <2>1, <2>3, <2>4 DEF CounterOK
<1>13. ClientsOK'
  <2> SUFFICES ASSUME NEW d \in Client, NEW x, x = client'[d] PROVE CacheOK(x)' /\ ClientOK(x)'
    BY DEF ClientsOK
  <2>1. CASE d = c
    <3>1. x = k
      BY <1>7, <2>1 DEF IInv, TypeOK
    <3> QED
      BY <1>9, <3>1
  <2>2. CASE d # c
    <3>1. client'[d] = client[d]
      BY <2>2 DEF IInv, TypeOK
    <3> QED
      BY <1>1, <1>2, <1>3, <1>4, <1>5, <3>1, ClientsKept
  <2> QED
    BY <2>1, <2>2
<1> QED
  BY <1>10, <1>11, <1>12, <1>13 DEF IInv

LEMMA ResyncEventsStep ==
  ASSUME IInv, NEW c \in Client, ResyncEvents(c)
  PROVE  IInv'
<1>1. PICK was \in Attachment : was = client[c]
  BY DEF IInv, TypeOK
<1> DEFINE anchor == was.anchor
           answer(mode, events) ==
             client' = [client EXCEPT ![c] =
                          [was EXCEPT !.phase = "resyncing", !.mode = mode, !.answer = events]]
<1>2. /\ was.phase = "loaded" /\ log' = log /\ buffer' = buffer /\ writing' = writing
      /\ restarts' = restarts /\ refused' = refused /\ regressed' = (regressed \/ seqs' < seqs)
  BY <1>1 DEF ResyncEvents
<1>3. /\ DOMAIN log = 1..Len(log) /\ Len(log) \in Nat /\ TreeSeq \in Nat
      /\ \A i \in DOMAIN log : log[i] \in Nat \ {0} /\ log[i] <= TreeSeq
      /\ \A i, j \in DOMAIN log : log[i] = log[j] => i = j
  BY LogFacts DEF IInv, TypeOK, LogOK
<1>4. /\ anchor \in Nat /\ seqs \in Nat /\ lane \in BOOLEAN
      /\ ~regressed => CounterOK /\ Follows(was) /\ Covers(was)
  BY <1>1, <1>2, Fields DEF IInv, TypeOK, ClientsOK, ClientOK
<1>5. CASE anchor >= seqs /\ answer("stream_resume", <<>>) /\ lane' = lane /\ seqs' = seqs
  <2>1. <<>> \in Answer /\ DOMAIN <<>> = {}
    <3>1. <<>> \in [{} -> Event]
      OBVIOUS
    <3> QED
      BY <3>1 DEF Answer
  <2>2. ~regressed /\ was.sound => \A i \in DOMAIN log : i \in was.view
    BY <1>2, <1>3, <1>4, <1>5 DEF Follows, Covers
  <2>3. "stream_resume" \in Mode
    BY DEF Mode
  <2>4. PICK none \in Answer : none = <<>>
    BY <2>1
  <2>5. /\ client' = [client EXCEPT ![c] =
                        [was EXCEPT !.phase = "resyncing", !.mode = "stream_resume", !.answer = none]]
        /\ DOMAIN none = {}
    BY <1>5, <2>1, <2>4
  <2>6. ~regressed =>
          /\ \A a \in DOMAIN none :
               none[a].id = 0 => Unused(none[a].seq) /\ none[a].seq <= seqs
          /\ \A a, b \in DOMAIN none : none[a].seq = none[b].seq => a = b
          /\ "stream_resume" # "full_reload" /\ was.sound =>
               \A i \in DOMAIN log : i \in was.view \/ \E a \in DOMAIN none : none[a].id = i
    BY <2>2, <2>5
  <2>7. \/ lane' = lane /\ seqs' = seqs
        \/ ~lane /\ lane' = TRUE /\ seqs' = TreeSeq
    BY <1>5, Zenon
  <2>8. /\ \A a \in DOMAIN none : none[a].id # 0 => InTree(none[a])
        /\ "stream_resume" # "full_reload"
    BY <2>5
  <2> QED
    BY <1>1, <1>2, <2>3, <2>5, <2>6, <2>7, <2>8, ResyncAnswer
<1>6. CASE /\ HasContinuousCoverage(EventsAfter(buffer, anchor), anchor + 1)
           /\ answer("stream_resume", EventsAfter(buffer, anchor))
           /\ lane' = lane /\ seqs' = seqs
  <2>1. PICK events : events = EventsAfter(buffer, anchor)
    OBVIOUS
  <2>2. /\ events \in Answer /\ DOMAIN events = {i \in DOMAIN buffer : buffer[i].seq > anchor}
        /\ \A i \in DOMAIN events : events[i] = buffer[i]
    BY <1>4, <2>1, AfterFacts DEF IInv, TypeOK
  <2>3. PICK first \in DOMAIN events : events[first].seq = anchor + 1
    BY <1>4, <1>6, <2>1, <2>2, CoverageBegins
  <2>4. \A b \in DOMAIN events : events[b].id # 0 => InTree(events[b])
    BY <2>2 DEF IInv, LogOK
  <2>5. ASSUME ~regressed, was.sound, NEW i \in DOMAIN log, i \notin was.view
        PROVE  \E b \in DOMAIN events : events[b].id = i
    <3>1. log[i] > anchor
      BY <1>3, <1>4, <2>5 DEF Covers
    <3>2. first \in DOMAIN buffer /\ buffer[first].seq <= log[i]
      BY <1>3, <1>4, <2>2, <2>3, <3>1
    <3>3. PICK b \in DOMAIN buffer : buffer[b].id = i
      BY <1>4, <2>5, <3>2 DEF CounterOK
    <3>4. i # 0
      BY <1>3
    <3>5. buffer[b].seq = log[i]
      BY <3>3, <3>4 DEF IInv, LogOK, InTree
    <3> QED
      BY <2>2, <3>1, <3>3, <3>5
  <2>6. ~regressed =>
          /\ \A b \in DOMAIN events :
               events[b].id = 0 => Unused(events[b].seq) /\ events[b].seq <= seqs
          /\ \A b, d \in DOMAIN events : events[b].seq = events[d].seq => b = d
    BY <1>4, <2>2 DEF CounterOK
  <2>7. /\ "stream_resume" \in Mode
        /\ client' = [client EXCEPT ![c] =
                        [was EXCEPT !.phase = "resyncing", !.mode = "stream_resume", !.answer = events]]
    BY <1>6, <2>1 DEF Mode
  <2>8. ~regressed =>
          /\ \A a \in DOMAIN events :
               events[a].id = 0 => Unused(events[a].seq) /\ events[a].seq <= seqs
          /\ \A a, b \in DOMAIN events : events[a].seq = events[b].seq => a = b
          /\ "stream_resume" # "full_reload" /\ was.sound =>
               \A i \in DOMAIN log : i \in was.view \/ \E a \in DOMAIN events : events[a].id = i
    BY <2>5, <2>6
  <2>9. \/ lane' = lane /\ seqs' = seqs
        \/ ~lane /\ lane' = TRUE /\ seqs' = TreeSeq
    BY <1>6, Zenon
  <2> QED
    BY <1>1, <1>2, <2>2, <2>4, <2>7, <2>8, <2>9, ResyncAnswer
<1>7. CASE /\ answer(IF anchor = 0 THEN "full_reload" ELSE "persistent_fallback",
                     EventsAfter(Tree, anchor))
           /\ lane' = TRUE /\ seqs' = IF lane THEN seqs ELSE TreeSeq
  <2>1. PICK events : events = EventsAfter(Tree, anchor)
    OBVIOUS
  <2>2. PICK mode : mode = IF anchor = 0 THEN "full_reload" ELSE "persistent_fallback"
    OBVIOUS
  <2>3. /\ Tree \in Seq(Event) /\ DOMAIN Tree = DOMAIN log
        /\ \A i \in DOMAIN log : Tree[i] = [id |-> i, seq |-> log[i]] /\ InTree(Tree[i])
    BY TreeFacts DEF IInv, TypeOK
  <2>4. /\ events \in Answer /\ DOMAIN events = {i \in DOMAIN log : log[i] > anchor}
        /\ \A i \in DOMAIN events :
             events[i].id = i /\ events[i].seq = log[i] /\ InTree(events[i])
    <3>1. /\ events \in Answer /\ DOMAIN events = {i \in DOMAIN Tree : Tree[i].seq > anchor}
          /\ \A i \in DOMAIN events : events[i] = Tree[i]
      BY <1>4, <2>1, <2>3, AfterFacts
    <3> QED
      BY <2>3, <3>1
  <2>5. \A i \in DOMAIN log : i # 0 /\ log[i] > 0
    BY <1>3
  <2>6. mode = "full_reload" => anchor = 0 /\ DOMAIN events = DOMAIN log
    BY <2>2, <2>4, <2>5
  <2>7. mode = "full_reload" =>
          /\ \A i \in DOMAIN events : events[i].id # 0
          /\ {events[i].id : i \in DOMAIN events} = DOMAIN log
    BY <2>4, <2>5, <2>6
  <2>8. \A i \in DOMAIN events : events[i].id # 0 /\ InTree(events[i])
    BY <2>4, <2>5
  <2>9. \A i, j \in DOMAIN events : events[i].seq = events[j].seq => i = j
    BY <1>3, <2>4
  <2>10. ~regressed /\ was.sound =>
           \A i \in DOMAIN log : i \in was.view \/ \E a \in DOMAIN events : events[a].id = i
    BY <1>3, <1>4, <2>4 DEF Covers
  <2>11. \/ lane' = lane /\ seqs' = seqs
         \/ ~lane /\ lane' = TRUE /\ seqs' = TreeSeq
    BY <1>4, <1>7, Zenon
  <2>12. mode \in Mode
    BY <2>2 DEF Mode
  <2>13. client' = [client EXCEPT ![c] =
                      [was EXCEPT !.phase = "resyncing", !.mode = mode, !.answer = events]]
    BY <1>7, <2>1, <2>2
  <2>14. ~regressed =>
          /\ \A a \in DOMAIN events :
               events[a].id = 0 => Unused(events[a].seq) /\ events[a].seq <= seqs
          /\ \A a, b \in DOMAIN events : events[a].seq = events[b].seq => a = b
          /\ mode # "full_reload" /\ was.sound =>
               \A i \in DOMAIN log : i \in was.view \/ \E a \in DOMAIN events : events[a].id = i
    BY <2>8, <2>9, <2>10
  <2>15. mode = "full_reload" =>
           /\ was.anchor = 0 /\ \A a \in DOMAIN events : events[a].id # 0
           /\ {events[a].id : a \in DOMAIN events} = DOMAIN log
    BY <2>6, <2>7
  <2>16. events \in Answer /\ \A a \in DOMAIN events : events[a].id # 0 => InTree(events[a])
    BY <2>4
  <2> QED
    BY <1>1, <1>2, <2>11, <2>12, <2>13, <2>14, <2>15, <2>16, ResyncAnswer
<1> QED
  BY <1>1, <1>5, <1>6, <1>7 DEF ResyncEvents

\* A reloading client projects what it was given, and nothing else.
LEMMA ReloadedOK ==
  ASSUME TypeOK, LogOK, NEW was \in Attachment, was.phase = "resyncing",
         was.mode = "full_reload", CacheOK(was), ClientOK(was),
         NEW k, k = [was EXCEPT !.view = Answered(was), !.applied = Seqs(ToSet(was.answer)),
                                !.cache = ToSet(was.answer), !.phase = "attached",
                                !.answer = <<>>]
  PROVE  k \in Attachment /\ CacheOK(k) /\ ClientOK(k)
<1> DEFINE events == ToSet(was.answer)
<1>1. /\ Holds(was)
      /\ \A a \in DOMAIN was.answer :
           was.answer[a] \in Event /\ was.answer[a].id # 0 /\ InTree(was.answer[a])
  BY Fields DEF ClientOK, Holds
<1>2. \A e \in events : e \in Event /\ e.id # 0 /\ InTree(e)
  BY <1>1 DEF ToSet
<1>3. /\ DOMAIN log \subseteq 1..MaxPersistent
      /\ \A i \in DOMAIN log : log[i] \in Nat \ {0} /\ log[i] <= TreeSeq
      /\ \A i, j \in DOMAIN log : log[i] = log[j] => i = j
      /\ TreeSeq \in Nat
  BY LogFacts DEF TypeOK, LogOK
<1>4. /\ Answered(was) \in SUBSET (1..MaxPersistent) /\ Answered(was) \subseteq DOMAIN log
      /\ Seqs(events) \in SUBSET (Nat \ {0}) /\ events \in SUBSET Event
  BY <1>1, <1>2, <1>3 DEF Answered, InTree, Seqs, Event
<1>5. <<>> \in Answer /\ DOMAIN <<>> = {}
  <2>1. <<>> \in [{} -> Event]
    OBVIOUS
  <2> QED
    BY <2>1 DEF Answer
<1>6. /\ k \in Attachment /\ k.phase = "attached" /\ k.view = Answered(was)
      /\ k.applied = Seqs(events) /\ k.cache = events /\ k.answer = <<>>
      /\ k.anchor = was.anchor /\ k.sound = was.sound /\ k.load = was.load
      /\ k.mode = was.mode /\ k.during = was.during
  <2> HIDE DEF events
  <2>1. k = [was EXCEPT !.view = Answered(was), !.applied = Seqs(events), !.cache = events,
                        !.phase = "attached", !.answer = <<>>]
    BY DEF events
  <2> QED
    BY <1>4, <1>5, <2>1 DEF Attachment
<1>7. CacheOK(k)
  BY <1>2, <1>6 DEF CacheOK
<1>8. Holds(k)
  BY <1>1, <1>4, <1>5, <1>6 DEF Holds
<1>9. ASSUME ~regressed PROVE Follows(k) /\ Covers(k)
  <2>1. Follows(was) /\ Covers(was)
    BY <1>9 DEF ClientOK
  <2>2. \A e \in events : e.seq # writing /\ \E i \in DOMAIN log : log[i] = e.seq
    <3>1. writing \in Nat /\ (writing > 0 => TreeSeq < writing)
      BY DEF LogOK, TypeOK
    <3>2. \A i \in DOMAIN log : log[i] # writing
      BY <1>3, <3>1
    <3> QED
      BY <1>2, <3>2 DEF InTree
  <2>3. \A seq \in k.applied : seq # writing /\ \E i \in DOMAIN log : log[i] = seq
    BY <1>6, <2>2 DEF Seqs
  <2>4. \A e \in events : e.id \in Answered(was)
    BY DEF ToSet, Answered
  <2>5. \A i \in DOMAIN log : log[i] \in k.applied => i \in k.view
    <3> SUFFICES ASSUME NEW i \in DOMAIN log, log[i] \in k.applied PROVE i \in k.view
      OBVIOUS
    <3>1. PICK e \in events : e.seq = log[i]
      BY <1>6 DEF Seqs
    <3>2. e.id = i
      BY <1>2, <1>3, <3>1 DEF InTree
    <3> QED
      BY <1>6, <2>4, <3>1, <3>2
  <2>6. Follows(k)
    BY <1>6, <2>1, <2>3, <2>5 DEF Follows
  <2>7. Covers(k)
    BY <1>3, <1>6, <2>1 DEF Covers
  <2> QED
    BY <2>6, <2>7
<1> QED
  BY <1>6, <1>7, <1>8, <1>9 DEF ClientOK

\* A resumed client adds what it was given to what it shows.
LEMMA ResumedOK ==
  ASSUME TypeOK, LogOK, NEW was \in Attachment, was.phase = "resyncing",
         was.mode # "full_reload", CacheOK(was), ClientOK(was),
         NEW k, k = [ApplyEvents(was, was.answer) EXCEPT !.phase = "attached", !.answer = <<>>]
  PROVE  k \in Attachment /\ CacheOK(k) /\ ClientOK(k)
<1> DEFINE events == ToSet(was.answer)
           shown == Projected(was, was.answer)
<1>1. /\ Holds(was)
      /\ \A a \in DOMAIN was.answer : /\ was.answer[a] \in Event
                                      /\ was.answer[a].id # 0 => InTree(was.answer[a])
  BY Fields DEF ClientOK, Holds
<1>2. \A e \in events : e \in Event /\ e.seq \in Nat \ {0} /\ (e.id # 0 => InTree(e))
  BY <1>1 DEF ToSet, Event
<1>3. /\ DOMAIN log \subseteq 1..MaxPersistent
      /\ \A i \in DOMAIN log : log[i] \in Nat \ {0} /\ log[i] <= TreeSeq
      /\ \A i, j \in DOMAIN log : log[i] = log[j] => i = j
      /\ TreeSeq \in Nat /\ 0 \notin DOMAIN log
  BY LogFacts DEF TypeOK, LogOK
<1>4. shown \subseteq DOMAIN log
  BY <1>1 DEF Projected, InTree
<1>5. /\ was.view \cup shown \in SUBSET (1..MaxPersistent)
      /\ was.applied \cup Seqs(events) \in SUBSET (Nat \ {0})
      /\ was.cache \cup Persistent(events) \in SUBSET Event
  BY <1>2, <1>3, <1>4, Fields DEF Seqs, Persistent
<1>6. <<>> \in Answer /\ DOMAIN <<>> = {}
  <2>1. <<>> \in [{} -> Event]
    OBVIOUS
  <2> QED
    BY <2>1 DEF Answer
<1>7. /\ k \in Attachment /\ k.phase = "attached" /\ k.view = was.view \cup shown
      /\ k.applied = was.applied \cup Seqs(events) /\ k.cache = was.cache \cup Persistent(events)
      /\ k.answer = <<>> /\ k.anchor = was.anchor /\ k.sound = was.sound /\ k.load = was.load
      /\ k.mode = was.mode /\ k.during = was.during
  <2> DEFINE view == was.view \cup shown
             applied == was.applied \cup Seqs(events)
             cache == was.cache \cup Persistent(events)
  <2>1. k = [was EXCEPT !.view = view, !.applied = applied, !.cache = cache,
                        !.phase = "attached", !.answer = <<>>]
    BY DEF ApplyEvents, Attachment
  <2>2. /\ view \in SUBSET (1..MaxPersistent) /\ applied \in SUBSET (Nat \ {0})
        /\ cache \in SUBSET Event
    BY <1>5
  <2> HIDE DEF view, applied, cache
  <2>3. /\ k \in Attachment /\ k.phase = "attached" /\ k.view = view
        /\ k.applied = applied /\ k.cache = cache
        /\ k.answer = <<>> /\ k.anchor = was.anchor /\ k.sound = was.sound /\ k.load = was.load
        /\ k.mode = was.mode /\ k.during = was.during
    BY <1>6, <2>1, <2>2 DEF Attachment
  <2> QED
    BY <2>3 DEF view, applied, cache
<1> HIDE DEF shown
<1>8. CacheOK(k)
  BY <1>2, <1>7 DEF CacheOK, Persistent
<1>9. Holds(k)
  BY <1>1, <1>4, <1>6, <1>7 DEF Holds
<1>10. ASSUME ~regressed PROVE Follows(k) /\ Covers(k)
  <2>1. Follows(was) /\ Covers(was) /\ AnswerOK(was)
    BY <1>10 DEF ClientOK, Covers
  \* An event with a new seq is projected.
  <2>2. \A a \in DOMAIN was.answer :
          was.answer[a].id # 0 /\ was.answer[a].seq \notin was.applied => was.answer[a].id \in shown
    <3> SUFFICES ASSUME NEW a \in DOMAIN was.answer, was.answer[a].id # 0,
                        was.answer[a].seq \notin was.applied
                 PROVE  was.answer[a].id \in shown
      OBVIOUS
    <3>1. \A h \in DOMAIN was.answer : h < a => was.answer[h].seq # was.answer[a].seq
      <4>1. DOMAIN was.answer \subseteq Nat
        BY Fields
      <4> QED
        BY <2>1, <4>1 DEF AnswerOK
    <3> QED
      BY <3>1 DEF shown, Projected
  <2>3. \A seq \in Seqs(events) :
          seq # writing /\ (seq <= seqs \/ \E i \in DOMAIN log : log[i] = seq)
    <3> SUFFICES ASSUME NEW a \in DOMAIN was.answer
                 PROVE  LET seq == was.answer[a].seq IN
                        seq # writing /\ (seq <= seqs \/ \E i \in DOMAIN log : log[i] = seq)
      BY DEF Seqs, ToSet
    <3>1. CASE was.answer[a].id = 0
      BY <2>1, <3>1 DEF AnswerOK, Unused
    <3>2. CASE was.answer[a].id # 0
      BY <1>1, <1>3, <3>2 DEF InTree, LogOK, TypeOK
    <3> QED
      BY <3>1, <3>2
  <2>4. \A i \in DOMAIN log : log[i] \in k.applied => i \in k.view
    <3> SUFFICES ASSUME NEW i \in DOMAIN log, log[i] \in k.applied PROVE i \in k.view
      OBVIOUS
    <3>1. CASE log[i] \in was.applied
      BY <1>7, <2>1, <3>1 DEF Follows
    <3>2. CASE log[i] \notin was.applied
      <4>1. PICK a \in DOMAIN was.answer : was.answer[a].seq = log[i]
        BY <1>7, <3>2 DEF Seqs, ToSet
      <4>2. was.answer[a].id # 0
        BY <2>1, <4>1 DEF AnswerOK, Unused
      <4>3. was.answer[a].id = i
        BY <1>1, <1>3, <4>1, <4>2 DEF InTree
      <4> QED
        BY <1>7, <2>2, <3>2, <4>1, <4>2, <4>3
    <3> QED
      BY <3>1, <3>2
  <2>5. Follows(k)
    BY <1>7, <2>1, <2>3, <2>4 DEF Follows
  <2>6. ASSUME was.sound, NEW i \in DOMAIN log PROVE i \in k.view
    <3>1. CASE i \in was.view
      BY <1>7, <3>1
    <3>2. CASE i \notin was.view
      <4>1. PICK a \in DOMAIN was.answer : was.answer[a].id = i
        BY <2>1, <2>6, <3>2 DEF Covers, Answered
      <4>2. was.answer[a].id # 0 /\ was.answer[a].seq = log[i]
        BY <1>1, <1>3, <4>1 DEF InTree
      <4>3. log[i] \notin was.applied
        BY <2>1, <3>2 DEF Follows
      <4> QED
        BY <1>7, <2>2, <4>1, <4>2, <4>3
    <3> QED
      BY <3>1, <3>2
  <2>7. k.view \subseteq DOMAIN log
    BY <1>1, <1>4, <1>7 DEF Holds
  <2>8. Covers(k)
    BY <1>7, <2>6, <2>7 DEF Covers
  <2> QED
    BY <2>5, <2>8
<1> QED
  BY <1>7, <1>8, <1>9, <1>10 DEF ClientOK

LEMMA ReceiveResyncStep ==
  ASSUME IInv, NEW c \in Client, ReceiveResync(c)
  PROVE  IInv'
<1>1. PICK was \in Attachment : was = client[c]
  BY DEF IInv, TypeOK
<1>2. CacheOK(was) /\ ClientOK(was) /\ was.phase = "resyncing"
  BY <1>1 DEF IInv, ClientsOK, ReceiveResync
<1>3. UNCHANGED <<hostVars, restarts, regressed, refused>>
  BY DEF ReceiveResync
<1>4. CASE was.mode = "full_reload"
  <2>1. PICK k : k = [was EXCEPT !.view = Answered(was), !.applied = Seqs(ToSet(was.answer)),
                                 !.cache = ToSet(was.answer), !.phase = "attached",
                                 !.answer = <<>>]
    OBVIOUS
  <2>2. {e.id : e \in ToSet(was.answer)} = Answered(was)
    BY DEF ToSet, Answered
  <2>3. client' = [client EXCEPT ![c] = k]
    BY <1>1, <1>4, <2>1, <2>2 DEF ReceiveResync, Attachment
  <2>4. k \in Attachment /\ CacheOK(k) /\ ClientOK(k)
    BY <1>2, <1>4, <2>1, ReloadedOK DEF IInv
  <2> QED
    BY <1>3, <2>3, <2>4, OneClient
<1>5. CASE was.mode # "full_reload"
  <2>1. PICK k : k = [ApplyEvents(was, was.answer) EXCEPT !.phase = "attached", !.answer = <<>>]
    OBVIOUS
  <2>2. client' = [client EXCEPT ![c] = k]
    BY <1>1, <1>5, <2>1 DEF ReceiveResync
  <2>3. k \in Attachment /\ CacheOK(k) /\ ClientOK(k)
    BY <1>2, <1>5, <2>1, ResumedOK DEF IInv
  <2> QED
    BY <1>3, <2>2, <2>3, OneClient
<1> QED
  BY <1>4, <1>5

-----------------------------------------------------------------------------
\* The invariant

LEMMA Initially ==
  ASSUME Init
  PROVE  IInv
<1>1. /\ log = <<>> /\ lane = TRUE /\ seqs = 0 /\ buffer = <<>> /\ writing = 0
      /\ client = [c \in Client |-> Off({})]
      /\ restarts = 0 /\ regressed = FALSE /\ refused = FALSE
  BY DEF Init
<1>2. \A c \in Client : /\ client[c] \in Attachment /\ client[c].phase = "off"
                        /\ client[c].cache = {} /\ DOMAIN client[c].answer = {}
  BY <1>1, OffFacts
<1>3. TypeOK
  <2>1. client \in [Client -> Attachment]
    BY <1>1, <1>2
  <2>2. lane \in BOOLEAN /\ regressed \in BOOLEAN /\ refused \in BOOLEAN /\ lane
    BY <1>1, Zenon
  <2>3. /\ log \in Seq(Nat \ {0}) /\ Len(log) <= MaxPersistent /\ seqs \in Nat
        /\ buffer \in Seq(Event) /\ writing \in Nat /\ restarts \in 0..MaxRestarts
    BY <1>1
  <2> QED
    BY <2>1, <2>2, <2>3, Zenon DEF TypeOK
<1>4. LogOK /\ CounterOK
  BY <1>1 DEF LogOK, LogIncreases, CounterOK, TreeSeq
<1>5. ClientsOK
  BY <1>2 DEF ClientsOK, CacheOK, ClientOK
<1> QED
  BY <1>3, <1>4, <1>5 DEF IInv

LEMMA Stutter ==
  ASSUME IInv, UNCHANGED vars
  PROVE  IInv'
BY DEF vars, hostVars, IInv, TypeOK, LogOK, LogIncreases, CounterOK, ClientsOK, CacheOK, ClientOK,
       Holds, Follows, Covers, AnswerOK, Answered, InTree, Unused, TreeSeq

LEMMA Inductive ==
  ASSUME IInv, [Next]_vars
  PROVE  IInv'
<1>1. CASE BroadcastTransient
  BY <1>1, BroadcastTransientStep
<1>2. CASE AppendPersistent
  BY <1>2, AppendPersistentStep
<1>3. CASE FinishAppend
  BY <1>3, FinishAppendStep
<1>4. CASE GetLane
  BY <1>4, GetLaneStep
<1>5. CASE Restart
  BY <1>5, RestartStep
<1>6. ASSUME NEW c \in Client, Attach(c) PROVE IInv'
  BY <1>6, AttachStep
<1>7. ASSUME NEW c \in Client, HandleLoadSession(c) PROVE IInv'
  BY <1>7, HandleLoadSessionStep
<1>8. ASSUME NEW c \in Client, ResyncEvents(c) PROVE IInv'
  BY <1>8, ResyncEventsStep
<1>9. ASSUME NEW c \in Client, ReceiveResync(c) PROVE IInv'
  BY <1>9, ReceiveResyncStep
<1>10. ASSUME NEW c \in Client, Disconnect(c) PROVE IInv'
  BY <1>10, DisconnectStep
<1>11. CASE UNCHANGED vars
  BY <1>11, Stutter
<1> QED
  BY <1>1, <1>2, <1>3, <1>4, <1>5, <1>6, <1>7, <1>8, <1>9, <1>10, <1>11 DEF Next

\* The invariant holds in every state the host and its clients reach.
THEOREM Invariant == Spec => []IInv
<1>1. Init => IInv
  BY Initially
<1>2. IInv /\ [Next]_vars => IInv'
  BY Inductive
<1> QED
  BY <1>1, <1>2, PTL DEF Spec

\* Type correctness: every variable of the host and of its clients keeps its type.
THEOREM TypeCorrect == Spec => []TypeOK
<1>1. IInv => TypeOK
  BY DEF IInv
<1> QED
  BY <1>1, Invariant, PTL

\* The seqs of the log increase, although load_session sets the counter they come from back: the
\* tree refuses what is not above its own seq.
THEOREM Ordered == Spec => []LogIncreases
<1>1. IInv => LogIncreases
  BY DEF IInv, LogOK
<1> QED
  BY <1>1, Invariant, PTL

\* No client shows, caches or is being sent a persistent event the log does not have: the
\* broadcast comes after the write, and what is loaded or resynced is of the log.
THEOREM Durable == Spec => []ShownIsDurable
<1>1. IInv => ShownIsDurable
  <2> SUFFICES ASSUME IInv, NEW c \in Client
               PROVE  client[c].cache \cup Persistent(ToSet(client[c].answer)) \subseteq ToSet(Tree)
    BY DEF ShownIsDurable
  <2>1. PICK k \in Attachment : k = client[c]
    BY DEF IInv, TypeOK
  <2>2. CacheOK(k) /\ ClientOK(k)
    BY <2>1 DEF IInv, ClientsOK
  <2>3. \A a \in DOMAIN k.answer :
          k.answer[a] \in Event /\ (k.answer[a].id # 0 => InTree(k.answer[a]))
    BY <2>2, Fields DEF ClientOK, Holds
  <2>4. k.cache \subseteq Event
    BY Fields
  <2>5. \A e \in k.cache \cup Persistent(ToSet(k.answer)) : e \in Event /\ InTree(e)
    BY <2>2, <2>3, <2>4 DEF CacheOK, Persistent, ToSet
  <2>6. \A e \in Event : InTree(e) => e \in ToSet(Tree)
    <3> SUFFICES ASSUME NEW e \in Event, InTree(e) PROVE e \in ToSet(Tree)
      OBVIOUS
    <3>1. e.id \in DOMAIN Tree /\ Tree[e.id] = [id |-> e.id, seq |-> e.seq]
      BY DEF Tree, InTree
    <3>2. e = [id |-> e.id, seq |-> e.seq]
      BY DEF Event
    <3> QED
      BY <3>1, <3>2 DEF ToSet
  <2> QED
    BY <2>1, <2>5, <2>6
<1> QED
  BY <1>1, Invariant, PTL

\* An attached client shows every event of the log, whatever was recorded while it attached,
\* unless its cache had a gap or the host's counter was set back.
THEOREM ShowsLog == Spec => []AttachedShowsLog
<1>1. IInv => AttachedShowsLog
  BY DEF IInv, ClientsOK, ClientOK, Covers, AttachedShowsLog
<1> QED
  BY <1>1, Invariant, PTL
=============================================================================
