---------------------------- MODULE SessionProofs ----------------------------
(***************************************************************************)
(* Theorems about a session: its log and tree (SessionTree), for any       *)
(* number of events, slots, contents, crashes, failed writes and reloads,  *)
(* and what a model call is shown of it (SessionContext), for any number   *)
(* of turns, nodes, compactions, hidden turns and memory updates.          *)
(***************************************************************************)
EXTENDS SessionTree, SessionContext, SequenceTheorems, NaturalsInduction, WellFoundedInduction,
        TLAPS

-----------------------------------------------------------------------------
(* The log and the tree *)

\* The events in memory form a log a reload would accept, and the structures
\* derived from them are exact.
TreeInv ==
  /\ ValidLog(order)
  /\ \A n \in EventId :
       n \in Nodes <=> \E i \in DOMAIN order : IsConversation(order[i]) /\ order[i].id = n
  /\ TreeConsistent
  /\ rootId = NoEvent <=> convOrder = <<>>
  /\ convOrder # <<>> => children[convOrder[Len(convOrder)]] = {}

\* An append that has passed its check would still pass it.
AppendInv ==
  /\ pending # NoEvent => phase = "open" /\ CanAppend(pending)
  /\ written => pending # NoEvent

NoGarbage == \A i \in DOMAIN file : file[i] # Garbage

FileInv ==
  /\ NoGarbage => ValidLog(file)
  /\ tail = "unterminated" => file # <<>> /\ file[Len(file)] # Garbage
  /\ phase = "closed" => order = <<>>
  /\ phase = "loading" => Parses /\ StartsWith(file, order)
  /\ TreeMirrorsLog
  /\ (written /\ Parses /\ tail = "clean") => file[Len(file)] = pending

IInv == TypeOK /\ TreeInv /\ AppendInv /\ FileInv

-----------------------------------------------------------------------------
(* What the fields of an event hold. *)
LEMMA EventFields ==
  ASSUME NEW e \in Event
  PROVE  /\ e.id \in EventId
         /\ e.seq \in 1..MaxSeq
         /\ e.seq \in Nat
         /\ IsConversation(e) => e.parent \in EventId \cup {NoEvent}
         /\ ~IsConversation(e) => e.slot \in Slot /\ e.content \in Content
  BY ConstantsAssumption DEF Event, ConversationEvent, ControlEvent, IsConversation

(* The seqs in memory never exceed currentSeq. *)
LEMMA SeqBound ==
  ASSUME TypeOK, TreeInv
  PROVE  \A i \in DOMAIN order : order[i].seq <= currentSeq
<1> SUFFICES ASSUME NEW i \in DOMAIN order
             PROVE  order[i].seq <= currentSeq
  OBVIOUS
<1>1. order \in Seq(Event) /\ Len(order) \in Nat /\ Len(order) \in DOMAIN order
  BY DEF TypeOK
<1>2. i \in 1..Len(order) /\ order[i] \in Event /\ order[Len(order)] \in Event
  BY <1>1
<1>3. currentSeq = order[Len(order)].seq
  BY <1>1 DEF TreeInv, TreeConsistent
<1>4. i < Len(order) => order[i].seq < order[Len(order)].seq
  BY <1>1 DEF TreeInv, ValidLog, SeqsGrow
<1>5. order[i].seq \in Nat /\ order[Len(order)].seq \in Nat
  BY <1>2, EventFields
<1> QED
  BY <1>1, <1>2, <1>3, <1>4, <1>5

(* What assertCanAppend accepts extends a valid log to a valid log. *)
LEMMA ValidAppend ==
  ASSUME TypeOK, TreeInv, NEW e \in Event, CanAppend(e)
  PROVE  ValidLog(Append(order, e))
<1> DEFINE s == Append(order, e)
           n == Len(order)
<1>1. order \in Seq(Event) /\ n \in Nat /\ DOMAIN order = 1..n
  BY DEF TypeOK
<1>2. /\ s \in Seq(Event) /\ Len(s) = n + 1 /\ DOMAIN s = 1..(n + 1)
      /\ s[n + 1] = e
      /\ \A i \in 1..n : s[i] = order[i]
  BY <1>1
<1>3. \A i \in 1..n : order[i] \in Event /\ order[i].seq \in Nat
  BY <1>1, EventFields
<1>4. e.seq \in Nat /\ currentSeq \in Nat
  BY EventFields, ConstantsAssumption DEF TypeOK
<1>5. SeqsGrow(s)
  <2> SUFFICES ASSUME NEW i \in 1..(n + 1), NEW j \in 1..(n + 1), i < j
               PROVE  s[i].seq < s[j].seq
    BY <1>2 DEF SeqsGrow
  <2>1. i \in 1..n /\ s[i] = order[i]
    BY <1>1, <1>2
  <2>2. CASE j \in 1..n
    BY <1>1, <1>2, <2>1, <2>2 DEF TreeInv, ValidLog, SeqsGrow
  <2>3. CASE j = n + 1
    <3>1. order[i].seq <= currentSeq
      BY <1>1, <2>1, SeqBound
    <3> QED
      BY <1>2, <1>3, <1>4, <2>1, <2>3, <3>1 DEF CanAppend
  <2> QED
    BY <1>1, <2>2, <2>3
<1>6. IdsDiffer(s)
  <2> SUFFICES ASSUME NEW i \in 1..(n + 1), NEW j \in 1..(n + 1), i # j
               PROVE  s[i].id # s[j].id
    BY <1>2 DEF IdsDiffer
  <2>1. CASE i \in 1..n /\ j \in 1..n
    BY <1>1, <1>2, <2>1 DEF TreeInv, ValidLog, IdsDiffer
  <2>2. CASE i = n + 1 \/ j = n + 1
    BY <1>1, <1>2, <2>2 DEF CanAppend
  <2> QED
    BY <1>1, <2>1, <2>2
<1>7. ParentsPrecede(s)
  <2> SUFFICES ASSUME NEW i \in 1..(n + 1), IsConversation(s[i])
               PROVE  IF s[i].parent = NoEvent
                      THEN \A j \in 1..(i - 1) : ~IsConversation(s[j])
                      ELSE \E j \in 1..(i - 1) : IsConversation(s[j]) /\ s[j].id = s[i].parent
    BY <1>2 DEF ParentsPrecede
  <2>1. CASE i \in 1..n
    <3>1. \A j \in 1..(i - 1) : j \in 1..n /\ s[j] = order[j]
      BY <1>1, <1>2, <2>1
    <3>2. s[i] = order[i] /\ i \in DOMAIN order
      BY <1>1, <1>2, <2>1
    <3> QED
      BY <3>1, <3>2 DEF TreeInv, ValidLog, ParentsPrecede
  <2>2. CASE i = n + 1
    <3>1. 1..(i - 1) = 1..n /\ s[i] = e /\ \A j \in 1..n : s[j] = order[j]
      BY <1>1, <1>2, <2>2
    <3>2. CASE e.parent = NoEvent
      <4>1. convOrder = <<>> /\ Nodes = {}
        BY <3>1, <3>2 DEF CanAppend, TreeInv, Nodes
      <4>2. \A j \in 1..n : order[j].id \in EventId
        BY <1>3, EventFields
      <4>3. \A j \in 1..n : ~IsConversation(order[j])
        BY <1>1, <4>1, <4>2 DEF TreeInv
      <4> QED
        BY <3>1, <3>2, <4>3
    <3>3. CASE e.parent # NoEvent
      <4>1. e.parent \in EventId /\ e.parent \in Nodes
        BY <3>1, <3>3, EventFields DEF CanAppend
      <4>2. \E j \in 1..n : IsConversation(order[j]) /\ order[j].id = e.parent
        BY <1>1, <4>1 DEF TreeInv
      <4> QED
        BY <3>1, <3>3, <4>2
    <3> QED
      BY <3>2, <3>3
  <2> QED
    BY <1>1, <2>1, <2>2
<1> QED
  BY <1>5, <1>6, <1>7 DEF ValidLog

(* Applying an event that passed the check keeps the tree exact. *)
LEMMA ApplyTree ==
  ASSUME TypeOK, TreeInv, NEW e \in Event, CanAppend(e), Apply(e)
  PROVE  /\ TreeInv'
         /\ order' = Append(order, e)
         /\ order' \in Seq(Event)
         /\ convOrder' \in Seq(EventId)
         /\ children' \in [EventId -> SUBSET EventId]
         /\ rootId' \in EventId \cup {NoEvent}
         /\ currentSeq' \in 0..MaxSeq
         /\ control' \in [Slot -> Content]
<1> DEFINE n == Len(order)
           m == Len(convOrder)
<1>1. /\ order \in Seq(Event) /\ n \in Nat /\ DOMAIN order = 1..n
      /\ convOrder \in Seq(EventId) /\ m \in Nat /\ DOMAIN convOrder = 1..m
      /\ children \in [EventId -> SUBSET EventId]
      /\ rootId \in EventId \cup {NoEvent}
      /\ control \in [Slot -> Content]
  BY DEF TypeOK
<1>2. /\ e.id \in EventId
      /\ e.seq \in 1..MaxSeq
      /\ IsConversation(e) => e.parent \in EventId \cup {NoEvent}
      /\ ~IsConversation(e) => e.slot \in Slot /\ e.content \in Content
  BY EventFields
<1>3. order' = Append(order, e) /\ currentSeq' = e.seq
  BY DEF Apply
<1>4. /\ order' \in Seq(Event) /\ Len(order') = n + 1 /\ DOMAIN order' = 1..(n + 1)
      /\ order'[n + 1] = e
      /\ \A i \in 1..n : order'[i] = order[i]
  BY <1>1, <1>3
<1>5. \A i \in 1..n : order[i] \in Event /\ order[i].id \in EventId /\ order[i].id # e.id
                      /\ (IsConversation(order[i]) => order[i].parent \in EventId \cup {NoEvent})
  BY <1>1, EventFields DEF CanAppend
<1>6. ValidLog(order)'
  BY <1>3, ValidAppend
<1>7. currentSeq' \in 0..MaxSeq
  BY <1>2, <1>3, ConstantsAssumption
<1>8. currentSeq' = IF order' = <<>> THEN 0 ELSE order'[Len(order')].seq
  BY <1>1, <1>3, <1>4
<1>9. CASE ~IsConversation(e)
  <2>1. /\ control' = [control EXCEPT ![e.slot] = e.content]
        /\ UNCHANGED <<convOrder, children, rootId>>
    BY <1>9 DEF Apply
  <2>2. Nodes' = Nodes
    BY <2>1 DEF Nodes
  <2>3. \A id \in EventId :
          (\E i \in DOMAIN order' : IsConversation(order'[i]) /\ order'[i].id = id)
            <=> (\E i \in DOMAIN order : IsConversation(order[i]) /\ order[i].id = id)
    BY <1>1, <1>4, <1>9, SMTT(30)
  <2>4. \A id \in EventId :
          id \in Nodes' <=> \E i \in DOMAIN order' : IsConversation(order'[i]) /\ order'[i].id = id
    BY <2>2, <2>3 DEF TreeInv
  <2>5. TreeConsistent'
    <3>1. \A i \in DOMAIN order' : IsConversation(order'[i]) =>
            /\ order'[i].id \in Nodes'
            /\ IF order'[i].parent = NoEvent THEN rootId' = order'[i].id
                                             ELSE order'[i].id \in children'[order'[i].parent]
      BY <1>1, <1>4, <1>9, <2>1, <2>2 DEF TreeInv, TreeConsistent
    <3>2. \A id \in EventId : \A c \in children'[id] : \E i \in DOMAIN order' :
            IsConversation(order'[i]) /\ order'[i].id = c /\ order'[i].parent = id
      <4> SUFFICES ASSUME NEW id \in EventId, NEW c \in children[id]
                   PROVE  \E i \in DOMAIN order' :
                            IsConversation(order'[i]) /\ order'[i].id = c /\ order'[i].parent = id
        BY <2>1
      <4>1. PICK i \in DOMAIN order :
              IsConversation(order[i]) /\ order[i].id = c /\ order[i].parent = id
        BY DEF TreeInv, TreeConsistent
      <4>2. i \in DOMAIN order' /\ order'[i] = order[i]
        BY <1>1, <1>4
      <4> QED
        BY <4>1, <4>2
    <3> QED
      BY <1>8, <3>1, <3>2 DEF TreeConsistent
  <2>6. (rootId = NoEvent <=> convOrder = <<>>)'
        /\ (convOrder # <<>> => children[convOrder[Len(convOrder)]] = {})'
    BY <2>1 DEF TreeInv
  <2>7. control' \in [Slot -> Content]
    BY <1>1, <1>2, <1>9, <2>1
  <2> QED
    BY <1>1, <1>3, <1>4, <1>6, <1>7, <2>1, <2>4, <2>5, <2>6, <2>7 DEF TreeInv
<1>10. CASE IsConversation(e)
  <2>1. /\ convOrder' = Append(convOrder, e.id)
        /\ children' = IF e.parent = NoEvent THEN children
                       ELSE [children EXCEPT ![e.parent] = @ \cup {e.id}]
        /\ rootId' = IF e.parent = NoEvent THEN e.id ELSE rootId
        /\ control' = control
    BY <1>10 DEF Apply
  <2>2. /\ convOrder' \in Seq(EventId) /\ Len(convOrder') = m + 1
        /\ DOMAIN convOrder' = 1..(m + 1)
        /\ convOrder'[m + 1] = e.id
        /\ \A i \in 1..m : convOrder'[i] = convOrder[i]
    BY <1>1, <1>2, <2>1
  <2>3. Nodes' = Nodes \cup {e.id}
    <3>1. ASSUME NEW x \in Nodes'
          PROVE  x \in Nodes \cup {e.id}
      <4>1. PICK i \in 1..(m + 1) : x = convOrder'[i]
        BY <2>2, <3>1 DEF Nodes
      <4>2. i \in 1..m => x = convOrder[i] /\ i \in DOMAIN convOrder
        BY <1>1, <2>2, <4>1
      <4>3. i \in 1..m \/ x = e.id
        BY <1>1, <2>2, <4>1
      <4> QED
        BY <4>2, <4>3 DEF Nodes
    <3>2. ASSUME NEW x \in Nodes
          PROVE  x \in Nodes'
      <4>1. PICK i \in 1..m : x = convOrder[i]
        BY <1>1, <3>2 DEF Nodes
      <4>2. i \in DOMAIN convOrder' /\ x = convOrder'[i]
        BY <1>1, <2>2, <4>1
      <4> QED
        BY <4>2 DEF Nodes
    <3>3. e.id \in Nodes'
      <4>1. m + 1 \in DOMAIN convOrder' /\ convOrder'[m + 1] = e.id
        BY <1>1, <2>2
      <4> QED
        BY <4>1 DEF Nodes
    <3> QED
      BY <3>1, <3>2, <3>3
  <2>4. \A id \in EventId :
          id \in Nodes' <=> \E i \in DOMAIN order' : IsConversation(order'[i]) /\ order'[i].id = id
    <3> SUFFICES ASSUME NEW id \in EventId
                 PROVE  (\E i \in DOMAIN order' : IsConversation(order'[i]) /\ order'[i].id = id)
                          <=> (id = e.id \/ \E i \in DOMAIN order :
                                               IsConversation(order[i]) /\ order[i].id = id)
      BY <2>3 DEF TreeInv
    <3>1. (\E i \in DOMAIN order' : IsConversation(order'[i]) /\ order'[i].id = id)
            <=> (\E i \in 1..n : IsConversation(order[i]) /\ order[i].id = id)
                \/ (IsConversation(order'[n + 1]) /\ order'[n + 1].id = id)
      <4>1. DOMAIN order' = 1..n \cup {n + 1} /\ \A i \in 1..n : order'[i] = order[i]
        BY <1>1, <1>4
      <4> QED
        BY <4>1
    <3> QED
      BY <1>1, <1>4, <1>10, <3>1
  <2>5. /\ children' \in [EventId -> SUBSET EventId]
        /\ rootId' \in EventId \cup {NoEvent}
    BY <1>1, <1>2, <1>10, <2>1
  <2>6. children[e.id] = {} /\ e.id \notin Nodes
    <3>1. e.id \notin Nodes
      BY <1>1, <1>2, <1>5 DEF TreeInv
    <3>2. \A i \in DOMAIN order : IsConversation(order[i]) => order[i].parent # e.id
      <4> SUFFICES ASSUME NEW i \in DOMAIN order, IsConversation(order[i]), order[i].parent = e.id
                   PROVE  FALSE
        OBVIOUS
      <4>1. e.id # NoEvent
        BY <1>2, ConstantsAssumption
      <4>2. \E j \in 1..(i - 1) : IsConversation(order[j]) /\ order[j].id = e.id
        BY <4>1 DEF TreeInv, ValidLog, ParentsPrecede
      <4>3. \A j \in 1..(i - 1) : j \in 1..n
        BY <1>1
      <4> QED
        BY <1>5, <4>2, <4>3
    <3>3. \A c \in children[e.id] : FALSE
      BY <1>2, <3>2 DEF TreeInv, TreeConsistent
    <3> QED
      BY <3>1, <3>3
  <2>7. e.parent # NoEvent => e.parent \in Nodes /\ e.parent \in EventId /\ e.parent # e.id
    BY <1>2, <1>10, <2>6 DEF CanAppend
  <2>8. children'[e.id] = {}
    BY <1>1, <1>2, <2>1, <2>6, <2>7
  <2>9. \A id \in EventId : children[id] \subseteq children'[id]
    BY <1>1, <2>1, <2>7
  <2>10. TreeConsistent'
    <3>1. ASSUME NEW i \in DOMAIN order', IsConversation(order'[i])
          PROVE  /\ order'[i].id \in Nodes'
                 /\ IF order'[i].parent = NoEvent THEN rootId' = order'[i].id
                    ELSE order'[i].id \in children'[order'[i].parent]
      <4>1. CASE i \in 1..n
        <5>1. order'[i] = order[i] /\ i \in DOMAIN order /\ IsConversation(order[i])
          BY <1>1, <1>4, <3>1, <4>1
        <5>2. order[i].id \in Nodes /\ order[i].parent \in EventId \cup {NoEvent}
          BY <1>5, <4>1, <5>1 DEF TreeInv, TreeConsistent
        <5>3. convOrder # <<>>
          BY <1>1, <5>2 DEF Nodes
        <5>4. rootId' = rootId
          BY <2>1, <5>3, <1>10 DEF TreeInv, CanAppend
        <5> QED
          BY <2>3, <2>9, <5>1, <5>2, <5>4 DEF TreeInv, TreeConsistent
      <4>2. CASE i = n + 1
        <5>1. order'[i] = e
          BY <1>4, <4>2
        <5> QED
          BY <1>1, <2>1, <2>3, <2>7, <5>1
      <4> QED
        BY <1>1, <1>4, <4>1, <4>2
    <3>2. ASSUME NEW id \in EventId, NEW c \in children'[id]
          PROVE  \E i \in DOMAIN order' :
                   IsConversation(order'[i]) /\ order'[i].id = c /\ order'[i].parent = id
      <4>1. CASE c \in children[id]
        BY <1>1, <1>4, <4>1 DEF TreeInv, TreeConsistent
      <4>2. CASE c \notin children[id]
        <5>1. c = e.id /\ id = e.parent
          BY <1>1, <2>1, <2>7, <3>2, <4>2
        <5> QED
          BY <1>4, <1>1, <1>10, <5>1
      <4> QED
        BY <4>1, <4>2
    <3> QED
      BY <1>8, <3>1, <3>2 DEF TreeConsistent
  <2>11. (rootId = NoEvent <=> convOrder = <<>>)'
    <3>1. convOrder' # <<>>
      BY <1>1, <2>2
    <3>2. rootId' # NoEvent
      BY <1>2, <2>1, <2>7, ConstantsAssumption DEF TreeInv, Nodes
    <3> QED
      BY <3>1, <3>2
  <2>12. (convOrder # <<>> => children[convOrder[Len(convOrder)]] = {})'
    BY <2>2, <2>8
  <2> QED
    BY <1>1, <1>3, <1>4, <1>6, <1>7, <2>1, <2>2, <2>4, <2>5, <2>10, <2>11, <2>12 DEF TreeInv
<1> QED
  BY <1>9, <1>10

(* The check of an append accepts the next line of any valid log it has      *)
(* replayed so far.                                                          *)
LEMMA ReplayAccepts ==
  ASSUME TypeOK, TreeInv, Parses, ValidLog(file), StartsWith(file, order),
         Len(order) < Len(file)
  PROVE  file[Len(order) + 1] \in Event /\ CanAppend(file[Len(order) + 1])
<1> DEFINE n == Len(order)
           e == file[n + 1]
<1>1. /\ order \in Seq(Event) /\ n \in Nat /\ DOMAIN order = 1..n
      /\ file \in Seq(Event \cup {Garbage}) /\ Len(file) \in Nat /\ DOMAIN file = 1..Len(file)
      /\ n + 1 \in DOMAIN file
      /\ \A i \in 1..n : order[i] = file[i] /\ i \in DOMAIN file
  BY DEF TypeOK, StartsWith
<1>2. e \in Event
  BY <1>1 DEF Parses
<1>3. \A i \in 1..n : order[i].id # e.id
  BY <1>1 DEF ValidLog, IdsDiffer
<1>4. e.seq > currentSeq
  <2>1. e.seq \in 1..MaxSeq
    BY <1>2, EventFields
  <2>2. CASE order = <<>>
    BY <2>1, <2>2, ConstantsAssumption DEF TreeInv, TreeConsistent
  <2>3. CASE order # <<>>
    <3>1. n \in 1..n /\ currentSeq = order[n].seq
      BY <1>1, <2>3 DEF TreeInv, TreeConsistent
    <3>2. file[n].seq < e.seq
      BY <1>1, <3>1 DEF ValidLog, SeqsGrow
    <3>3. order[n].seq \in Nat /\ e.seq \in Nat /\ order[n] = file[n]
      BY <1>1, <1>2, <3>1, EventFields
    <3> QED
      BY <3>1, <3>2, <3>3
  <2> QED
    BY <2>2, <2>3
<1>5. IsConversation(e) => IF e.parent = NoEvent THEN rootId = NoEvent
                                                 ELSE e.parent \in Nodes
  <2> SUFFICES ASSUME IsConversation(e)
               PROVE  IF e.parent = NoEvent THEN rootId = NoEvent ELSE e.parent \in Nodes
    OBVIOUS
  <2>1. 1..((n + 1) - 1) = 1..n
    BY <1>1
  <2>2. CASE e.parent = NoEvent
    <3>1. \A j \in 1..n : ~IsConversation(order[j])
      BY <1>1, <2>1, <2>2 DEF ValidLog, ParentsPrecede
    <3>2. \A x \in Nodes : FALSE
      <4>1. \A x \in Nodes : x \in EventId
        BY DEF Nodes, TypeOK
      <4> QED
        BY <1>1, <3>1, <4>1 DEF TreeInv
    <3>3. convOrder \in Seq(EventId) /\ (convOrder # <<>> => 1 \in DOMAIN convOrder)
      BY DEF TypeOK
    <3>4. convOrder = <<>>
      BY <3>2, <3>3 DEF Nodes
    <3> QED
      BY <2>2, <3>4 DEF TreeInv
  <2>3. CASE e.parent # NoEvent
    <3>1. \E j \in 1..n : IsConversation(order[j]) /\ order[j].id = e.parent
      BY <1>1, <2>1, <2>3 DEF ValidLog, ParentsPrecede
    <3>2. e.parent \in EventId
      BY <1>2, <2>3, EventFields
    <3> QED
      BY <1>1, <2>3, <3>1, <3>2 DEF TreeInv
  <2> QED
    BY <2>2, <2>3
<1> QED
  BY <1>1, <1>2, <1>3, <1>4, <1>5 DEF CanAppend

(* A new tree is exact. *)
LEMMA EmptyTreeInv ==
  ASSUME EmptyTree
  PROVE  /\ TreeInv'
         /\ order' = <<>>
         /\ order' \in Seq(Event)
         /\ convOrder' \in Seq(EventId)
         /\ children' \in [EventId -> SUBSET EventId]
         /\ rootId' \in EventId \cup {NoEvent}
         /\ currentSeq' \in 0..MaxSeq
         /\ control' \in [Slot -> Content]
<1>1. order' = <<>> /\ convOrder' = <<>> /\ children' = [n \in EventId |-> {}]
      /\ rootId' = NoEvent /\ currentSeq' = 0 /\ control' = [s \in Slot |-> EmptyContent]
  BY DEF EmptyTree
<1>2. DOMAIN order' = {} /\ DOMAIN convOrder' = {}
  BY <1>1
<1>3. ValidLog(order)'
  BY <1>2 DEF ValidLog, SeqsGrow, IdsDiffer, ParentsPrecede
<1>4. TreeConsistent'
  BY <1>1, <1>2 DEF TreeConsistent
<1>5. Nodes' = {}
  BY <1>2 DEF Nodes
<1> QED
  BY <1>1, <1>2, <1>3, <1>4, <1>5, ConstantsAssumption DEF TreeInv

(* Appending a whole line to a file that mirrors the tree keeps it valid. *)
LEMMA ValidFileAppend ==
  ASSUME TypeOK, TreeInv, AppendInv, Writing, FileInv, NoGarbage, tail = "clean"
  PROVE  /\ pending \in Event
         /\ file = order
         /\ ValidLog(Append(file, pending))
<1>1. pending \in Event /\ phase = "open" /\ CanAppend(pending)
  BY DEF TypeOK, Writing, AppendInv
<1>2. Parses
  BY DEF Parses, NoGarbage
<1>3. StartsWith(file, order) /\ Len(file) = Len(order)
  BY <1>1, <1>2 DEF FileInv, TreeMirrorsLog, Writing, TypeOK
<1>4. file = order
  <2>1. order \in Seq(Event \cup {Garbage}) /\ file \in Seq(Event \cup {Garbage})
    BY DEF TypeOK
  <2>2. \A i \in 1..Len(order) : order[i] = file[i]
    BY <1>3, <2>1 DEF StartsWith
  <2> QED
    BY <1>3, <2>1, <2>2, SeqEqual
<1> QED
  BY <1>1, <1>4, ValidAppend

(* A valid log without its last line is valid. *)
LEMMA ValidFront ==
  ASSUME NEW s, NEW S, s \in Seq(S), s # <<>>, ValidLog(s)
  PROVE  ValidLog(SubSeq(s, 1, Len(s) - 1))
<1> DEFINE t == SubSeq(s, 1, Len(s) - 1)
<1>1. /\ Len(s) \in Nat /\ DOMAIN s = 1..Len(s)
      /\ DOMAIN t = 1..(Len(s) - 1)
      /\ \A i \in 1..(Len(s) - 1) : t[i] = s[i] /\ i \in DOMAIN s
  OBVIOUS
<1>2. SeqsGrow(t) /\ IdsDiffer(t)
  BY <1>1 DEF ValidLog, SeqsGrow, IdsDiffer
<1>3. ParentsPrecede(t)
  <2> SUFFICES ASSUME NEW i \in 1..(Len(s) - 1), IsConversation(t[i])
               PROVE  IF t[i].parent = NoEvent
                      THEN \A j \in 1..(i - 1) : ~IsConversation(t[j])
                      ELSE \E j \in 1..(i - 1) : IsConversation(t[j]) /\ t[j].id = t[i].parent
    BY <1>1 DEF ParentsPrecede
  <2>1. i \in DOMAIN s /\ t[i] = s[i] /\ \A j \in 1..(i - 1) : t[j] = s[j]
    BY <1>1
  <2> QED
    BY <2>1 DEF ValidLog, ParentsPrecede
<1> QED
  BY <1>2, <1>3 DEF ValidLog

(* An interrupted write damages only what was not whole before it.           *)
LEMMA InterruptedFile ==
  ASSUME TypeOK, TreeInv, AppendInv, FileInv, Writing, Interrupted
  PROVE  /\ file' \in Seq(Event \cup {Garbage})
         /\ tail' \in TailState
         /\ (NoGarbage => ValidLog(file))'
         /\ (tail = "unterminated" => file # <<>> /\ file[Len(file)] # Garbage)'
         /\ tail' = "clean" => file' = file /\ tail = "clean"
<1>1. file \in Seq(Event \cup {Garbage}) /\ tail \in TailState /\ Len(file) \in Nat
      /\ DOMAIN file = 1..Len(file)
  BY DEF TypeOK
<1>2. CASE UNCHANGED <<file, tail>>
  BY <1>1, <1>2 DEF FileInv, NoGarbage
<1>3. CASE /\ tail' = "torn"
           /\ file' = IF tail = "unterminated" THEN SubSeq(file, 1, Len(file) - 1) ELSE file
  <2>1. CASE tail = "unterminated"
    <3>1. file # <<>> /\ file[Len(file)] # Garbage
      BY <2>1 DEF FileInv
    <3>2. /\ file' = SubSeq(file, 1, Len(file) - 1)
          /\ file' \in Seq(Event \cup {Garbage})
          /\ DOMAIN file' = 1..(Len(file) - 1)
          /\ \A i \in 1..(Len(file) - 1) : file'[i] = file[i]
      BY <1>1, <1>3, <2>1, <3>1
    <3>3. NoGarbage' => NoGarbage
      <4> SUFFICES ASSUME NoGarbage', NEW i \in 1..Len(file)
                   PROVE  file[i] # Garbage
        BY <1>1 DEF NoGarbage
      <4>1. i \in 1..(Len(file) - 1) \/ i = Len(file)
        <5>1. Len(file) \in Nat
          BY <1>1
        <5> QED
          BY <5>1
      <4>2. i \in 1..(Len(file) - 1) => file'[i] # Garbage /\ file'[i] = file[i]
        BY <3>2 DEF NoGarbage
      <4> QED
        BY <3>1, <4>1, <4>2
    <3>4. NoGarbage => ValidLog(file)
      BY DEF FileInv
    <3>5. NoGarbage' => ValidLog(file')
      BY <1>1, <3>1, <3>2, <3>3, <3>4, ValidFront
    <3> QED
      BY <1>3, <3>2, <3>5 DEF TailState
  <2>2. CASE tail # "unterminated"
    BY <1>1, <1>3, <2>2 DEF FileInv, NoGarbage, TailState
  <2> QED
    BY <2>1, <2>2
<1>4. CASE tail = "clean" /\ tail' = "unterminated" /\ file' = Append(file, pending)
  <2>1. pending \in Event /\ pending # Garbage
    BY EventAssumption DEF TypeOK, Writing
  <2>2. /\ file' \in Seq(Event \cup {Garbage}) /\ Len(file') = Len(file) + 1
        /\ file'[Len(file')] = pending /\ file' # <<>>
        /\ DOMAIN file' = 1..(Len(file) + 1)
        /\ \A i \in 1..Len(file) : file'[i] = file[i]
    BY <1>1, <1>4, <2>1
  <2>3. NoGarbage' => NoGarbage
    BY <1>1, <2>2 DEF NoGarbage
  <2>4. NoGarbage' => ValidLog(file')
    BY <1>4, <2>3, ValidFileAppend
  <2> QED
    BY <1>4, <2>1, <2>2, <2>4 DEF TailState
<1> QED
  BY <1>2, <1>3, <1>4 DEF Interrupted

-----------------------------------------------------------------------------
(* The steps. *)

LEMMA InitIInv == Init => IInv
<1> SUFFICES ASSUME Init PROVE IInv
  OBVIOUS
<1>1. /\ file = <<>> /\ tail = "clean" /\ order = <<>> /\ convOrder = <<>>
      /\ children = [n \in EventId |-> {}] /\ rootId = NoEvent /\ currentSeq = 0
      /\ control = [s \in Slot |-> EmptyContent] /\ phase = "open"
      /\ pending = NoEvent /\ written = FALSE /\ acknowledged = {}
      /\ DOMAIN order = {} /\ DOMAIN convOrder = {} /\ DOMAIN file = {} /\ Len(file) = 0
      /\ Len(order) = 0
  BY DEF Init
<1>2. TypeOK
  <2>1. /\ file \in Seq(Event \cup {Garbage}) /\ order \in Seq(Event)
        /\ convOrder \in Seq(EventId)
    BY <1>1
  <2>2. /\ children \in [EventId -> SUBSET EventId]
        /\ control \in [Slot -> Content]
        /\ currentSeq \in 0..MaxSeq
    BY <1>1, ConstantsAssumption
  <2> QED
    BY <1>1, <2>1, <2>2 DEF TypeOK, TailState, Phase
<1>3. ValidLog(order) /\ ValidLog(file)
  BY <1>1 DEF ValidLog, SeqsGrow, IdsDiffer, ParentsPrecede
<1>4. TreeConsistent /\ Nodes = {}
  BY <1>1 DEF TreeConsistent, Nodes
<1>5. TreeInv
  BY <1>1, <1>3, <1>4 DEF TreeInv
<1>6. FileInv /\ AppendInv
  BY <1>1, <1>3 DEF FileInv, AppendInv, TreeMirrorsLog, StartsWith
<1> QED
  BY <1>2, <1>5, <1>6 DEF IInv

LEMMA BeginAppendStep ==
  ASSUME IInv, NEW e \in Event, BeginAppend(e)
  PROVE  IInv'
<1>1. /\ pending' = e /\ phase = "open" /\ CanAppend(e) /\ pending = NoEvent
      /\ UNCHANGED <<file, tail, order, convOrder, children, rootId, currentSeq, control,
                     phase, written, acknowledged>>
  BY DEF BeginAppend, treeVars
<1>2. TypeOK'
  BY <1>1 DEF IInv, TypeOK
<1>3. TreeInv'
  BY <1>1 DEF IInv, TreeInv, TreeConsistent, Nodes
<1>4. written = FALSE
  BY <1>1 DEF IInv, AppendInv, TypeOK
<1>5. CanAppend(pending)'
  BY <1>1 DEF CanAppend, Nodes
<1>6. AppendInv'
  BY <1>1, <1>4, <1>5 DEF AppendInv
<1>7. FileInv'
  BY <1>1, <1>4 DEF IInv, FileInv, NoGarbage, Parses, TreeMirrorsLog
<1> QED
  BY <1>2, <1>3, <1>6, <1>7 DEF IInv

LEMMA WriteLineStep ==
  ASSUME IInv, WriteLine
  PROVE  IInv'
<1>1. /\ pending # NoEvent /\ written = FALSE /\ tail' = "clean" /\ written' = TRUE
      /\ UNCHANGED <<order, convOrder, children, rootId, currentSeq, control, phase, pending,
                     acknowledged>>
      /\ Writing
  BY DEF WriteLine, Writing, treeVars, IInv, TypeOK
<1>2. /\ file' = CASE tail = "clean"        -> Append(file, pending)
                   [] tail = "unterminated" -> [file EXCEPT ![Len(file)] = Garbage]
                   [] tail = "torn"         -> Append(file, Garbage)
  BY DEF WriteLine
<1>3. /\ file \in Seq(Event \cup {Garbage}) /\ Len(file) \in Nat /\ DOMAIN file = 1..Len(file)
      /\ tail \in TailState /\ pending \in Event /\ pending # Garbage
      /\ order \in Seq(Event)
  BY <1>1, EventAssumption DEF IInv, TypeOK
<1>4. phase = "open" /\ CanAppend(pending)
  BY <1>1 DEF IInv, AppendInv
<1>5. TreeInv'
  BY <1>1 DEF IInv, TreeInv, TreeConsistent, Nodes
<1>6. AppendInv'
  <2>1. CanAppend(pending)'
    BY <1>1, <1>4 DEF CanAppend, Nodes
  <2> QED
    BY <1>1, <1>4, <2>1 DEF AppendInv
<1>7. CASE tail = "clean"
  <2>1. /\ file' = Append(file, pending)
        /\ file' \in Seq(Event \cup {Garbage}) /\ Len(file') = Len(file) + 1
        /\ file'[Len(file')] = pending
        /\ DOMAIN file' = 1..(Len(file) + 1)
        /\ \A i \in 1..Len(file) : file'[i] = file[i]
    BY <1>2, <1>3, <1>7
  <2>2. NoGarbage' => NoGarbage
    BY <1>3, <2>1 DEF NoGarbage
  <2>3. NoGarbage' => file = order /\ ValidLog(file')
    BY <1>1, <1>7, <2>1, <2>2, ValidFileAppend DEF IInv
  <2>4. NoGarbage' => StartsWith(file, order)' /\ Len(file') = Len(order') + 1
    BY <1>1, <1>3, <2>1, <2>3 DEF StartsWith
  <2>5. FileInv'
    BY <1>1, <1>4, <2>1, <2>3, <2>4 DEF FileInv, TreeMirrorsLog, Parses, NoGarbage
  <2> QED
    BY <1>1, <1>5, <1>6, <2>1, <2>5 DEF IInv, TypeOK, TailState
<1>8. CASE tail # "clean"
  <2>1. file' \in Seq(Event \cup {Garbage}) /\ \E i \in DOMAIN file' : file'[i] = Garbage
    <3>1. CASE tail = "unterminated"
      <4>1. file # <<>> /\ Len(file) \in 1..Len(file)
        BY <1>3, <3>1 DEF IInv, FileInv
      <4>2. file' = [file EXCEPT ![Len(file)] = Garbage]
        BY <1>2, <3>1
      <4>3. /\ file' \in Seq(Event \cup {Garbage})
            /\ Len(file) \in DOMAIN file' /\ file'[Len(file)] = Garbage
        BY <1>3, <4>1, <4>2, ExceptSeq
      <4> QED
        BY <4>3
    <3>2. CASE tail = "torn"
      <4>1. file' = Append(file, Garbage)
        BY <1>2, <3>2
      <4>2. /\ file' \in Seq(Event \cup {Garbage})
            /\ Len(file) + 1 \in DOMAIN file' /\ file'[Len(file) + 1] = Garbage
        BY <1>3, <4>1
      <4> QED
        BY <4>2
    <3> QED
      BY <1>3, <1>8, <3>1, <3>2 DEF TailState
  <2>2. ~NoGarbage' /\ ~Parses'
    BY <2>1 DEF NoGarbage, Parses
  <2>3. FileInv'
    BY <1>1, <1>4, <2>2 DEF FileInv, TreeMirrorsLog
  <2> QED
    BY <1>1, <1>5, <1>6, <2>1, <2>3 DEF IInv, TypeOK, TailState
<1> QED
  BY <1>7, <1>8

LEMMA FinishAppendStep ==
  ASSUME IInv, FinishAppend
  PROVE  IInv'
<1>1. /\ written = TRUE /\ Apply(pending) /\ pending' = NoEvent /\ written' = FALSE
      /\ UNCHANGED <<file, tail, phase>> /\ acknowledged' = acknowledged \cup {pending}
  BY DEF FinishAppend, IInv, TypeOK
<1>2. pending \in Event /\ CanAppend(pending) /\ phase = "open"
  BY <1>1 DEF IInv, AppendInv, TypeOK
<1>3. /\ TreeInv' /\ order' = Append(order, pending)
      /\ order' \in Seq(Event) /\ convOrder' \in Seq(EventId)
      /\ children' \in [EventId -> SUBSET EventId]
      /\ rootId' \in EventId \cup {NoEvent} /\ currentSeq' \in 0..MaxSeq
      /\ control' \in [Slot -> Content]
  BY <1>1, <1>2, ApplyTree DEF IInv
<1>4. TypeOK'
  BY <1>1, <1>2, <1>3 DEF IInv, TypeOK
<1>5. AppendInv'
  BY <1>1 DEF AppendInv
<1>6. TreeMirrorsLog'
  <2> SUFFICES ASSUME Parses, tail = "clean"
               PROVE  StartsWith(file, order') /\ Len(file) = Len(order')
    BY <1>1, <1>2 DEF TreeMirrorsLog, Parses, StartsWith
  <2>1. /\ StartsWith(file, order) /\ Len(file) = Len(order) + 1
        /\ file[Len(file)] = pending
    BY <1>1, <1>2 DEF IInv, FileInv, TreeMirrorsLog
  <2>2. order \in Seq(Event) /\ Len(order) \in Nat
    BY DEF IInv, TypeOK
  <2> QED
    BY <1>2, <1>3, <2>1, <2>2 DEF StartsWith
<1>7. FileInv'
  BY <1>1, <1>2, <1>6 DEF IInv, FileInv, NoGarbage
<1> QED
  BY <1>3, <1>4, <1>5, <1>7 DEF IInv

LEMMA FailWriteStep ==
  ASSUME IInv, FailWrite
  PROVE  IInv'
<1>1. /\ Writing /\ Interrupted /\ pending' = NoEvent /\ written = FALSE
      /\ UNCHANGED <<order, convOrder, children, rootId, currentSeq, control, phase, written,
                     acknowledged>>
  BY DEF FailWrite, Writing, treeVars, IInv, TypeOK
<1>2. /\ file' \in Seq(Event \cup {Garbage})
      /\ tail' \in TailState
      /\ (NoGarbage => ValidLog(file))'
      /\ (tail = "unterminated" => file # <<>> /\ file[Len(file)] # Garbage)'
      /\ tail' = "clean" => file' = file /\ tail = "clean"
  BY <1>1, InterruptedFile DEF IInv
<1>3. TypeOK'
  BY <1>1, <1>2 DEF IInv, TypeOK
<1>4. TreeInv'
  BY <1>1 DEF IInv, TreeInv, TreeConsistent, Nodes
<1>5. AppendInv'
  BY <1>1 DEF AppendInv
<1>6. phase = "open"
  BY <1>1 DEF IInv, AppendInv, Writing
<1>7. TreeMirrorsLog'
  BY <1>1, <1>2 DEF IInv, FileInv, TreeMirrorsLog, Parses, StartsWith
<1>8. FileInv'
  BY <1>1, <1>2, <1>6, <1>7 DEF FileInv
<1> QED
  BY <1>3, <1>4, <1>5, <1>8 DEF IInv

LEMMA CrashStep ==
  ASSUME IInv, Crash
  PROVE  IInv'
<1>1. /\ EmptyTree /\ phase' = "closed" /\ pending' = NoEvent /\ written' = FALSE
      /\ IF Writing THEN Interrupted ELSE UNCHANGED <<file, tail>>
      /\ acknowledged' = acknowledged
  BY DEF Crash
<1>2. /\ file' \in Seq(Event \cup {Garbage})
      /\ tail' \in TailState
      /\ (NoGarbage => ValidLog(file))'
      /\ (tail = "unterminated" => file # <<>> /\ file[Len(file)] # Garbage)'
  <2>1. CASE Writing
    BY <1>1, <2>1, InterruptedFile DEF IInv
  <2>2. CASE ~Writing
    BY <1>1, <2>2 DEF IInv, TypeOK, FileInv, NoGarbage
  <2> QED
    BY <2>1, <2>2
<1>3. /\ TreeInv' /\ order' = <<>>
      /\ order' \in Seq(Event) /\ convOrder' \in Seq(EventId)
      /\ children' \in [EventId -> SUBSET EventId]
      /\ rootId' \in EventId \cup {NoEvent} /\ currentSeq' \in 0..MaxSeq
      /\ control' \in [Slot -> Content]
  BY <1>1, EmptyTreeInv
<1>4. TypeOK'
  BY <1>1, <1>2, <1>3 DEF IInv, TypeOK, Phase
<1>5. AppendInv'
  BY <1>1 DEF AppendInv
<1>6. StartsWith(file, order)'
  BY <1>2, <1>3 DEF StartsWith
<1>7. FileInv'
  BY <1>1, <1>2, <1>3, <1>6 DEF FileInv, TreeMirrorsLog
<1> QED
  BY <1>3, <1>4, <1>5, <1>7 DEF IInv

LEMMA BeginLoadStep ==
  ASSUME IInv, BeginLoad
  PROVE  IInv'
<1>1. /\ phase = "closed" /\ phase' = IF Parses THEN "loading" ELSE "closed"
      /\ UNCHANGED <<file, tail, order, convOrder, children, rootId, currentSeq, control,
                     pending, written, acknowledged>>
  BY DEF BeginLoad, treeVars
<1>2. order = <<>> /\ pending = NoEvent /\ written = FALSE
  BY <1>1 DEF IInv, FileInv, AppendInv, TypeOK
<1>3. TypeOK'
  BY <1>1 DEF IInv, TypeOK, Phase
<1>4. TreeInv'
  BY <1>1 DEF IInv, TreeInv, TreeConsistent, Nodes
<1>5. AppendInv'
  BY <1>1, <1>2 DEF AppendInv
<1>6. StartsWith(file, order)'
  BY <1>1, <1>2 DEF StartsWith, IInv, TypeOK
<1>7. FileInv'
  BY <1>1, <1>2, <1>6 DEF IInv, FileInv, TreeMirrorsLog, NoGarbage, Parses
<1> QED
  BY <1>3, <1>4, <1>5, <1>7 DEF IInv

(* While a session loads, no line is rejected.                               *)
LEMMA NoRejection == IInv => LoadNeverRejects
<1> SUFFICES ASSUME IInv, phase = "loading", Len(order) < Len(file)
             PROVE  CanAppend(file[Len(order) + 1])
  BY DEF LoadNeverRejects, LoadRejected
<1>1. Parses /\ StartsWith(file, order)
  BY DEF IInv, FileInv
<1>2. ValidLog(file)
  BY <1>1 DEF IInv, FileInv, Parses, NoGarbage
<1> QED
  BY <1>1, <1>2, ReplayAccepts DEF IInv

LEMMA LoadLineStep ==
  ASSUME IInv, LoadLine
  PROVE  IInv'
<1> DEFINE e == file[Len(order) + 1]
<1>1. /\ phase = "loading" /\ Len(order) < Len(file)
      /\ UNCHANGED <<file, tail, pending, written, acknowledged>>
  BY DEF LoadLine
<1>2. Parses /\ StartsWith(file, order) /\ ValidLog(file)
  BY <1>1 DEF IInv, FileInv, Parses, NoGarbage
<1>3. e \in Event /\ CanAppend(e)
  BY <1>1, <1>2, ReplayAccepts DEF IInv
<1>4. Apply(e) /\ phase' = phase
  BY <1>3 DEF LoadLine, LoadRejected
<1>5. /\ TreeInv' /\ order' = Append(order, e)
      /\ order' \in Seq(Event) /\ convOrder' \in Seq(EventId)
      /\ children' \in [EventId -> SUBSET EventId]
      /\ rootId' \in EventId \cup {NoEvent} /\ currentSeq' \in 0..MaxSeq
      /\ control' \in [Slot -> Content]
  BY <1>3, <1>4, ApplyTree DEF IInv
<1>6. TypeOK'
  BY <1>1, <1>4, <1>5 DEF IInv, TypeOK
<1>7. pending = NoEvent /\ written = FALSE
  BY <1>1 DEF IInv, AppendInv, TypeOK
<1>8. AppendInv'
  BY <1>1, <1>7 DEF AppendInv
<1>9. StartsWith(file, order)'
  <2>1. order \in Seq(Event) /\ Len(order) \in Nat /\ file \in Seq(Event \cup {Garbage})
    BY DEF IInv, TypeOK
  <2> QED
    BY <1>1, <1>2, <1>5, <2>1 DEF StartsWith
<1>10. FileInv'
  BY <1>1, <1>2, <1>4, <1>7, <1>9 DEF IInv, FileInv, TreeMirrorsLog, NoGarbage, Parses
<1> QED
  BY <1>5, <1>6, <1>8, <1>10 DEF IInv

LEMMA EndLoadStep ==
  ASSUME IInv, EndLoad
  PROVE  IInv'
<1>1. /\ phase = "loading" /\ Len(order) = Len(file) /\ phase' = "open"
      /\ UNCHANGED <<file, tail, order, convOrder, children, rootId, currentSeq, control,
                     pending, written, acknowledged>>
  BY DEF EndLoad, treeVars
<1>2. pending = NoEvent /\ written = FALSE
  BY <1>1 DEF IInv, AppendInv, TypeOK
<1>3. TypeOK'
  BY <1>1 DEF IInv, TypeOK, Phase
<1>4. TreeInv'
  BY <1>1 DEF IInv, TreeInv, TreeConsistent, Nodes
<1>5. AppendInv'
  BY <1>1, <1>2 DEF AppendInv
<1>6. StartsWith(file, order)' /\ Len(file) = Len(order) /\ Len(order) \in Nat
  BY <1>1 DEF IInv, FileInv, StartsWith, TypeOK
<1>7. FileInv'
  BY <1>1, <1>2, <1>6 DEF IInv, FileInv, TreeMirrorsLog, NoGarbage, Parses
<1> QED
  BY <1>3, <1>4, <1>5, <1>7 DEF IInv

LEMMA StutterStep ==
  ASSUME IInv, UNCHANGED vars
  PROVE  IInv'
<1>1. UNCHANGED <<file, tail, order, convOrder, children, rootId, currentSeq, control,
                  phase, pending, written, acknowledged>>
  BY DEF vars
<1>2. TypeOK'
  BY <1>1 DEF IInv, TypeOK
<1>3. TreeInv'
  BY <1>1 DEF IInv, TreeInv, TreeConsistent, Nodes
<1>4. AppendInv'
  BY <1>1 DEF IInv, AppendInv, CanAppend, Nodes
<1>5. FileInv'
  BY <1>1 DEF IInv, FileInv, TreeMirrorsLog, NoGarbage, Parses
<1> QED
  BY <1>2, <1>3, <1>4, <1>5 DEF IInv

-----------------------------------------------------------------------------
(* The inductive invariant. *)
THEOREM Inductive == Spec => []IInv
<1>1. IInv /\ [Next]_vars => IInv'
  BY BeginAppendStep, WriteLineStep, FinishAppendStep, FailWriteStep, CrashStep,
     BeginLoadStep, LoadLineStep, EndLoadStep, StutterStep DEF Next
<1> QED
  BY InitIInv, <1>1, PTL DEF Spec

(* Every variable keeps its type.                                            *)
THEOREM TypeCorrect == Spec => []TypeOK
<1>1. IInv => TypeOK
  BY DEF IInv
<1> QED
  BY Inductive, <1>1, PTL

(* Whatever crashes, failed writes and reloads a session goes through, as    *)
(* long as its lines parse loadSession accepts every one of them.            *)
THEOREM Replayable == Spec => [](LogReplayable /\ LoadNeverRejects)
<1>1. IInv => LogReplayable
  BY DEF IInv, FileInv, LogReplayable, Parses, NoGarbage
<1> QED
  BY Inductive, <1>1, NoRejection, PTL

(* The tree in memory is what the file says, except for the line an append   *)
(* has written and not yet applied; its derived structures are exact.        *)
THEOREM MemoryIsLog == Spec => [](TreeMirrorsLog /\ TreeConsistent)
<1>1. IInv => TreeMirrorsLog /\ TreeConsistent
  BY DEF IInv, FileInv, TreeInv
<1> QED
  BY Inductive, <1>1, PTL

(* activeLeafId, computed from the leaves, is the newest conversation event. *)
THEOREM NewestIsActive == Spec => []ActiveLeafIsNewest
<1>1. IInv => ActiveLeafIsNewest
  <2> SUFFICES ASSUME IInv, convOrder # <<>>
               PROVE  ActiveLeafId = convOrder[Len(convOrder)]
    BY DEF ActiveLeafIsNewest
  <2>1. convOrder \in Seq(EventId) /\ Len(convOrder) \in 1..Len(convOrder)
    BY DEF IInv, TypeOK
  <2>2. DOMAIN convOrder = 1..Len(convOrder) /\ Len(convOrder) \in Nat
    BY <2>1
  <2>3. Len(convOrder) \in Leaves
    BY <2>1, <2>2 DEF IInv, TreeInv, Leaves
  <2>4. \A j \in Leaves : j \in Nat /\ j <= Len(convOrder)
    BY <2>2 DEF Leaves
  <2>5. (CHOOSE i \in Leaves : \A j \in Leaves : j <= i) = Len(convOrder)
    <3>1. PICK i \in Leaves : /\ i = CHOOSE k \in Leaves : \A j \in Leaves : j <= k
                              /\ \A j \in Leaves : j <= i
      BY <2>3, <2>4
    <3>2. i <= Len(convOrder) /\ Len(convOrder) <= i /\ i \in Nat
      BY <2>3, <2>4, <3>1
    <3> QED
      BY <2>2, <3>1, <3>2
  <2> QED
    BY <2>3, <2>5 DEF ActiveLeafId
<1> QED
  BY Inductive, <1>1, PTL

(* What was acknowledged is among the lines that ended with their newline,   *)
(* as long as every line parses: a file that stopped parsing never parses    *)
(* again.                                                                    *)
Whole == IF tail = "unterminated" THEN Len(file) - 1 ELSE Len(file)
KeptInv ==
  /\ written => tail = "clean"
  /\ AcknowledgedIsKept
  /\ Parses => \A e \in acknowledged : \E i \in 1..Whole : file[i] = e

LEMMA InterruptedKeeps ==
  ASSUME IInv, KeptInv, Writing, Interrupted, acknowledged' = acknowledged
  PROVE  Parses' => \A e \in acknowledged' : \E i \in 1..Whole' : file'[i] = e
<1>1. /\ file \in Seq(Event \cup {Garbage}) /\ Len(file) \in Nat /\ DOMAIN file = 1..Len(file)
      /\ pending \in Event
  BY DEF IInv, TypeOK, Writing
<1>2. CASE UNCHANGED <<file, tail>>
  BY <1>2 DEF KeptInv, Parses, Whole
<1>3. CASE tail' = "torn"
  BY <1>3 DEF Parses
<1>4. CASE tail = "clean" /\ tail' = "unterminated" /\ file' = Append(file, pending)
  <2>1. Len(file') = Len(file) + 1 /\ \A i \in 1..Len(file) : file'[i] = file[i]
    BY <1>1, <1>4
  <2>2. DOMAIN file' = 1..(Len(file) + 1)
    BY <1>1, <1>4
  <2>3. Parses' => Parses
    BY <1>1, <1>4, <2>1, <2>2 DEF Parses
  <2>4. Whole' = Len(file) /\ Whole = Len(file)
    BY <1>1, <1>4, <2>1 DEF Whole
  <2> QED
    BY <2>1, <2>3, <2>4 DEF KeptInv
<1> QED
  BY <1>2, <1>3, <1>4 DEF Interrupted

LEMMA KeptStep == IInv /\ IInv' /\ KeptInv /\ [Next]_vars => KeptInv'
<1> SUFFICES ASSUME IInv, IInv', KeptInv, [Next]_vars
             PROVE  KeptInv'
  OBVIOUS
<1>1. /\ file \in Seq(Event \cup {Garbage}) /\ Len(file) \in Nat /\ DOMAIN file = 1..Len(file)
      /\ order \in Seq(Event) /\ Len(order) \in Nat /\ DOMAIN order = 1..Len(order)
      /\ tail \in TailState /\ written \in BOOLEAN
  BY DEF IInv, TypeOK
<1>2. CASE UNCHANGED <<file, tail, order, phase, written, acknowledged>>
  BY <1>2 DEF KeptInv, AcknowledgedIsKept, Parses, Whole
<1>3. CASE WriteLine
  <2>1. /\ tail' = "clean" /\ UNCHANGED <<order, phase, acknowledged>>
        /\ file' = CASE tail = "clean"        -> Append(file, pending)
                     [] tail = "unterminated" -> [file EXCEPT ![Len(file)] = Garbage]
                     [] tail = "torn"         -> Append(file, Garbage)
    BY <1>3 DEF WriteLine, treeVars
  <2>2. AcknowledgedIsKept'
    BY <2>1 DEF KeptInv, AcknowledgedIsKept
  <2>3. CASE tail = "clean"
    <3>1. pending \in Event
      BY <1>3 DEF WriteLine, Writing, IInv, TypeOK
    <3>2. file' = Append(file, pending)
      BY <2>1, <2>3
    <3>3. /\ Len(file') = Len(file) + 1 /\ DOMAIN file' = 1..(Len(file) + 1)
          /\ \A i \in 1..Len(file) : file'[i] = file[i]
      BY <1>1, <3>1, <3>2
    <3>4. Parses' => Parses
      BY <1>1, <2>3, <3>3 DEF Parses
    <3>5. Whole' = Len(file) + 1 /\ Whole = Len(file)
      BY <2>1, <2>3, <3>3 DEF Whole
    <3>6. ASSUME Parses', NEW x \in acknowledged
          PROVE  \E i \in 1..Whole' : file'[i] = x
      <4>1. PICK i \in 1..Len(file) : file[i] = x
        BY <3>4, <3>5, <3>6 DEF KeptInv
      <4> QED
        BY <1>1, <3>3, <3>5, <4>1
    <3> QED
      BY <2>1, <2>2, <3>6 DEF KeptInv
  <2>4. CASE tail # "clean"
    <3>1. \E i \in DOMAIN file' : file'[i] = Garbage
      <4>1. CASE tail = "unterminated"
        <5>1. file # <<>> /\ Len(file) \in 1..Len(file)
          BY <1>1, <4>1 DEF IInv, FileInv
        <5>2. file' = [file EXCEPT ![Len(file)] = Garbage]
          BY <2>1, <4>1
        <5> QED
          BY <1>1, <5>1, <5>2
      <4>2. CASE tail = "torn"
        <5>1. file' = Append(file, Garbage)
          BY <2>1, <4>2
        <5>2. Len(file) + 1 \in DOMAIN file' /\ file'[Len(file) + 1] = Garbage
          BY <1>1, <5>1
        <5> QED
          BY <5>2
      <4> QED
        BY <1>1, <2>4, <4>1, <4>2 DEF TailState
    <3>2. ~Parses'
      BY <3>1 DEF Parses
    <3> QED
      BY <2>1, <2>2, <3>2 DEF KeptInv
  <2> QED
    BY <2>3, <2>4
<1>4. CASE FinishAppend
  <2>1. /\ written /\ UNCHANGED <<file, tail, phase>> /\ order' = Append(order, pending)
        /\ acknowledged' = acknowledged \cup {pending} /\ written' = FALSE
    BY <1>4 DEF FinishAppend, Apply
  <2>2. pending \in Event /\ phase = "open" /\ tail = "clean"
    BY <2>1 DEF IInv, TypeOK, AppendInv, KeptInv
  <2>3. /\ DOMAIN order' = 1..(Len(order) + 1) /\ order'[Len(order) + 1] = pending
        /\ \A i \in 1..Len(order) : order'[i] = order[i]
    BY <1>1, <2>1, <2>2
  <2>4. AcknowledgedIsKept'
    <3> SUFFICES ASSUME NEW x \in acknowledged'
                 PROVE  \E i \in DOMAIN order' : order'[i] = x
      BY DEF AcknowledgedIsKept
    <3>1. CASE x = pending
      BY <1>1, <2>3, <3>1
    <3>2. CASE x \in acknowledged
      <4>1. PICK i \in DOMAIN order : order[i] = x
        BY <2>2, <3>2 DEF KeptInv, AcknowledgedIsKept
      <4> QED
        BY <1>1, <2>3, <4>1
    <3> QED
      BY <2>1, <3>1, <3>2
  <2>5. ASSUME Parses', NEW x \in acknowledged'
        PROVE  \E i \in 1..Whole' : file'[i] = x
    <3>1. Parses /\ Whole = Len(file) /\ Whole' = Len(file)
      BY <2>1, <2>2, <2>5 DEF Parses, Whole
    <3>2. CASE x \in acknowledged
      BY <2>1, <3>1, <3>2 DEF KeptInv
    <3>3. CASE x = pending
      <4>1. file[Len(file)] = pending /\ Len(file) = Len(order) + 1
        BY <2>1, <2>2, <3>1 DEF IInv, FileInv, TreeMirrorsLog
      <4>2. Len(file) \in 1..Len(file)
        BY <1>1, <4>1
      <4> QED
        BY <2>1, <3>1, <3>3, <4>1, <4>2
    <3> QED
      BY <2>1, <3>2, <3>3
  <2> QED
    BY <2>1, <2>4, <2>5 DEF KeptInv
<1>5. CASE FailWrite
  <2>1. /\ Writing /\ Interrupted /\ UNCHANGED <<order, phase, written, acknowledged>>
    BY <1>5 DEF FailWrite, treeVars
  <2>2. ~written' /\ AcknowledgedIsKept'
    BY <2>1 DEF KeptInv, AcknowledgedIsKept, Writing
  <2> QED
    BY <2>1, <2>2, InterruptedKeeps DEF KeptInv
<1>6. CASE Crash
  <2>1. /\ IF Writing THEN Interrupted ELSE UNCHANGED <<file, tail>>
        /\ phase' = "closed" /\ written' = FALSE /\ acknowledged' = acknowledged
    BY <1>6 DEF Crash
  <2>2. AcknowledgedIsKept'
    BY <2>1 DEF AcknowledgedIsKept
  <2>3. CASE Writing
    BY <2>1, <2>2, <2>3, InterruptedKeeps DEF KeptInv
  <2>4. CASE ~Writing
    BY <2>1, <2>2, <2>4 DEF KeptInv, Parses, Whole
  <2> QED
    BY <2>3, <2>4
<1>7. CASE LoadLine
  <2>1. /\ phase = "loading" /\ UNCHANGED <<file, tail, written, acknowledged>>
        /\ phase' = "closed" \/ phase' = phase
    BY <1>7 DEF LoadLine
  <2>2. AcknowledgedIsKept'
    BY <2>1 DEF AcknowledgedIsKept
  <2> QED
    BY <2>1, <2>2 DEF KeptInv, Parses, Whole
<1>8. CASE EndLoad
  <2>1. /\ phase = "loading" /\ Len(order) = Len(file)
        /\ UNCHANGED <<file, tail, order, written, acknowledged>>
    BY <1>8 DEF EndLoad, treeVars
  <2>2. Parses /\ \A i \in DOMAIN order : order[i] = file[i]
    BY <2>1 DEF IInv, FileInv, StartsWith
  <2>3. AcknowledgedIsKept'
    <3> SUFFICES ASSUME NEW x \in acknowledged
                 PROVE  \E i \in DOMAIN order : order[i] = x
      BY <2>1 DEF AcknowledgedIsKept
    <3>1. PICK i \in 1..Whole : file[i] = x
      BY <2>2 DEF KeptInv
    <3>2. i \in DOMAIN order
      BY <1>1, <2>1, <3>1 DEF Whole
    <3> QED
      BY <2>2, <3>1, <3>2
  <2> QED
    BY <2>1, <2>3 DEF KeptInv, Parses, Whole
<1>9. CASE BeginLoad
  <2>1. /\ UNCHANGED <<file, tail, written, acknowledged>> /\ phase' \in {"loading", "closed"}
    BY <1>9 DEF BeginLoad
  <2> QED
    BY <2>1 DEF KeptInv, AcknowledgedIsKept, Parses, Whole
<1>10. CASE \E e \in Event : BeginAppend(e)
  BY <1>2, <1>10 DEF BeginAppend, treeVars
<1>11. CASE UNCHANGED vars
  BY <1>2, <1>11 DEF vars
<1> QED
  BY <1>3, <1>4, <1>5, <1>6, <1>7, <1>8, <1>9, <1>10, <1>11 DEF Next

(* No session opens without an event it once acknowledged: the file of a     *)
(* session still holds every event whose append returned, or does not load.  *)
THEOREM NothingAcknowledgedIsLost == Spec => []AcknowledgedIsKept
<1>1. Init => KeptInv
  BY DEF Init, KeptInv, AcknowledgedIsKept
<1>2. KeptInv => AcknowledgedIsKept
  BY DEF KeptInv
<1> QED
  BY Inductive, KeptStep, <1>1, <1>2, PTL DEF Spec

-----------------------------------------------------------------------------
(* What a model call is shown *)

\* A user message and a tool result hang on the node written before them, a result behind the
\* calls it answers.
NodesOK ==
  \A n \in DOMAIN nodes :
    /\ nodes[n].kind = "user" => nodes[n].parent = n - 1
    /\ nodes[n].kind = "result" =>
         /\ nodes[n].parent = n - 1 /\ n > 1
         /\ \/ nodes[n - 1].kind = "calls" /\ nodes[n].of = n - 1
            \/ nodes[n - 1].kind = "result" /\ nodes[n].of = nodes[n - 1].of

\* What a control hides ends where a turn begins.
HiddenOK == \A c \in hidden : c.to + 1 \in DOMAIN nodes /\ nodes[c.to + 1].kind = "user"

\* The calls that still miss results are the newest nodes.
CallsOK ==
  turn.calls # 0 =>
    /\ turn.step = "run" /\ turn.parent = Len(nodes) /\ Len(nodes) > 0
    /\ \/ nodes[Len(nodes)].kind = "calls" /\ turn.calls = Len(nodes)
       \/ nodes[Len(nodes)].kind = "result" /\ turn.calls = nodes[Len(nodes)].of

\* What a turn knows is in the tree, and no more updates are made than turns begin.
TurnOK ==
  /\ {turn.reminder, turn.leaf, turn.summary, turn.parent, turn.calls} \subseteq 0..Len(nodes)
  /\ made <= turns /\ (turn # NoTurn => made < turns) /\ (turn.step = "none" => turn = NoTurn)

\* Updates run in order, the first alone has begun, and the memory is what the last left.
UpdatesOK ==
  /\ \A i \in DOMAIN updates : /\ updates[i].id = made - Len(updates) + i
                               /\ updates[i].text <= Len(nodes)
                               /\ i > 1 => updates[i].step = "generate"
  /\ latest = IF updates = <<>> THEN 0 ELSE made
  /\ Len(updates) <= made
  /\ updates = <<>> => due = 0 \/ memory >= due
  /\ Len(updates) = 1 /\ updates[1].step # "generate" => updates[1].text >= due

\* A compaction waits for the newest update.
AwaitsOK ==
  /\ turn.step \in {"wait", "read"} =>
       turn.awaits \in {0, made} /\ (turn.awaits = 0 => updates = <<>>)
  /\ turn.step = "read" /\ ~turn.late => updates = <<>>

LEMMA LeastNatural ==
  ASSUME NEW S \in SUBSET Nat, S # {}
  PROVE  \E m \in S : \A n \in S : m <= n
<1> DEFINE Less == {p \in Nat \X Nat : p[1] < p[2]}
<1>1. IsWellFoundedOn(Less, Nat)
  BY NatLessThanWellFounded, Zenon DEF OpToRel
<1>2. PICK m \in S : \A n \in S : <<n, m>> \notin Less
  <2> HIDE DEF Less
  <2> QED
    BY <1>1, WFMin, Zenon
<1>3. \A n \in S : ~(n < m)
  BY <1>2
<1> QED
  BY <1>3

LEMMA LargestOf ==
  ASSUME NEW b \in Nat, NEW S \in SUBSET (1..b), S # {}
  PROVE  Max(S) \in S /\ \A x \in S : x <= Max(S)
<1> DEFINE D == {b - x : x \in S}
<1>1. D \in SUBSET Nat /\ D # {}
  <2>1. \A x \in S : b - x \in Nat
    OBVIOUS
  <2> QED
    BY <2>1
<1>2. PICK d \in D : \A e \in D : d <= e
  <2> HIDE DEF D
  <2> QED
    BY <1>1, LeastNatural
<1>3. PICK m \in S : d = b - m
  BY <1>2
<1>4. \A x \in S : m >= x
  <2> SUFFICES ASSUME NEW x \in S
               PROVE  m >= x
    OBVIOUS
  <2>1. b - x \in D
    OBVIOUS
  <2>2. d <= b - x
    BY <1>2, <2>1
  <2> QED
    BY <1>3, <2>2
<1>5. \E x \in S : \A y \in S : x >= y
  BY <1>4
<1>6. Max(S) \in S /\ \A y \in S : Max(S) >= y
  BY <1>5, Zenon DEF Max
<1> QED
  BY <1>6

LEMMA SmallestOf ==
  ASSUME NEW S \in SUBSET Nat, S # {}
  PROVE  Min(S) \in S /\ \A x \in S : Min(S) <= x
<1>1. \E x \in S : \A y \in S : x =< y
  BY LeastNatural
<1> QED
  BY <1>1, Zenon DEF Min

-----------------------------------------------------------------------------
(* The path to a leaf *)

LEMMA Parents ==
  ASSUME ContextTypeOK
  PROVE  /\ Len(nodes) \in Nat /\ DOMAIN nodes = 1..Len(nodes)
         /\ \A n \in 1..Len(nodes) : nodes[n] \in Node /\ nodes[n].parent \in 0..(n - 1)
<1>1. /\ Len(nodes) \in Nat /\ DOMAIN nodes = 1..Len(nodes)
      /\ \A n \in 1..Len(nodes) : nodes[n] \in Node
  BY DEF ContextTypeOK
<1>2. \A n \in 1..Len(nodes) : nodes[n].parent \in Nat /\ nodes[n].parent < n
  BY <1>1 DEF ContextTypeOK, Node
<1> QED
  BY <1>1, <1>2

\* f is the function up of Path, as far as k
IsUp(k, f) ==
  f = [n \in 0..k |-> IF n = 0 THEN <<>> ELSE Append(f[nodes[n].parent], n)]

LEMMA UpExists ==
  ASSUME ContextTypeOK
  PROVE  \A k \in 0..Len(nodes) : \E f : IsUp(k, f)
<1> DEFINE Bad == {k \in 0..Len(nodes) : ~\E f : IsUp(k, f)}
<1>1. /\ Len(nodes) \in Nat
      /\ \A n \in 1..Len(nodes) : nodes[n].parent \in 0..(n - 1)
  BY Parents
<1> SUFFICES ASSUME Bad # {}
             PROVE  FALSE
  OBVIOUS
<1>2. PICK k \in Bad : \A n \in Bad : k <= n
  <2>1. Bad \in SUBSET Nat
    BY <1>1
  <2> HIDE DEF Bad
  <2> QED
    BY <2>1, LeastNatural
<1>3. CASE k = 0
  <2>1. IsUp(k, [n \in 0..k |-> <<>>])
    BY <1>3 DEF IsUp
  <2> QED
    BY <1>2, <2>1
<1>4. CASE k # 0
  <2>1. k - 1 \in 0..Len(nodes) /\ k - 1 \notin Bad /\ k \in 1..Len(nodes)
    BY <1>1, <1>2, <1>4
  <2>2. PICK f : IsUp(k - 1, f)
    BY <2>1
  <2> DEFINE g == [n \in 0..k |-> IF n = k THEN Append(f[nodes[k].parent], k) ELSE f[n]]
  <2>3. ASSUME NEW n \in 0..k
        PROVE  g[n] = IF n = 0 THEN <<>> ELSE Append(g[nodes[n].parent], n)
    <3>1. CASE n = k
      <4>1. nodes[k].parent \in 0..(k - 1)
        BY <1>1, <2>1
      <4>2. g[nodes[k].parent] = f[nodes[k].parent]
        BY <1>4, <2>1, <4>1
      <4> QED
        BY <1>4, <2>1, <3>1, <4>2
    <3>2. CASE n # k
      <4>1. n \in 0..(k - 1) /\ g[n] = f[n]
        BY <2>1, <3>2, SMTT(30)
      <4>2. f[n] = IF n = 0 THEN <<>> ELSE Append(f[nodes[n].parent], n)
        BY <2>2, <4>1 DEF IsUp
      <4>3. ASSUME n # 0
            PROVE  g[nodes[n].parent] = f[nodes[n].parent]
        BY <1>1, <2>1, <4>1, <4>3
      <4> QED
        BY <4>1, <4>2, <4>3
    <3> QED
      BY <3>1, <3>2
  <2>4. IsUp(k, g)
    BY <2>3 DEF IsUp
  <2> QED
    BY <1>2, <2>4
<1> QED
  BY <1>3, <1>4

LEMMA PathEquation ==
  ASSUME ContextTypeOK
  PROVE  /\ Path(0) = <<>>
         /\ \A n \in 1..Len(nodes) : Path(n) = Append(Path(nodes[n].parent), n)
<1> DEFINE up == CHOOSE f : IsUp(Len(nodes), f)
<1>1. /\ Len(nodes) \in Nat
      /\ \A n \in 1..Len(nodes) : nodes[n].parent \in 0..Len(nodes)
  BY Parents
<1>2. \A leaf : Path(leaf) = up[leaf]
  BY DEF Path, IsUp
<1>3. IsUp(Len(nodes), up)
  BY <1>1, UpExists
<1> HIDE DEF up
<1>4. up = [n \in 0..Len(nodes) |-> IF n = 0 THEN <<>> ELSE Append(up[nodes[n].parent], n)]
  BY <1>3 DEF IsUp
<1>5. up[0] = <<>>
  BY <1>1, <1>4
<1>6. ASSUME NEW n \in 1..Len(nodes)
      PROVE  up[n] = Append(up[nodes[n].parent], n)
  <2>1. n \in 0..Len(nodes) /\ n # 0
    BY <1>1
  <2> QED
    BY <1>4, <2>1, Zenon
<1> QED
  BY <1>2, <1>5, <1>6

Increasing(s) == \A i, j \in 1..Len(s) : i < j => s[i] < s[j]

\* p leads from a root to n.
LeadsTo(p, n) ==
  /\ p \in Seq(Nat) /\ Increasing(p)
  /\ \A k \in 1..Len(p) : p[k] \in 1..n /\ nodes[p[k]].parent = IF k = 1 THEN 0 ELSE p[k - 1]
  /\ IF n = 0 THEN Len(p) = 0 ELSE Len(p) > 0 /\ p[Len(p)] = n

LEMMA LeadsOn ==
  ASSUME ContextTypeOK, NEW n \in 1..Len(nodes), NEW p, LeadsTo(p, nodes[n].parent)
  PROVE  LeadsTo(Append(p, n), n)
<1> DEFINE q == Append(p, n)
<1>1. n \in Nat /\ nodes[n].parent \in Nat /\ nodes[n].parent < n
  BY Parents
<1>2. /\ p \in Seq(Nat) /\ Len(p) \in Nat
      /\ q \in Seq(Nat) /\ Len(q) = Len(p) + 1 /\ q[Len(q)] = n
      /\ \A k \in 1..Len(p) : q[k] = p[k] /\ p[k] \in Nat
  BY <1>1 DEF LeadsTo
<1>3. \A k \in 1..Len(p) : p[k] < n /\ p[k] >= 1
  BY <1>1, <1>2 DEF LeadsTo
<1> HIDE DEF q
<1>4. Increasing(q)
  <2>1. Increasing(p)
    BY DEF LeadsTo
  <2> SUFFICES ASSUME NEW i \in 1..Len(q), NEW j \in 1..Len(q), i < j
               PROVE  q[i] < q[j]
    BY DEF Increasing
  <2> DEFINE m == Len(p)
  <2>2. m \in Nat /\ Len(q) = m + 1 /\ \A k \in 1..m : q[k] = p[k]
    BY <1>2
  <2> HIDE DEF m
  <2>3. i \in 1..m /\ (j # m + 1 => j \in 1..m)
    BY <2>2
  <2>4. i \in 1..Len(p) /\ q[i] = p[i]
    BY <2>2, <2>3 DEF m
  <2>5. CASE j = Len(q)
    BY <1>2, <1>3, <2>4, <2>5
  <2>6. CASE j # Len(q)
    <3>1. j \in 1..Len(p) /\ q[j] = p[j]
      BY <2>6, <2>2, <2>3 DEF m
    <3> QED
      BY <2>1, <2>4, <3>1 DEF Increasing
  <2> QED
    BY <2>5, <2>6
<1>5. ASSUME NEW k \in 1..Len(q)
      PROVE  q[k] \in 1..n /\ nodes[q[k]].parent = IF k = 1 THEN 0 ELSE q[k - 1]
  <2>1. CASE k = Len(q)
    <3>1. k - 1 = Len(p) /\ q[k] = n
      BY <1>2, <2>1
    <3>2. IF nodes[n].parent = 0 THEN Len(p) = 0
          ELSE Len(p) > 0 /\ p[Len(p)] = nodes[n].parent
      BY DEF LeadsTo
    <3>3. CASE k = 1
      BY <1>1, <3>1, <3>2, <3>3
    <3>4. CASE k # 1
      <4>1. Len(p) \in 1..Len(p) /\ nodes[n].parent = p[Len(p)]
        BY <1>2, <3>1, <3>2, <3>4
      <4> QED
        BY <1>1, <1>2, <3>1, <3>4, <4>1
    <3> QED
      BY <3>3, <3>4
  <2>2. CASE k # Len(q)
    <3>1. k \in 1..Len(p)
      BY <1>2, <2>2
    <3>2. k # 1 => k - 1 \in 1..Len(p)
      BY <1>2, <3>1
    <3>3. /\ p[k] \in 1..nodes[n].parent
          /\ nodes[p[k]].parent = IF k = 1 THEN 0 ELSE p[k - 1]
      BY <3>1 DEF LeadsTo
    <3>4. q[k] = p[k] /\ (k # 1 => q[k - 1] = p[k - 1])
      BY <1>2, <3>1, <3>2
    <3>5. p[k] \in 1..n
      BY <1>1, <3>3
    <3> QED
      BY <3>3, <3>4, <3>5
  <2> QED
    BY <2>1, <2>2
<1> QED
  <2>1. Len(q) > 0 /\ n # 0
    BY <1>1, <1>2
  <2>2. LeadsTo(q, n)
    BY <1>2, <1>4, <1>5, <2>1 DEF LeadsTo
  <2> QED
    BY <2>2 DEF q

LEMMA PathLeads ==
  ASSUME ContextTypeOK
  PROVE  \A n \in 0..Len(nodes) : LeadsTo(Path(n), n)
<1> DEFINE Bad == {n \in 0..Len(nodes) : ~LeadsTo(Path(n), n)}
<1>1. Len(nodes) \in Nat
  BY Parents
<1> SUFFICES ASSUME Bad # {}
             PROVE  FALSE
  OBVIOUS
<1>2. PICK n \in Bad : \A k \in Bad : n <= k
  <2>1. Bad \in SUBSET Nat
    BY <1>1
  <2> HIDE DEF Bad
  <2> QED
    BY <2>1, LeastNatural
<1>3. n # 0
  <2>1. Path(0) = <<>>
    BY PathEquation
  <2>2. LeadsTo(<<>>, 0)
    BY DEF LeadsTo, Increasing
  <2> QED
    BY <2>1, <2>2
<1>4. n \in 1..Len(nodes)
  BY <1>1, <1>3
<1>5. nodes[n].parent \in 0..(n - 1)
  BY <1>4, Parents
<1>6. nodes[n].parent \in 0..Len(nodes) /\ ~(n <= nodes[n].parent)
  BY <1>1, <1>4, <1>5
<1>7. LeadsTo(Path(nodes[n].parent), nodes[n].parent)
  BY <1>2, <1>6
<1> QED
  BY <1>4, <1>7, LeadsOn, PathEquation

-----------------------------------------------------------------------------
(* What is not hidden *)

\* f is the function kept of Visible, as far as k.
IsKept(seq, hid, k, f) ==
  f = [i \in 0..k |-> IF i = 0 THEN <<>>
                      ELSE IF seq[i] \in hid THEN f[i - 1] ELSE Append(f[i - 1], seq[i])]

LEMMA KeptExists ==
  ASSUME NEW seq \in Seq(Nat), NEW hid
  PROVE  \A k \in 0..Len(seq) : \E f : IsKept(seq, hid, k, f)
<1> DEFINE Bad == {k \in 0..Len(seq) : ~\E f : IsKept(seq, hid, k, f)}
<1>1. Len(seq) \in Nat
  OBVIOUS
<1> SUFFICES ASSUME Bad # {}
             PROVE  FALSE
  OBVIOUS
<1>2. PICK k \in Bad : \A n \in Bad : k <= n
  <2>1. Bad \in SUBSET Nat
    BY <1>1
  <2> HIDE DEF Bad
  <2> QED
    BY <2>1, LeastNatural
<1>3. CASE k = 0
  <2>1. IsKept(seq, hid, k, [n \in 0..k |-> <<>>])
    BY <1>3 DEF IsKept
  <2> QED
    BY <1>2, <2>1
<1>4. CASE k # 0
  <2>1. k - 1 \in 0..Len(seq) /\ k - 1 \notin Bad /\ k \in 1..Len(seq)
    <3>1. k \in 0..Len(seq)
      BY <1>2
    <3>2. k \in 1..Len(seq) /\ k - 1 \in 0..Len(seq) /\ ~(k <= k - 1)
      BY <1>1, <1>4, <3>1
    <3> HIDE DEF Bad
    <3> QED
      BY <1>2, <3>2
  <2>2. PICK f : IsKept(seq, hid, k - 1, f)
    BY <2>1
  <2> DEFINE last == IF seq[k] \in hid THEN f[k - 1] ELSE Append(f[k - 1], seq[k])
             g == [n \in 0..k |-> IF n = k THEN last ELSE f[n]]
  <2>3. ASSUME NEW n \in 0..k
        PROVE  g[n] = IF n = 0 THEN <<>>
                      ELSE IF seq[n] \in hid THEN g[n - 1] ELSE Append(g[n - 1], seq[n])
    <3>1. n # 0 => n - 1 \in 0..k /\ n - 1 # k /\ g[n - 1] = f[n - 1]
      BY <2>1
    <3>2. CASE n = k
      BY <1>4, <3>1, <3>2
    <3>3. CASE n # k
      <4>1. n \in 0..(k - 1) /\ g[n] = f[n]
        BY <2>1, <3>3
      <4>2. f[n] = IF n = 0 THEN <<>>
                   ELSE IF seq[n] \in hid THEN f[n - 1] ELSE Append(f[n - 1], seq[n])
        BY <2>2, <4>1 DEF IsKept
      <4> QED
        BY <3>1, <4>1, <4>2
    <3> QED
      BY <3>2, <3>3
  <2>4. IsKept(seq, hid, k, g)
    BY <2>3 DEF IsKept
  <2> QED
    BY <1>2, <2>4
<1> QED
  BY <1>3, <1>4

\* What v, made from the first k of seq, has of them
KeepsOf(seq, hid, k, v) ==
  /\ v \in Seq(Nat) /\ Increasing(v)
  /\ \A j \in 1..Len(v) : \E a \in 1..k : v[j] = seq[a] /\ seq[a] \notin hid
  /\ \A a \in 1..k : seq[a] \notin hid => \E j \in 1..Len(v) : v[j] = seq[a]

LEMMA KeepsOn ==
  ASSUME NEW seq \in Seq(Nat), Increasing(seq), NEW hid, NEW k \in 1..Len(seq), NEW v,
         KeepsOf(seq, hid, k - 1, v)
  PROVE  KeepsOf(seq, hid, k, IF seq[k] \in hid THEN v ELSE Append(v, seq[k]))
<1>1. k \in Nat /\ k - 1 \in Nat /\ Len(seq) \in Nat
  OBVIOUS
<1>2. /\ v \in Seq(Nat) /\ Increasing(v)
      /\ \A j \in 1..Len(v) : \E a \in 1..(k - 1) : v[j] = seq[a] /\ seq[a] \notin hid
      /\ \A a \in 1..(k - 1) : seq[a] \notin hid => \E j \in 1..Len(v) : v[j] = seq[a]
  BY DEF KeepsOf
<1>3. \A a \in 1..(k - 1) : a \in 1..k
  BY <1>1
<1>4. \A a \in 1..k : a = k \/ a \in 1..(k - 1)
  BY <1>1
<1>5. CASE seq[k] \in hid
  BY <1>2, <1>3, <1>4, <1>5 DEF KeepsOf
<1>6. CASE seq[k] \notin hid
  <2> DEFINE m == Len(v)
             x == seq[k]
             w == Append(v, x)
  <2>1. x \in Nat /\ m \in Nat
    BY <1>2
  <2>2. w \in Seq(Nat) /\ Len(w) = m + 1 /\ w[m + 1] = x /\ \A j \in 1..m : w[j] = v[j]
    BY <1>2, <2>1
  <2>3. \A j \in 1..m : v[j] \in Nat /\ v[j] < x
    <3> SUFFICES ASSUME NEW j \in 1..m
                 PROVE  v[j] \in Nat /\ v[j] < x
      OBVIOUS
    <3>1. PICK a \in 1..(k - 1) : v[j] = seq[a]
      BY <1>2
    <3>2. a \in 1..Len(seq) /\ a < k /\ seq[a] \in Nat
      BY <1>1
    <3> QED
      BY <3>1, <3>2 DEF Increasing
  <2>4. \A j \in 1..(m + 1) : j = m + 1 \/ j \in 1..m
    BY <2>1
  <2>5. \A j \in 1..m : v[j] = v[j] /\ j \in 1..(m + 1)
    BY <2>1
  <2>6. Increasing(v) /\ Len(v) = m
    BY <1>2
  <2> HIDE DEF m, x, w
  <2>7. Increasing(w)
    <3> SUFFICES ASSUME NEW i \in 1..(m + 1), NEW j \in 1..(m + 1), i < j
                 PROVE  w[i] < w[j]
      BY <2>2 DEF Increasing
    <3>1. i \in 1..m /\ w[i] = v[i]
      BY <2>1, <2>2
    <3>2. CASE j = m + 1
      BY <2>2, <2>3, <3>1, <3>2
    <3>3. CASE j \in 1..m
      BY <2>2, <2>6, <3>1, <3>3 DEF Increasing
    <3> QED
      BY <2>4, <3>2, <3>3
  <2>8. \A j \in 1..(m + 1) : \E a \in 1..k : w[j] = seq[a] /\ seq[a] \notin hid
    <3> SUFFICES ASSUME NEW j \in 1..(m + 1)
                 PROVE  \E a \in 1..k : w[j] = seq[a] /\ seq[a] \notin hid
      OBVIOUS
    <3>1. CASE j = m + 1
      <4>1. k \in 1..k /\ w[j] = seq[k]
        BY <1>1, <2>2, <3>1 DEF x
      <4> QED
        BY <1>6, <4>1
    <3>2. CASE j \in 1..m
      BY <1>2, <1>3, <2>2, <2>6, <3>2
    <3> QED
      BY <2>4, <3>1, <3>2
  <2>9. \A a \in 1..k : seq[a] \notin hid => \E j \in 1..(m + 1) : w[j] = seq[a]
    <3> SUFFICES ASSUME NEW a \in 1..k, seq[a] \notin hid
                 PROVE  \E j \in 1..(m + 1) : w[j] = seq[a]
      OBVIOUS
    <3>1. CASE a = k
      <4>1. m + 1 \in 1..(m + 1) /\ w[m + 1] = seq[a]
        BY <2>1, <2>2, <3>1 DEF x
      <4> QED
        BY <4>1
    <3>2. CASE a \in 1..(k - 1)
      BY <1>2, <2>2, <2>5, <2>6, <3>2
    <3> QED
      BY <1>4, <3>1, <3>2
  <2>10. KeepsOf(seq, hid, k, w)
    BY <2>2, <2>7, <2>8, <2>9 DEF KeepsOf
  <2> QED
    BY <1>6, <2>10 DEF w, x
<1> QED
  BY <1>5, <1>6

LEMMA VisibleKeeps ==
  ASSUME NEW seq \in Seq(Nat), Increasing(seq), NEW hid
  PROVE  KeepsOf(seq, hid, Len(seq), Visible(seq, hid))
<1> DEFINE kept == CHOOSE f : IsKept(seq, hid, Len(seq), f)
<1>1. Len(seq) \in Nat
  OBVIOUS
<1>2. Visible(seq, hid) = kept[Len(seq)]
  BY DEF Visible, IsKept
<1>3. IsKept(seq, hid, Len(seq), kept)
  <2>1. Len(seq) \in 0..Len(seq)
    BY <1>1
  <2>2. \E f : IsKept(seq, hid, Len(seq), f)
    BY <2>1, KeptExists
  <2> QED
    BY <2>2, Zenon
<1> HIDE DEF kept
<1>4. kept = [i \in 0..Len(seq) |-> IF i = 0 THEN <<>>
                ELSE IF seq[i] \in hid THEN kept[i - 1] ELSE Append(kept[i - 1], seq[i])]
  BY <1>3 DEF IsKept
<1>5. kept[0] = <<>>
  BY <1>1, <1>4
<1>6. ASSUME NEW i \in 1..Len(seq)
      PROVE  kept[i] = IF seq[i] \in hid THEN kept[i - 1] ELSE Append(kept[i - 1], seq[i])
  <2>1. i \in 0..Len(seq) /\ i # 0
    BY <1>1
  <2> QED
    BY <1>4, <2>1, Zenon
<1> DEFINE Bad == {i \in 0..Len(seq) : ~KeepsOf(seq, hid, i, kept[i])}
<1>7. ASSUME Bad # {}
      PROVE  FALSE
  <2>1. PICK i \in Bad : \A n \in Bad : i <= n
    <3>1. Bad \in SUBSET Nat
      BY <1>1
    <3> HIDE DEF Bad
    <3> QED
      BY <1>7, <3>1, LeastNatural
  <2>2. KeepsOf(seq, hid, 0, <<>>)
    BY DEF KeepsOf, Increasing
  <2>3. i \in 1..Len(seq)
    BY <1>1, <1>5, <2>1, <2>2
  <2>4. i - 1 \in 0..Len(seq) /\ i - 1 \notin Bad
    BY <1>1, <2>1, <2>3
  <2>5. KeepsOf(seq, hid, i - 1, kept[i - 1])
    BY <2>4
  <2> QED
    BY <1>6, <2>1, <2>3, <2>5, KeepsOn
<1> QED
  BY <1>1, <1>2, <1>7

-----------------------------------------------------------------------------
(* What buildContext returns *)

Result(n) == nodes[n].kind = "result"

\* In a path every result is right behind the node written before it.
Chain(s) ==
  /\ s \in Seq(Nat) /\ Increasing(s)
  /\ \A k \in 1..Len(s) : /\ s[k] \in 1..Len(nodes)
                          /\ Result(s[k]) => k > 1 /\ s[k - 1] = s[k] - 1

\* In a context that node comes before it.
Closed(v) ==
  /\ v \in Seq(Nat)
  /\ \A j \in 1..Len(v) : /\ v[j] \in 1..Len(nodes)
                          /\ Result(v[j]) => \E i \in 1..(j - 1) : v[i] = v[j] - 1

\* hid does not hide the node before a result unless it hides the result.
HidesBoth(s, hid) ==
  \A k \in 1..Len(s) : Result(s[k]) /\ s[k] \notin hid => s[k] - 1 \notin hid

LEMMA BeforeResult ==
  ASSUME ContextTypeOK, NodesOK, NEW n \in 1..Len(nodes), Result(n)
  PROVE  /\ n \in Nat /\ n > 1 /\ n - 1 \in 1..Len(nodes) /\ nodes[n].parent = n - 1
         /\ nodes[n - 1].kind # "compact" /\ nodes[n - 1].kind # "user"
         /\ \/ nodes[n - 1].kind = "calls" /\ nodes[n].of = n - 1
            \/ Result(n - 1) /\ nodes[n].of = nodes[n - 1].of
<1>1. n \in DOMAIN nodes /\ Len(nodes) \in Nat
  BY Parents
<1> QED
  BY <1>1 DEF NodesOK, Result

LEMMA PathChain ==
  ASSUME ContextTypeOK, NodesOK, NEW leaf \in 0..Len(nodes)
  PROVE  Chain(Path(leaf))
<1> DEFINE p == Path(leaf)
<1>1. LeadsTo(p, leaf)
  BY PathLeads
<1> HIDE DEF p
<1>2. p \in Seq(Nat) /\ Increasing(p) /\ Len(p) \in Nat /\ Len(nodes) \in Nat
  BY <1>1, Parents DEF LeadsTo
<1>3. ASSUME NEW k \in 1..Len(p)
      PROVE  p[k] \in 1..Len(nodes) /\ (Result(p[k]) => k > 1 /\ p[k - 1] = p[k] - 1)
  <2>1. p[k] \in 1..leaf /\ nodes[p[k]].parent = IF k = 1 THEN 0 ELSE p[k - 1]
    BY <1>1 DEF LeadsTo
  <2>2. p[k] \in 1..Len(nodes)
    BY <1>2, <2>1
  <2>3. ASSUME Result(p[k])
        PROVE  k > 1 /\ p[k - 1] = p[k] - 1
    <3>1. p[k] \in Nat /\ p[k] > 1 /\ nodes[p[k]].parent = p[k] - 1
      BY <2>2, <2>3, BeforeResult
    <3> QED
      BY <1>2, <2>1, <3>1
  <2> QED
    BY <2>2, <2>3
<1> QED
  BY <1>2, <1>3 DEF Chain, p

LEMMA PartOfChain ==
  ASSUME NEW s, Chain(s), NEW m \in 1..(Len(s) + 1), NEW n \in 0..Len(s),
         m <= n => ~Result(s[m])
  PROVE  /\ Chain(SubSeq(s, m, n))
         /\ \A hid : HidesBoth(s, hid) => HidesBoth(SubSeq(s, m, n), hid)
<1> DEFINE t == SubSeq(s, m, n)
           len == IF m <= n THEN n - m + 1 ELSE 0
<1>1. s \in Seq(Nat) /\ Len(s) \in Nat /\ m \in Nat /\ n \in Nat
  BY DEF Chain
<1>2. /\ t \in Seq(Nat) /\ Len(t) = len
      /\ \A k \in 1..len : t[k] = s[m + k - 1]
  BY <1>1
<1>3. len \in Nat /\ \A k \in 1..len : m + k - 1 \in 1..Len(s) /\ m <= n
  BY <1>1
<1> HIDE DEF t, len
<1>4. Increasing(t)
  <2> SUFFICES ASSUME NEW i \in 1..len, NEW j \in 1..len, i < j
               PROVE  t[i] < t[j]
    BY <1>2 DEF Increasing
  <2>1. m + i - 1 \in 1..Len(s) /\ m + j - 1 \in 1..Len(s)
    BY <1>3
  <2>2. i \in Nat /\ j \in Nat
    BY <1>3
  <2>3. m + i - 1 < m + j - 1
    BY <1>1, <2>2
  <2> QED
    BY <1>2, <2>1, <2>3 DEF Chain, Increasing
<1>5. ASSUME NEW k \in 1..len
      PROVE  t[k] \in 1..Len(nodes) /\ (Result(t[k]) => k > 1 /\ t[k - 1] = t[k] - 1)
  <2>1. m + k - 1 \in 1..Len(s) /\ t[k] = s[m + k - 1] /\ m <= n
    BY <1>2, <1>3
  <2>2. /\ t[k] \in 1..Len(nodes)
        /\ Result(t[k]) => s[(m + k - 1) - 1] = t[k] - 1
    BY <2>1 DEF Chain
  <2>3. k = 1 => t[k] = s[m]
    BY <1>1, <2>1
  <2>4. k # 1 => k > 1 /\ t[k - 1] = s[(m + k - 1) - 1]
    <3>1. k # 1 => k > 1 /\ k - 1 \in 1..len /\ m + (k - 1) - 1 = (m + k - 1) - 1
      BY <1>1, <1>3
    <3> QED
      BY <1>2, <3>1
  <2> QED
    BY <2>1, <2>2, <2>3, <2>4
<1>6. ASSUME NEW hid, HidesBoth(s, hid)
      PROVE  HidesBoth(t, hid)
  BY <1>2, <1>3, <1>6 DEF HidesBoth
<1> QED
  BY <1>2, <1>4, <1>5, <1>6 DEF Chain, t

LEMMA VisibleClosed ==
  ASSUME NEW s, Chain(s), NEW hid, HidesBoth(s, hid)
  PROVE  Closed(Visible(s, hid)) /\ Increasing(Visible(s, hid))
<1> DEFINE v == Visible(s, hid)
<1>1. s \in Seq(Nat) /\ Increasing(s) /\ Len(s) \in Nat
  BY DEF Chain
<1>2. KeepsOf(s, hid, Len(s), v)
  BY <1>1, VisibleKeeps
<1> HIDE DEF v
<1>3. /\ v \in Seq(Nat) /\ Increasing(v) /\ Len(v) \in Nat
      /\ \A j \in 1..Len(v) : \E a \in 1..Len(s) : v[j] = s[a] /\ s[a] \notin hid
      /\ \A a \in 1..Len(s) : s[a] \notin hid => \E j \in 1..Len(v) : v[j] = s[a]
  <2>1. v \in Seq(Nat)
    BY <1>2 DEF KeepsOf
  <2>2. Len(v) \in Nat
    BY <2>1
  <2> QED
    BY <1>2, <2>2 DEF KeepsOf
<1>4. ASSUME NEW j \in 1..Len(v)
      PROVE  /\ v[j] \in 1..Len(nodes)
             /\ Result(v[j]) => \E i \in 1..(j - 1) : v[i] = v[j] - 1
  <2>1. PICK a \in 1..Len(s) : v[j] = s[a] /\ s[a] \notin hid
    BY <1>3
  <2>2. v[j] \in 1..Len(nodes)
    BY <2>1 DEF Chain
  <2>3. ASSUME Result(v[j])
        PROVE  \E i \in 1..(j - 1) : v[i] = v[j] - 1
    <3>1. a > 1 /\ s[a - 1] = v[j] - 1
      BY <2>1, <2>3 DEF Chain
    <3>2. v[j] - 1 \notin hid
      BY <2>1, <2>3 DEF HidesBoth
    <3>3. a - 1 \in 1..Len(s)
      BY <1>1, <3>1
    <3>4. PICK i \in 1..Len(v) : v[i] = v[j] - 1
      BY <1>3, <3>1, <3>2, <3>3
    <3>5. v[j] \in Nat /\ v[i] < v[j]
      BY <2>2, <3>4
    <3>6. ~(j < i) /\ i # j
      <4>1. j < i => v[j] < v[i]
        BY <1>3 DEF Increasing
      <4> QED
        BY <3>4, <3>5, <4>1
    <3>7. i \in 1..(j - 1)
      BY <1>3, <3>6
    <3> QED
      BY <3>4, <3>7
  <2> QED
    BY <2>2, <2>3
<1> QED
  BY <1>3, <1>4 DEF Closed, v

LEMMA BehindClosed ==
  ASSUME ContextTypeOK, NodesOK, NEW v, Closed(v), Increasing(v)
  PROVE  Closed(Behind(v))
<1>1. v \in Seq(Nat) /\ Len(v) \in Nat /\ DOMAIN v = 1..Len(v)
  BY DEF Closed
<1>2. CASE Compacts(v) = {}
  BY <1>2 DEF Behind
<1>3. CASE Compacts(v) # {}
  <2> DEFINE M == Max(Compacts(v))
             t == SubSeq(v, M, Len(v))
             len == Len(v) - M + 1
  <2>1. M \in 1..Len(v) /\ nodes[v[M]].kind = "compact"
    <3>1. Compacts(v) \in SUBSET (1..Len(v))
      BY <1>1 DEF Compacts
    <3>2. M \in Compacts(v)
      BY <1>1, <1>3, <3>1, LargestOf
    <3> QED
      BY <1>1, <3>2 DEF Compacts
  <2>2. Behind(v) = t
    BY <1>3 DEF Behind
  <2> HIDE DEF M
  <2>3. len \in Nat /\ t \in Seq(Nat) /\ Len(t) = len /\ \A k \in 1..len : t[k] = v[M + k - 1]
    BY <1>1, <2>1
  <2>4. \A k \in 1..len : M + k - 1 \in 1..Len(v)
    BY <1>1, <2>1
  <2> HIDE DEF t, len
  <2>5. ASSUME NEW k \in 1..len
        PROVE  /\ t[k] \in 1..Len(nodes)
               /\ Result(t[k]) => \E i \in 1..(k - 1) : t[i] = t[k] - 1
    <3>1. M + k - 1 \in 1..Len(v) /\ t[k] = v[M + k - 1]
      BY <2>3, <2>4
    <3>2. t[k] \in 1..Len(nodes)
      BY <3>1 DEF Closed
    <3>3. ASSUME Result(t[k])
          PROVE  \E i \in 1..(k - 1) : t[i] = t[k] - 1
      <4>1. PICK a \in 1..((M + k - 1) - 1) : v[a] = t[k] - 1
        BY <3>1, <3>3 DEF Closed
      <4>2. nodes[v[a]].kind # "compact" /\ t[k] \in Nat
        BY <3>2, <3>3, <4>1, BeforeResult
      <4>3. a # M /\ a \in 1..Len(v) /\ k \in Nat
        <5>1. a # M
          BY <2>1, <4>2
        <5>2. k \in Nat /\ M + k - 1 \in 1..Len(v) /\ a \in 1..((M + k - 1) - 1)
          BY <2>3, <3>1, <4>1
        <5> QED
          BY <1>1, <2>1, <5>1, <5>2
      <4>4. ~(a < M)
        <5>1. SUFFICES ASSUME a < M
                       PROVE  FALSE
          OBVIOUS
        <5>2. k # 1
          <6>1. k = 1 => v[M + k - 1] = v[M]
            BY <2>1
          <6> QED
            BY <2>1, <3>1, <3>3, <6>1 DEF Result
        <5>3. M < M + k - 1
          BY <2>1, <4>3, <5>2
        <5>4. v[a] < v[M] /\ v[M] < t[k] /\ v[M] \in Nat
          BY <1>1, <2>1, <3>1, <4>3, <5>1, <5>3 DEF Increasing
        <5> QED
          BY <4>1, <4>2, <5>4
      <4>5. a - M + 1 \in 1..(k - 1) /\ a - M + 1 \in 1..len /\ M + (a - M + 1) - 1 = a
        BY <1>1, <2>1, <2>3, <4>1, <4>3, <4>4
      <4>6. t[a - M + 1] = v[a]
        BY <2>3, <4>5
      <4> QED
        BY <4>1, <4>5, <4>6
    <3> QED
      BY <3>2, <3>3
  <2> QED
    BY <2>2, <2>3, <2>5 DEF Closed
<1> QED
  BY <1>2, <1>3

LEMMA JoinedClosed ==
  ASSUME NEW v, Closed(v), NEW w, Closed(w)
  PROVE  Closed(v \o w)
<1> DEFINE u == v \o w
           m == Len(v)
           n == Len(w)
<1>1. v \in Seq(Nat) /\ w \in Seq(Nat) /\ m \in Nat /\ n \in Nat
  BY DEF Closed
<1>2. /\ u \in Seq(Nat) /\ Len(u) = m + n
      /\ \A i \in 1..m : u[i] = v[i]
      /\ \A i \in 1..n : u[m + i] = w[i]
  BY <1>1
<1> HIDE DEF u
<1>3. ASSUME NEW j \in 1..(m + n)
      PROVE  /\ u[j] \in 1..Len(nodes)
             /\ Result(u[j]) => \E i \in 1..(j - 1) : u[i] = u[j] - 1
  <2>1. CASE j \in 1..m
    <3>1. u[j] = v[j] /\ u[j] \in 1..Len(nodes)
      BY <1>2, <2>1 DEF Closed
    <3>2. ASSUME Result(u[j])
          PROVE  \E i \in 1..(j - 1) : u[i] = u[j] - 1
      <4>1. PICK i \in 1..(j - 1) : v[i] = v[j] - 1
        BY <2>1, <3>1, <3>2 DEF Closed
      <4>2. i \in 1..m
        BY <1>1, <2>1
      <4> QED
        BY <1>2, <3>1, <4>1, <4>2
    <3> QED
      BY <3>1, <3>2
  <2>2. CASE j \notin 1..m
    <3>1. j - m \in 1..n /\ m + (j - m) = j
      BY <1>1, <2>2
    <3>2. u[j] = w[j - m] /\ u[j] \in 1..Len(nodes)
      <4>1. u[m + (j - m)] = w[j - m]
        BY <1>2, <3>1
      <4> QED
        BY <3>1, <4>1 DEF Closed
    <3>3. ASSUME Result(u[j])
          PROVE  \E i \in 1..(j - 1) : u[i] = u[j] - 1
      <4>1. PICK i \in 1..((j - m) - 1) : w[i] = w[j - m] - 1
        BY <3>1, <3>2, <3>3 DEF Closed
      <4>2. i \in 1..n /\ m + i \in 1..(j - 1)
        BY <1>1, <3>1
      <4>3. u[m + i] = w[i]
        BY <1>2, <4>2
      <4> QED
        BY <3>2, <4>1, <4>2, <4>3
    <3> QED
      BY <3>2, <3>3
  <2> QED
    BY <2>1, <2>2
<1> QED
  BY <1>2, <1>3 DEF Closed, u

LEMMA RetainedClosed ==
  ASSUME ContextTypeOK, NodesOK, NEW s, Chain(s), NEW hid, HidesBoth(s, hid)
  PROVE  Closed(RetainedBefore(s, hid))
<1> DEFINE starts == {i \in DOMAIN s : i > Len(s) - Retained /\ IsRetainedStart(s[i])}
<1>1. s \in Seq(Nat) /\ Len(s) \in Nat /\ DOMAIN s = 1..Len(s)
  BY DEF Chain
<1>2. CASE starts = {}
  <2>1. RetainedBefore(s, hid) = <<>>
    BY <1>2 DEF RetainedBefore
  <2>2. Closed(<<>>)
    BY DEF Closed
  <2> QED
    BY <2>1, <2>2
<1>3. CASE starts # {}
  <2> DEFINE b == Min(starts)
             t == SubSeq(s, b, Len(s))
  <2>1. RetainedBefore(s, hid) = Behind(Visible(t, hid))
    BY <1>3 DEF RetainedBefore
  <2>2. b \in starts
    <3>1. starts \in SUBSET Nat
      BY <1>1, SMTT(30)
    <3> HIDE DEF starts
    <3> QED
      BY <1>3, <3>1, SmallestOf
  <2>3. b \in 1..Len(s) /\ ~Result(s[b])
    BY <1>1, <2>2 DEF IsRetainedStart, Result
  <2> HIDE DEF b
  <2>4. Chain(t) /\ HidesBoth(t, hid)
    <3>1. b \in 1..(Len(s) + 1) /\ Len(s) \in 0..Len(s)
      BY <1>1, <2>3
    <3> QED
      BY <2>3, <3>1, PartOfChain
  <2> HIDE DEF t
  <2> QED
    BY <2>1, <2>4, VisibleClosed, BehindClosed
<1> QED
  BY <1>2, <1>3

\* A control hides up to the node before a user message: that is not the one before a result.
LEMMA ControlsHideBoth ==
  ASSUME ContextTypeOK, NodesOK, HiddenOK, NEW leaf \in 0..Len(nodes)
  PROVE  HidesBoth(Path(leaf), HiddenIds(Path(leaf), leaf))
<1> DEFINE p == Path(leaf)
           hid == HiddenIds(p, leaf)
<1>1. Chain(p)
  BY PathChain
<1> HIDE DEF p
<1>2. p \in Seq(Nat) /\ Len(p) \in Nat /\ DOMAIN p = 1..Len(p) /\ Increasing(p)
  BY <1>1 DEF Chain
<1> SUFFICES ASSUME NEW k \in 1..Len(p), Result(p[k]), p[k] \notin hid, p[k] - 1 \in hid
             PROVE  FALSE
  BY DEF HidesBoth, p
<1>3. /\ k > 1 /\ k - 1 \in 1..Len(p) /\ p[k - 1] = p[k] - 1
      /\ p[k] \in 1..Len(nodes)
  BY <1>1, <1>2 DEF Chain
<1>4. PICK a \in 1..Len(p), c \in hidden :
        /\ p[a] = p[k] - 1 /\ c.at < leaf
        /\ \E i \in 1..a, j \in a..Len(p) : p[i] = c.from /\ p[j] = c.to
  BY <1>2 DEF HiddenIds
<1> PICK i \in 1..a, j \in a..Len(p) : p[i] = c.from /\ p[j] = c.to
  BY <1>4
<1>5. a = k - 1
  <2>1. a < k - 1 => p[a] < p[k - 1]
    BY <1>2, <1>3 DEF Increasing
  <2>2. k - 1 < a => p[k - 1] < p[a]
    BY <1>2, <1>3 DEF Increasing
  <2>3. p[a] = p[k - 1] /\ p[a] \in 1..Len(nodes) /\ Len(nodes) \in Nat
    BY <1>1, <1>3, <1>4, Parents DEF Chain
  <2>4. ~(p[a] < p[k - 1]) /\ ~(p[k - 1] < p[a])
    BY <2>3
  <2>5. a \in Nat /\ k \in Nat
    BY <1>2
  <2> QED
    BY <2>1, <2>2, <2>4, <2>5
<1>6. j = k - 1
  <2>1. SUFFICES ASSUME j # k - 1
                 PROVE  FALSE
    OBVIOUS
  <2>2. j \in k..Len(p) /\ i \in 1..k
    BY <1>2, <1>3, <1>5, <2>1
  <2>3. p[k] \in hid
    BY <1>2, <1>4, <2>2 DEF HiddenIds
  <2> QED
    BY <2>3
<1>7. c.to = p[k] - 1
  BY <1>3, <1>4, <1>6
<1>8. c.to + 1 = p[k] /\ nodes[c.to + 1].kind = "user"
  <2>1. p[k] \in Nat
    BY <1>3, Parents
  <2> QED
    BY <1>7, <2>1 DEF HiddenOK
<1> QED
  BY <1>8 DEF Result

LEMMA ContextClosed ==
  ASSUME ContextTypeOK, NodesOK, HiddenOK, NEW leaf \in 0..Len(nodes)
  PROVE  Closed(Context(leaf))
<1> DEFINE p == Path(leaf)
           hid == HiddenIds(p, leaf)
           barriers == {i \in Compacts(p) : p[i] \notin hid}
           c == Max(barriers)
           before == SubSeq(p, 1, c - 1)
           after == SubSeq(p, c + 1, Len(p))
<1>1. Chain(p) /\ HidesBoth(p, hid)
  BY PathChain, ControlsHideBoth
<1>2. Context(leaf) = IF barriers = {} THEN Visible(p, hid)
                      ELSE <<p[c]>> \o RetainedBefore(before, hid) \o Visible(after, hid)
  BY DEF Context
<1>3. p \in Seq(Nat) /\ Len(p) \in Nat /\ DOMAIN p = 1..Len(p)
  BY <1>1 DEF Chain
<1> HIDE DEF p, hid
<1>4. CASE barriers = {}
  BY <1>1, <1>2, <1>4, VisibleClosed
<1>5. CASE barriers # {}
  <2>1. barriers \in SUBSET (1..Len(p))
    BY <1>3 DEF Compacts
  <2>2. c \in barriers
    <3> HIDE DEF barriers
    <3> QED
      BY <1>3, <1>5, <2>1, LargestOf
  <2>3. c \in 1..Len(p) /\ nodes[p[c]].kind = "compact"
    BY <1>3, <2>2 DEF Compacts
  <2> HIDE DEF c
  <2>4. p[c] \in 1..Len(nodes) /\ p[c] \in Nat
    BY <1>1, <2>3 DEF Chain
  <2>5. Closed(<<p[c]>>)
    BY <2>3, <2>4 DEF Closed, Result
  <2>6. 1 <= c - 1 => ~Result(p[1])
    <3>1. 1 \in 1..Len(p) /\ ~(1 > 1)
      BY <1>3, <2>3
    <3> QED
      BY <1>1, <3>1 DEF Chain
  <2>7. Chain(before) /\ HidesBoth(before, hid)
    <3>1. 1 \in 1..(Len(p) + 1) /\ c - 1 \in 0..Len(p)
      BY <1>3, <2>3
    <3> QED
      BY <1>1, <2>6, <3>1, PartOfChain
  <2>8. ASSUME c + 1 <= Len(p)
        PROVE  ~Result(p[c + 1])
    <3>1. c + 1 \in 1..Len(p) /\ (c + 1) - 1 = c
      BY <1>3, <2>3, <2>8
    <3>2. SUFFICES ASSUME Result(p[c + 1])
                   PROVE  FALSE
      OBVIOUS
    <3>3. p[c + 1] \in 1..Len(nodes) /\ p[c] = p[c + 1] - 1
      BY <1>1, <3>1, <3>2 DEF Chain
    <3>4. nodes[p[c]].kind # "compact"
      BY <3>2, <3>3, BeforeResult
    <3> QED
      BY <2>3, <3>4
  <2>9. Chain(after) /\ HidesBoth(after, hid)
    <3>1. c + 1 \in 1..(Len(p) + 1) /\ Len(p) \in 0..Len(p)
      BY <1>3, <2>3
    <3> QED
      BY <1>1, <2>8, <3>1, PartOfChain
  <2> HIDE DEF before, after
  <2>10. Closed(RetainedBefore(before, hid)) /\ Closed(Visible(after, hid))
    BY <2>7, <2>9, RetainedClosed, VisibleClosed
  <2>11. Closed(<<p[c]>> \o RetainedBefore(before, hid) \o Visible(after, hid))
    BY <2>5, <2>10, JoinedClosed
  <2> QED
    BY <1>2, <1>5, <2>11
<1> QED
  BY <1>4, <1>5

LEMMA ClosedHasCalls ==
  ASSUME ContextTypeOK, NodesOK, NEW v, Closed(v)
  PROVE  \A j \in 1..Len(v) : Result(v[j]) => \E i \in 1..(j - 1) : v[i] = nodes[v[j]].of
<1> DEFINE Lacks(j) == Result(v[j]) /\ ~\E i \in 1..(j - 1) : v[i] = nodes[v[j]].of
           Bad == {n \in Nat : \E j \in 1..Len(v) : v[j] = n /\ Lacks(j)}
<1>1. v \in Seq(Nat) /\ Len(v) \in Nat
  BY DEF Closed
<1>2. ASSUME Bad # {}
      PROVE  FALSE
  <2>1. PICK n \in Bad : \A k \in Bad : n <= k
    <3>1. Bad \in SUBSET Nat
      OBVIOUS
    <3> HIDE DEF Bad
    <3> QED
      BY <1>2, <3>1, LeastNatural
  <2>2. PICK j \in 1..Len(v) : v[j] = n /\ Lacks(j)
    BY <2>1
  <2>3. n \in 1..Len(nodes) /\ Result(n)
    BY <2>2 DEF Closed
  <2>4. PICK i \in 1..(j - 1) : v[i] = n - 1
    BY <2>2 DEF Closed
  <2>5. i \in 1..Len(v) /\ j \in Nat
    BY <1>1, <2>4
  <2>6. n \in Nat /\ n - 1 \in Nat
    BY <2>3, BeforeResult
  <2>7. CASE nodes[n].of = n - 1
    BY <2>2, <2>4, <2>7
  <2>8. CASE Result(n - 1) /\ nodes[n].of = nodes[n - 1].of
    <3>1. n - 1 \notin Bad
      <4> HIDE DEF Bad
      <4>1. ~(n <= n - 1)
        BY <2>6
      <4> QED
        BY <2>1, <4>1
    <3>2. ~Lacks(i)
      BY <2>4, <2>5, <2>6, <3>1
    <3>3. PICK h \in 1..(i - 1) : v[h] = nodes[n].of
      BY <2>4, <2>8, <3>2
    <3>4. h \in 1..(j - 1)
      BY <2>4, <2>5
    <3> QED
      BY <2>2, <3>3, <3>4
  <2> QED
    BY <2>3, <2>7, <2>8, BeforeResult
<1>3. ASSUME NEW j \in 1..Len(v), Lacks(j)
      PROVE  FALSE
  <2>1. v[j] \in Bad
    BY <1>1, <1>3
  <2> QED
    BY <1>2, <2>1
<1> QED
  BY <1>3

-----------------------------------------------------------------------------
(* The steps *)

NodesTyped ==
  /\ nodes \in Seq(Node)
  /\ \A n \in DOMAIN nodes : nodes[n].parent < n /\ nodes[n].of < n /\ nodes[n].through < n

ContextInv ==
  /\ ContextTypeOK /\ NodesOK /\ HiddenOK /\ CallsOK /\ TurnOK /\ UpdatesOK /\ AwaitsOK
  /\ CompactionIsFresh

LEMMA TypeParts ==
  ContextTypeOK <=>
    /\ NodesTyped
    /\ hidden \subseteq Control /\ turn \in Turn /\ memory \in 0..Len(nodes)
    /\ updates \in Seq(Update) /\ latest \in 0..made /\ made \in 0..MaxTurns
    /\ due \in 0..Len(nodes) /\ turns \in 0..MaxTurns
  BY DEF ContextTypeOK, NodesTyped

LEMMA NodesGrow ==
  ASSUME nodes \in Seq(Node), NEW x \in Node, nodes' = Append(nodes, x)
  PROVE  /\ nodes' \in Seq(Node) /\ Len(nodes') = Len(nodes) + 1
         /\ DOMAIN nodes' = 1..(Len(nodes) + 1)
         /\ nodes'[Len(nodes) + 1] = x /\ \A n \in 1..Len(nodes) : nodes'[n] = nodes[n]
  OBVIOUS

\* What is written goes on where it is said to.
LEMMA NodeAdded ==
  ASSUME ContextInv, NEW kind \in Kind, NEW parent \in 0..Len(nodes), NEW of \in 0..Len(nodes),
         NEW through \in 0..Len(nodes), Add(kind, parent, of, through),
         kind = "user" => parent = Len(nodes),
         kind = "result" =>
           /\ parent = Len(nodes) /\ Len(nodes) > 0
           /\ \/ nodes[Len(nodes)].kind = "calls" /\ of = Len(nodes)
              \/ nodes[Len(nodes)].kind = "result" /\ of = nodes[Len(nodes)].of
  PROVE  /\ Len(nodes) \in Nat /\ Len(nodes') = Len(nodes) + 1
         /\ nodes'[Len(nodes) + 1] =
              [kind |-> kind, parent |-> parent, of |-> of, through |-> through]
         /\ NodesTyped' /\ NodesOK' /\ (hidden' = hidden => HiddenOK')
<1> DEFINE len == Len(nodes)
           x == [kind |-> kind, parent |-> parent, of |-> of, through |-> through]
<1>1. len \in Nat /\ DOMAIN nodes = 1..len /\ nodes \in Seq(Node)
  BY Parents DEF ContextInv, ContextTypeOK
<1>2. x \in Node
  BY <1>1 DEF Node
<1>3. /\ nodes' \in Seq(Node) /\ Len(nodes') = len + 1 /\ DOMAIN nodes' = 1..(len + 1)
      /\ nodes'[len + 1] = x /\ \A n \in 1..len : nodes'[n] = nodes[n]
  <2>1. nodes' = Append(nodes, x)
    BY SMTT(30) DEF Add
  <2> HIDE DEF x
  <2>2. nodes \in Seq(Node)
    BY <1>1
  <2> QED
    BY <1>2, <2>1, <2>2, NodesGrow
<1>4. x.kind = kind /\ x.parent = parent /\ x.of = of /\ x.through = through
  OBVIOUS
<1> HIDE DEF len, x
<1>5. \A n \in 1..(len + 1) : n = len + 1 \/ n \in 1..len
  BY <1>1
<1>6. ASSUME NEW n \in 1..(len + 1)
      PROVE  nodes'[n].parent < n /\ nodes'[n].of < n /\ nodes'[n].through < n
  <2>1. CASE n = len + 1
    <3>1. \A k \in 0..len : k < len + 1
      BY <1>1
    <3>2. parent < n /\ of < n /\ through < n
      BY <2>1, <3>1 DEF len
    <3> QED
      BY <1>3, <1>4, <2>1, <3>2
  <2>2. CASE n \in 1..len
    BY <1>1, <1>3, <2>2 DEF ContextInv, ContextTypeOK
  <2> QED
    BY <1>5, <2>1, <2>2
<1>7. ASSUME NEW n \in 1..(len + 1)
      PROVE  /\ nodes'[n].kind = "user" => nodes'[n].parent = n - 1
             /\ nodes'[n].kind = "result" =>
                  /\ nodes'[n].parent = n - 1 /\ n > 1
                  /\ \/ nodes'[n - 1].kind = "calls" /\ nodes'[n].of = n - 1
                     \/ nodes'[n - 1].kind = "result" /\ nodes'[n].of = nodes'[n - 1].of
  <2>1. CASE n = len + 1
    <3>1. n - 1 = len /\ nodes'[n] = x
      BY <1>1, <1>3, <2>1
    <3>2. len > 0 => len \in 1..len /\ nodes'[len] = nodes[len] /\ n > 1
      BY <1>1, <1>3, <2>1
    <3> QED
      BY <1>4, <3>1, <3>2 DEF len
  <2>2. CASE n \in 1..len
    <3>1. nodes'[n] = nodes[n] /\ n \in DOMAIN nodes
      BY <1>1, <1>3, <2>2
    <3>2. n > 1 => nodes'[n - 1] = nodes[n - 1]
      <4>1. n > 1 => n - 1 \in 1..len
        BY <1>1, <2>2
      <4> QED
        BY <1>3, <4>1
    <3>3. /\ nodes[n].kind = "user" => nodes[n].parent = n - 1
          /\ nodes[n].kind = "result" =>
               /\ nodes[n].parent = n - 1 /\ n > 1
               /\ \/ nodes[n - 1].kind = "calls" /\ nodes[n].of = n - 1
                  \/ nodes[n - 1].kind = "result" /\ nodes[n].of = nodes[n - 1].of
      BY <3>1 DEF ContextInv, NodesOK
    <3> QED
      BY <3>1, <3>2, <3>3
  <2> QED
    BY <1>5, <2>1, <2>2
<1>8. hidden' = hidden => HiddenOK'
  <2> SUFFICES ASSUME hidden' = hidden, NEW c \in hidden
               PROVE  c.to + 1 \in DOMAIN nodes' /\ nodes'[c.to + 1].kind = "user"
    BY DEF HiddenOK
  <2>1. c.to + 1 \in 1..len /\ nodes[c.to + 1].kind = "user"
    BY <1>1 DEF ContextInv, HiddenOK
  <2>2. c.to + 1 \in 1..(len + 1)
    BY <1>1, <2>1
  <2> QED
    BY <1>3, <2>1, <2>2
<1>9. NodesTyped'
  BY <1>3, <1>6 DEF NodesTyped
<1>10. NodesOK'
  BY <1>3, <1>7 DEF NodesOK
<1> QED
  BY <1>1, <1>3, <1>8, <1>9, <1>10 DEF len, x

\* A step beside the session memory
LEMMA BesideMemory ==
  ASSUME ContextInv, UNCHANGED <<memory, updates, latest, made, due>>,
         NodesTyped', NodesOK', HiddenOK', hidden' \subseteq Control,
         Len(nodes') \in Nat, Len(nodes) <= Len(nodes'),
         turn' \in Turn, turns' \in 0..MaxTurns,
         TurnOK', CallsOK', AwaitsOK', CompactionIsFresh'
  PROVE  ContextInv'
<1>1. Len(nodes) \in Nat
  BY Parents DEF ContextInv
<1>2. memory' \in 0..Len(nodes') /\ due' \in 0..Len(nodes')
  BY <1>1 DEF ContextInv, ContextTypeOK
<1>3. ContextTypeOK'
  BY <1>2 DEF ContextInv, ContextTypeOK, NodesTyped
<1>4. UpdatesOK'
  <2>1. \A i \in DOMAIN updates : updates[i].text \in Nat
    <3>1. updates \in Seq(Update)
      BY DEF ContextInv, ContextTypeOK
    <3>2. \A i \in DOMAIN updates : updates[i] \in Update
      BY <3>1
    <3> QED
      BY <3>2 DEF Update
  <2>2. \A i \in DOMAIN updates : updates[i].text <= Len(nodes')
    BY <1>1, <2>1 DEF ContextInv, UpdatesOK
  <2> QED
    BY <2>2 DEF ContextInv, UpdatesOK
<1> QED
  BY <1>3, <1>4 DEF ContextInv

\* A step that changes the turn only
LEMMA TurnOnly ==
  ASSUME ContextInv, UNCHANGED <<nodes, hidden, memory, updates, latest, made, due>>,
         turn' \in Turn, turns' \in 0..MaxTurns,
         TurnOK', CallsOK', AwaitsOK', CompactionIsFresh'
  PROVE  ContextInv'
<1>1. Len(nodes) \in Nat /\ Len(nodes') = Len(nodes)
  BY Parents DEF ContextInv
<1>2. NodesTyped' /\ NodesOK' /\ HiddenOK' /\ hidden' \subseteq Control
  BY DEF ContextInv, ContextTypeOK, NodesTyped, NodesOK, HiddenOK
<1> QED
  BY <1>1, <1>2, BesideMemory

\* A step of the session memory's updates
LEMMA MemoryOnly ==
  ASSUME ContextInv, UNCHANGED <<nodes, hidden, turn, made, turns>>, updates # <<>>,
         memory' \in 0..Len(nodes), updates' \in Seq(Update), latest' \in 0..made,
         due' \in {0, due}, UpdatesOK'
  PROVE  ContextInv'
<1>1. due \in 0..Len(nodes) /\ 0 \in 0..Len(nodes) /\ Len(nodes) \in Nat
  BY Parents DEF ContextInv, ContextTypeOK
<1>2. ContextTypeOK'
  BY <1>1 DEF ContextInv, ContextTypeOK
<1>3. NodesOK' /\ HiddenOK' /\ CallsOK' /\ TurnOK'
  BY DEF ContextInv, NodesOK, HiddenOK, CallsOK, TurnOK
<1>4. AwaitsOK'
  BY DEF ContextInv, AwaitsOK
<1>5. CompactionIsFresh'
  BY DEF ContextInv, CompactionIsFresh
<1> QED
  BY <1>2, <1>3, <1>4, <1>5 DEF ContextInv

LEMMA NoTurnTyped == NoTurn \in Turn /\ NoTurn.step = "none" /\ NoTurn.calls = 0
  BY DEF NoTurn, Turn, Step

LEMMA BeginTurnInv ==
  ASSUME ContextInv, NEW reminder \in 0..Len(nodes), BeginTurn(reminder)
  PROVE  ContextInv'
<1> USE DEF BeginTurn
<1>1. Len(nodes) \in Nat /\ turns \in 0..MaxTurns /\ made \in Nat /\ turns \in Nat
  BY Parents DEF ContextInv, ContextTypeOK
<1>2. turns' \in 0..MaxTurns
  BY <1>1, ContextAssumption DEF ContextAssumption
<1>3. turn' = [NoTurn EXCEPT !.step = "check", !.reminder = reminder]
  OBVIOUS
<1>4. /\ turn' \in Turn /\ turn'.step = "check" /\ turn'.calls = 0 /\ turn'.reminder = reminder
      /\ turn'.leaf = 0 /\ turn'.summary = 0 /\ turn'.parent = 0
  <2>1. "check" \in Step /\ reminder \in Nat
    BY <1>1 DEF Step
  <2>2. NoTurn \in Turn /\ NoTurn.leaf = 0 /\ NoTurn.summary = 0 /\ NoTurn.parent = 0
    BY NoTurnTyped DEF NoTurn
  <2> QED
    BY <1>3, <2>1, <2>2, NoTurnTyped DEF Turn
<1>5. TurnOK' /\ CallsOK' /\ AwaitsOK' /\ CompactionIsFresh'
  <2>1. made <= turns /\ turns' = turns + 1
    BY DEF ContextInv, TurnOK
  <2> QED
    BY <1>1, <1>4, <2>1 DEF TurnOK, CallsOK, AwaitsOK, CompactionIsFresh, NoTurn
<1> QED
  BY <1>2, <1>4, <1>5, TurnOnly

LEMMA AddHarnessInv ==
  ASSUME ContextInv, AddHarness
  PROVE  ContextInv'
<1> USE DEF AddHarness
<1>1. /\ Len(nodes) \in Nat /\ Len(nodes') = Len(nodes) + 1
      /\ NodesTyped' /\ NodesOK' /\ HiddenOK'
  <2>1. "harness" \in Kind /\ Len(nodes) \in 0..Len(nodes) /\ 0 \in 0..Len(nodes)
    BY Parents DEF ContextInv, Kind
  <2> QED
    BY <2>1, NodeAdded DEF ActiveLeaf
<1>2. turn \in Turn /\ turns \in 0..MaxTurns /\ hidden \subseteq Control
  BY DEF ContextInv, ContextTypeOK
<1>3. turn.calls = 0 /\ turn.step \in {"none", "check"}
  BY DEF ContextInv, CallsOK
<1>4. TurnOK' /\ CallsOK' /\ AwaitsOK' /\ CompactionIsFresh'
  BY <1>1, <1>3 DEF ContextInv, TurnOK, CallsOK, AwaitsOK, CompactionIsFresh
<1> QED
  BY <1>1, <1>2, <1>4, BesideMemory

LEMMA NoCompactInv ==
  ASSUME ContextInv, NoCompact
  PROVE  ContextInv'
<1> USE DEF NoCompact
<1>1. turn \in Turn /\ turns \in 0..MaxTurns
  BY DEF ContextInv, ContextTypeOK
<1>2. turn.calls = 0
  BY DEF ContextInv, CallsOK
<1>3. /\ turn' \in Turn /\ turn'.step = "start" /\ turn'.calls = 0
      /\ UNCHANGED <<turn.reminder, turn.leaf, turn.summary, turn.parent>>
  BY <1>1, <1>2 DEF Turn, Step
<1>4. TurnOK' /\ CallsOK' /\ AwaitsOK' /\ CompactionIsFresh'
  BY <1>2, <1>3, NoTurnTyped
  DEF ContextInv, TurnOK, CallsOK, AwaitsOK, CompactionIsFresh
<1> QED
  BY <1>1, <1>3, <1>4, TurnOnly

LEMMA BeginCompactInv ==
  ASSUME ContextInv, BeginCompact
  PROVE  ContextInv'
<1> USE DEF BeginCompact
<1>1. /\ turn \in Turn /\ turns \in 0..MaxTurns /\ Len(nodes) \in Nat
      /\ latest \in Nat
  BY Parents DEF ContextInv, ContextTypeOK
<1>2. turn.calls = 0
  BY DEF ContextInv, CallsOK
<1>3. /\ turn' \in Turn /\ turn'.step = "wait" /\ turn'.calls = 0 /\ turn'.leaf = Len(nodes)
      /\ turn'.awaits = latest
      /\ UNCHANGED <<turn.reminder, turn.summary, turn.parent>>
  BY <1>1, <1>2 DEF Turn, Step, ActiveLeaf
<1>4. TurnOK' /\ CallsOK' /\ CompactionIsFresh'
  BY <1>1, <1>2, <1>3, NoTurnTyped DEF ContextInv, TurnOK, CallsOK, CompactionIsFresh
<1>5. AwaitsOK'
  <2>1. latest = IF updates = <<>> THEN 0 ELSE made
    BY DEF ContextInv, UpdatesOK
  <2>2. updates # <<>> => made # 0
    <3>1. updates \in Seq(Update) /\ Len(updates) <= made /\ made \in Nat
      BY DEF ContextInv, ContextTypeOK, UpdatesOK
    <3> QED
      BY <3>1
  <2> QED
    BY <1>3, <2>1, <2>2 DEF AwaitsOK
<1> QED
  BY <1>1, <1>3, <1>4, <1>5, TurnOnly

\* The update waited for is over, so none is under way.
LEMMA WaitedInv ==
  ASSUME ContextInv, Waited
  PROVE  ContextInv'
<1> USE DEF Waited
<1>1. turn \in Turn /\ turns \in 0..MaxTurns
  BY DEF ContextInv, ContextTypeOK
<1>2. turn.calls = 0
  BY SMTT(30) DEF ContextInv, CallsOK
<1> DEFINE over == \A i \in DOMAIN updates : updates[i].id # turn.awaits
<1>3. PICK late \in BOOLEAN : /\ ~over => late
                              /\ turn' = [turn EXCEPT !.step = "read", !.late = late /\ ~over]
  OBVIOUS
<1>4. (late /\ ~over) \in BOOLEAN
  OBVIOUS
<1>5. /\ turn' \in Turn /\ turn'.step = "read" /\ turn'.calls = 0
      /\ turn'.late = (late /\ ~over)
      /\ UNCHANGED <<turn.reminder, turn.leaf, turn.summary, turn.parent, turn.awaits>>
  <2> HIDE DEF over
  <2> QED
    BY <1>1, <1>2, <1>3, <1>4 DEF Turn, Step
<1>6. TurnOK' /\ CallsOK' /\ CompactionIsFresh'
  BY <1>2, <1>5, NoTurnTyped DEF ContextInv, TurnOK, CallsOK, CompactionIsFresh
<1>7. over => updates = <<>>
  <2> SUFFICES ASSUME over, updates # <<>>
               PROVE  FALSE
    OBVIOUS
  <2>1. updates \in Seq(Update) /\ made \in Nat
    BY DEF ContextInv, ContextTypeOK
  <2>2. Len(updates) \in Nat /\ Len(updates) \in DOMAIN updates
    BY <2>1
  <2>3. updates[Len(updates)].id = made
    BY <2>1, <2>2 DEF ContextInv, UpdatesOK
  <2>4. turn.awaits = made
    BY DEF ContextInv, AwaitsOK
  <2> QED
    BY <2>2, <2>3, <2>4
<1>8. AwaitsOK'
  <2>1. turn.awaits \in {0, made} /\ (turn.awaits = 0 => updates = <<>>)
    BY DEF ContextInv, AwaitsOK
  <2>2. ~turn'.late => over
    BY <1>3, <1>5
  <2> HIDE DEF over
  <2> QED
    BY <1>5, <1>7, <2>1, <2>2 DEF AwaitsOK
<1> QED
  BY <1>1, <1>5, <1>6, <1>8, TurnOnly

LEMMA ReadMemoryInv ==
  ASSUME ContextInv, ReadMemory
  PROVE  ContextInv'
<1> USE DEF ReadMemory
<1>1. turn \in Turn /\ turns \in 0..MaxTurns /\ memory \in Nat /\ memory \in 0..Len(nodes)
  BY Parents DEF ContextInv, ContextTypeOK
<1>2. turn.calls = 0
  BY DEF ContextInv, CallsOK
<1>3. /\ turn' \in Turn /\ turn'.calls = 0 /\ turn'.step \in {"summarise", "append"}
      /\ turn'.step = "append" => turn'.summary = memory
      /\ turn'.summary \in {turn.summary, memory}
      /\ UNCHANGED <<turn.reminder, turn.leaf, turn.parent, turn.late>>
  BY <1>1, <1>2 DEF Turn, Step
<1>4. TurnOK'
  BY <1>1, <1>2, <1>3, NoTurnTyped DEF ContextInv, TurnOK
<1>5. CallsOK' /\ AwaitsOK'
  BY <1>3 DEF CallsOK, AwaitsOK
<1>6. CompactionIsFresh'
  <2>1. ~turn.late => updates = <<>> /\ (due = 0 \/ memory >= due)
    BY DEF ContextInv, AwaitsOK, UpdatesOK
  <2> QED
    BY <1>3, <2>1 DEF CompactionIsFresh
<1> QED
  BY <1>1, <1>3, <1>4, <1>5, <1>6, TurnOnly

LEMMA SummariseInv ==
  ASSUME ContextInv, Summarise
  PROVE  ContextInv'
<1> USE DEF Summarise
<1>1. turn \in Turn /\ turns \in 0..MaxTurns /\ Len(nodes) \in Nat /\ due \in 0..Len(nodes)
  BY Parents DEF ContextInv, ContextTypeOK
<1>2. turn.calls = 0
  BY DEF ContextInv, CallsOK
<1>3. /\ turn' \in Turn /\ turn'.calls = 0 /\ turn'.step = "append" /\ turn'.summary = Len(nodes)
      /\ UNCHANGED <<turn.reminder, turn.leaf, turn.parent>>
  BY <1>1, <1>2 DEF Turn, Step, Now
<1>4. TurnOK'
  BY <1>1, <1>2, <1>3, NoTurnTyped DEF ContextInv, TurnOK
<1>5. CallsOK' /\ AwaitsOK' /\ CompactionIsFresh'
  BY <1>1, <1>3 DEF CallsOK, AwaitsOK, CompactionIsFresh
<1> QED
  BY <1>1, <1>3, <1>4, <1>5, TurnOnly

LEMMA AppendCompactInv ==
  ASSUME ContextInv, AppendCompact
  PROVE  ContextInv'
<1> USE DEF AppendCompact
<1>1. turn \in Turn /\ turns \in 0..MaxTurns /\ hidden \subseteq Control
  BY DEF ContextInv, ContextTypeOK
<1>2. turn.calls = 0
  BY DEF ContextInv, CallsOK
<1>3. /\ Len(nodes) \in Nat /\ Len(nodes') = Len(nodes) + 1
      /\ NodesTyped' /\ NodesOK' /\ HiddenOK'
  <2>1. /\ "compact" \in Kind /\ 0 \in 0..Len(nodes)
        /\ turn.leaf \in 0..Len(nodes) /\ turn.summary \in 0..Len(nodes)
    BY Parents DEF ContextInv, TurnOK, Kind
  <2> QED
    BY <2>1, NodeAdded
<1>4. /\ turn' \in Turn /\ turn'.calls = 0 /\ turn'.step = "start"
      /\ UNCHANGED <<turn.reminder, turn.leaf, turn.parent, turn.summary>>
  BY <1>1, <1>2 DEF Turn, Step
<1>5. TurnOK'
  BY <1>2, <1>3, <1>4, NoTurnTyped DEF ContextInv, TurnOK
<1>6. CallsOK' /\ AwaitsOK' /\ CompactionIsFresh'
  BY <1>4 DEF CallsOK, AwaitsOK, CompactionIsFresh
<1> QED
  BY <1>1, <1>3, <1>4, <1>5, <1>6, BesideMemory

LEMMA StartRunInv ==
  ASSUME ContextInv, StartRun
  PROVE  ContextInv'
<1> USE DEF StartRun
<1>1. /\ turn \in Turn /\ turns \in 0..MaxTurns /\ hidden \subseteq Control
      /\ turn.reminder \in 0..Len(nodes) /\ turn.reminder \in Nat /\ Len(nodes) \in Nat
  BY Parents DEF ContextInv, ContextTypeOK, TurnOK
<1>2. turn.calls = 0
  BY DEF ContextInv, CallsOK
<1>3. /\ turn' \in Turn /\ turn'.calls = 0 /\ turn'.step = "run"
      /\ UNCHANGED <<turn.reminder, turn.leaf, turn.summary>>
      /\ turn'.parent = IF turn.reminder # 0 THEN turn.reminder ELSE Len(nodes) + 1
  <2> DEFINE parent == IF turn.reminder # 0 THEN turn.reminder ELSE Len(nodes) + 1
  <2>1. parent \in Nat /\ "run" \in Step
    BY <1>1 DEF Step
  <2>2. turn' = [turn EXCEPT !.step = "run", !.parent = parent]
    BY DEF Now
  <2> HIDE DEF parent
  <2>3. /\ turn' \in Turn /\ turn'.calls = 0 /\ turn'.step = "run" /\ turn'.parent = parent
        /\ UNCHANGED <<turn.reminder, turn.leaf, turn.summary>>
    BY <1>1, <1>2, <2>1, <2>2 DEF Turn
  <2> QED
    BY <2>3 DEF parent
<1>4. CallsOK' /\ AwaitsOK' /\ CompactionIsFresh'
  BY <1>3 DEF CallsOK, AwaitsOK, CompactionIsFresh
<1>5. CASE turn.reminder # 0
  <2>1. TurnOK'
    BY <1>1, <1>2, <1>3, <1>5, NoTurnTyped DEF ContextInv, TurnOK
  <2> QED
    BY <1>1, <1>3, <1>4, <1>5, <2>1, TurnOnly
<1>6. CASE turn.reminder = 0
  <2>1. Len(nodes') = Len(nodes) + 1 /\ NodesTyped' /\ NodesOK' /\ HiddenOK'
    <3>1. "user" \in Kind /\ Len(nodes) \in 0..Len(nodes) /\ 0 \in 0..Len(nodes)
      BY <1>1 DEF Kind
    <3> QED
      BY <1>6, <3>1, NodeAdded DEF ActiveLeaf
  <2>2. TurnOK'
    BY <1>1, <1>2, <1>3, <1>6, <2>1, NoTurnTyped DEF ContextInv, TurnOK
  <2> QED
    BY <1>1, <1>3, <1>4, <2>1, <2>2, BesideMemory
<1> QED
  BY <1>5, <1>6

LEMMA RoundInv ==
  ASSUME ContextInv, NEW kind \in Kind, Round(kind)
  PROVE  ContextInv'
<1>1. /\ turn \in Turn /\ turns \in 0..MaxTurns /\ hidden \subseteq Control
      /\ Len(nodes) \in Nat /\ Len(nodes) + 1 \in Nat /\ 0 \in 0..Len(nodes)
      /\ {turn.reminder, turn.leaf, turn.summary, turn.parent, turn.calls} \subseteq 0..Len(nodes)
  BY Parents DEF ContextInv, ContextTypeOK, TurnOK
<1>2. turn.step = "run" /\ UNCHANGED <<hidden, memory, updates, latest, made, due, turns>>
  BY DEF Round
<1> DEFINE Goes(calls) ==
             /\ Len(nodes') = Len(nodes) + 1 /\ NodesTyped' /\ NodesOK' /\ HiddenOK'
             /\ turn' = [turn EXCEPT !.parent = Len(nodes) + 1, !.calls = calls]
             /\ calls \in 0..(Len(nodes) + 1)
             /\ calls # 0 =>
                  \/ nodes'[Len(nodes) + 1].kind = "calls" /\ calls = Len(nodes) + 1
                  \/ nodes'[Len(nodes) + 1].kind = "result" /\ calls = nodes'[Len(nodes) + 1].of
<1>3. \A calls : Goes(calls) => ContextInv'
  <2> SUFFICES ASSUME NEW calls, Goes(calls)
               PROVE  ContextInv'
    OBVIOUS
  <2>1. calls \in Nat
    BY <1>1
  <2>2. /\ turn' \in Turn /\ turn'.step = "run" /\ turn'.parent = Len(nodes')
        /\ turn'.calls = calls /\ UNCHANGED <<turn.reminder, turn.leaf, turn.summary>>
    BY <1>1, <1>2, <2>1 DEF Turn
  <2>3. CallsOK'
    BY <1>1, <2>2 DEF CallsOK
  <2>4. TurnOK'
    BY <1>1, <1>2, <2>2, NoTurnTyped DEF ContextInv, TurnOK
  <2>5. AwaitsOK' /\ CompactionIsFresh'
    BY <2>2 DEF AwaitsOK, CompactionIsFresh
  <2> QED
    BY <1>1, <1>2, <2>2, <2>3, <2>4, <2>5, BesideMemory
<1>4. CASE /\ kind = "calls" /\ turn.calls = 0 /\ Add(kind, turn.parent, 0, 0)
           /\ turn' = [turn EXCEPT !.parent = Now + 1, !.calls = Now + 1]
  <2>1. /\ Len(nodes') = Len(nodes) + 1 /\ nodes'[Len(nodes) + 1].kind = "calls"
        /\ NodesTyped' /\ NodesOK' /\ HiddenOK'
    <3>1. /\ turn.parent \in 0..Len(nodes) /\ kind # "user" /\ kind # "result"
      BY <1>1, <1>4
    <3>2. nodes'[Len(nodes) + 1] =
            [kind |-> kind, parent |-> turn.parent, of |-> 0, through |-> 0]
      BY <1>1, <1>4, <3>1, NodeAdded
    <3>3. Len(nodes') = Len(nodes) + 1 /\ NodesTyped' /\ NodesOK' /\ HiddenOK'
      BY <1>1, <1>2, <1>4, <3>1, NodeAdded
    <3> QED
      BY <1>4, <3>2, <3>3
  <2>2. Goes(Len(nodes) + 1)
    BY <1>1, <1>4, <2>1 DEF Now
  <2> HIDE DEF Goes
  <2> QED
    BY <1>3, <2>2
<1>5. CASE /\ kind = "result" /\ turn.calls # 0 /\ Add(kind, turn.parent, turn.calls, 0)
           /\ \E more \in BOOLEAN :
                turn' = [turn EXCEPT !.parent = Now + 1, !.calls = IF more THEN @ ELSE 0]
  <2>1. /\ turn.parent = Len(nodes) /\ Len(nodes) > 0
        /\ \/ nodes[Len(nodes)].kind = "calls" /\ turn.calls = Len(nodes)
           \/ nodes[Len(nodes)].kind = "result" /\ turn.calls = nodes[Len(nodes)].of
    BY <1>5 DEF ContextInv, CallsOK
  <2>2. /\ Len(nodes') = Len(nodes) + 1
        /\ nodes'[Len(nodes) + 1].kind = "result" /\ nodes'[Len(nodes) + 1].of = turn.calls
        /\ NodesTyped' /\ NodesOK' /\ HiddenOK'
    <3>1. /\ turn.parent \in 0..Len(nodes) /\ turn.calls \in 0..Len(nodes) /\ kind # "user"
      BY <1>1, <1>5
    <3>2. nodes'[Len(nodes) + 1] =
            [kind |-> kind, parent |-> turn.parent, of |-> turn.calls, through |-> 0]
      BY <1>1, <1>5, <2>1, <3>1, NodeAdded
    <3>3. Len(nodes') = Len(nodes) + 1 /\ NodesTyped' /\ NodesOK' /\ HiddenOK'
      BY <1>1, <1>2, <1>5, <2>1, <3>1, NodeAdded
    <3> QED
      BY <1>5, <3>2, <3>3
  <2>3. PICK calls \in {turn.calls, 0} :
          turn' = [turn EXCEPT !.parent = Len(nodes) + 1, !.calls = calls]
    BY <1>5 DEF Now
  <2>4. Goes(calls)
    BY <1>1, <2>2, <2>3
  <2> HIDE DEF Goes
  <2> QED
    BY <1>3, <2>4
<1>6. CASE /\ kind = "harness" /\ turn.calls = 0 /\ Add(kind, turn.parent, 0, 0)
           /\ turn' = [turn EXCEPT !.parent = Now + 1]
  <2>1. Len(nodes') = Len(nodes) + 1 /\ NodesTyped' /\ NodesOK' /\ HiddenOK'
    BY <1>1, <1>2, <1>6, NodeAdded
  <2>2. turn' = [turn EXCEPT !.parent = Len(nodes) + 1, !.calls = 0]
    BY <1>1, <1>6 DEF Now, Turn
  <2>3. Goes(0)
    BY <1>1, <2>1, <2>2
  <2> HIDE DEF Goes
  <2> QED
    BY <1>3, <2>3
<1> QED
  BY <1>4, <1>5, <1>6 DEF Round

\* A user message hangs on the node written before it: the turn that Snip hides ends there.
LEMMA SnipInv ==
  ASSUME ContextInv, NEW n \in DOMAIN nodes, Snip(n)
  PROVE  ContextInv'
<1> DEFINE path == Path(ActiveLeaf)
           users == {i \in DOMAIN path : nodes[path[i]].kind = "user"}
<1>1. PICK i \in users :
        /\ path[i] = n
        /\ {j \in users : j > i} # {}
        /\ hidden' = hidden \cup
             {[from |-> n, to |-> path[Min({j \in users : j > i}) - 1], at |-> Now]}
  BY DEF Snip
<1>2. UNCHANGED <<nodes, turn, memory, updates, latest, made, due, turns>>
  BY DEF Snip
<1>3. /\ Len(nodes) \in Nat /\ DOMAIN nodes = 1..Len(nodes)
      /\ ContextTypeOK /\ NodesOK /\ HiddenOK /\ hidden \subseteq Control
  BY Parents DEF ContextInv, ContextTypeOK
<1>4. LeadsTo(path, Len(nodes))
  BY <1>3, PathLeads DEF ActiveLeaf
<1> HIDE DEF path
<1>5. /\ path \in Seq(Nat) /\ Len(path) \in Nat /\ DOMAIN path = 1..Len(path)
      /\ \A k \in 1..Len(path) : /\ path[k] \in 1..Len(nodes)
                                 /\ nodes[path[k]].parent = IF k = 1 THEN 0 ELSE path[k - 1]
  BY <1>4 DEF LeadsTo
<1> DEFINE after == {j \in users : j > i}
           last == Min(after)
<1>6. last \in users /\ last > i /\ i \in 1..Len(path) /\ last \in 1..Len(path)
  <2>1. after \in SUBSET Nat
    BY <1>5
  <2>2. Min(after) \in after
    <3> HIDE DEF after
    <3> QED
      BY <1>1, <2>1, SmallestOf DEF after
  <2> QED
    BY <1>5, <2>2
<1> HIDE DEF last
<1> DEFINE to == path[last - 1]
<1>7. /\ path[last] \in 1..Len(nodes) /\ nodes[path[last]].kind = "user"
      /\ nodes[path[last]].parent = to
  <2>1. nodes[path[last]].kind = "user" /\ last # 1
    BY <1>5, <1>6
  <2>2. nodes[path[last]].parent = IF last = 1 THEN 0 ELSE path[last - 1]
    BY <1>5, <1>6
  <2> QED
    BY <1>5, <1>6, <2>1, <2>2
<1>8. to + 1 = path[last] /\ to \in Nat
  <2>1. nodes[path[last]].parent = path[last] - 1
    BY <1>3, <1>7 DEF NodesOK
  <2> HIDE DEF to
  <2> QED
    BY <1>7, <2>1
<1>9. hidden' = hidden \cup {[from |-> n, to |-> to, at |-> Len(nodes)]}
  BY <1>1 DEF last, Now
<1>10. n \in Nat
  BY <1>3
<1> HIDE DEF to
<1>11. hidden' \subseteq Control
  BY <1>3, <1>8, <1>9, <1>10 DEF Control
<1>12. HiddenOK'
  <2> SUFFICES ASSUME NEW c \in hidden'
               PROVE  c.to + 1 \in DOMAIN nodes /\ nodes[c.to + 1].kind = "user"
    BY <1>2 DEF HiddenOK
  <2>1. CASE c \in hidden
    BY <1>3, <2>1 DEF HiddenOK
  <2>2. CASE c.to = to
    BY <1>3, <1>7, <1>8, <2>2
  <2> QED
    BY <1>9, <2>1, <2>2
<1>13. TurnOK' /\ CallsOK' /\ AwaitsOK' /\ CompactionIsFresh' /\ NodesTyped' /\ NodesOK'
  BY <1>2 DEF ContextInv, ContextTypeOK, NodesTyped, NodesOK, TurnOK, CallsOK, AwaitsOK,
              CompactionIsFresh
<1>14. turn' \in Turn /\ turns' \in 0..MaxTurns /\ Len(nodes') \in Nat /\ Len(nodes) <= Len(nodes')
  BY <1>2, <1>3 DEF ContextInv, ContextTypeOK
<1> QED
  BY <1>2, <1>11, <1>12, <1>13, <1>14, BesideMemory

LEMMA FailTurnInv ==
  ASSUME ContextInv, FailTurn
  PROVE  ContextInv'
<1>1. turn' = NoTurn /\ UNCHANGED <<nodes, hidden, memory, updates, latest, made, due, turns>>
  BY DEF FailTurn
<1>2. turns \in 0..MaxTurns /\ Len(nodes) \in Nat
  BY Parents DEF ContextInv, ContextTypeOK
<1>3. TurnOK' /\ CallsOK' /\ AwaitsOK' /\ CompactionIsFresh'
  BY <1>1, <1>2 DEF ContextInv, TurnOK, CallsOK, AwaitsOK, CompactionIsFresh, NoTurn
<1> QED
  BY <1>1, <1>2, <1>3, NoTurnTyped, TurnOnly

LEMMA UpdatesGrow ==
  ASSUME NEW x \in Update, updates \in Seq(Update), updates' = Append(updates, x)
  PROVE  /\ updates' \in Seq(Update) /\ Len(updates') = Len(updates) + 1
         /\ DOMAIN updates' = 1..(Len(updates) + 1)
         /\ updates'[Len(updates) + 1] = x
         /\ \A i \in 1..Len(updates) : updates'[i] = updates[i]
  OBVIOUS

LEMMA CompleteTurnInv ==
  ASSUME ContextInv, CompleteTurn
  PROVE  ContextInv'
<1>1. /\ turn.step = "run" /\ turn.calls = 0 /\ Add("reply", turn.parent, 0, 0) /\ turn' = NoTurn
      /\ UNCHANGED <<hidden, memory, turns>>
      /\ made' = made + 1 /\ latest' = made + 1 /\ due' = Len(nodes) + 1
      /\ updates' = Append(updates, [id |-> made + 1, step |-> "generate", text |-> 0])
  BY DEF CompleteTurn, Schedule, Now
<1>2. /\ updates \in Seq(Update) /\ made \in Nat /\ turns \in 0..MaxTurns /\ MaxTurns \in Nat
      /\ memory \in 0..Len(nodes) /\ hidden \subseteq Control /\ Len(nodes) \in Nat
      /\ turn.parent \in 0..Len(nodes)
  BY Parents, ContextAssumption DEF ContextInv, ContextTypeOK, TurnOK, ContextAssumption
<1>3. Len(nodes') = Len(nodes) + 1 /\ NodesTyped' /\ NodesOK' /\ HiddenOK'
  <2>1. "reply" \in Kind /\ 0 \in 0..Len(nodes)
    BY <1>2 DEF Kind
  <2> QED
    BY <1>1, <1>2, <2>1, NodeAdded
<1>4. made' \in 0..turns /\ made' \in 0..MaxTurns
  <2>1. made < turns
    BY <1>1, NoTurnTyped DEF ContextInv, TurnOK
  <2> QED
    BY <1>1, <1>2, <2>1
<1> DEFINE x == [id |-> made + 1, step |-> "generate", text |-> 0]
<1>5. x \in Update /\ x.id = made + 1 /\ x.step = "generate" /\ x.text = 0
  BY <1>2 DEF Update
<1>6. updates' = Append(updates, x)
  BY <1>1
<1> HIDE DEF x
<1>7. /\ updates' \in Seq(Update) /\ Len(updates') = Len(updates) + 1
      /\ DOMAIN updates' = 1..(Len(updates) + 1) /\ updates'[Len(updates) + 1] = x
      /\ \A i \in 1..Len(updates) : updates'[i] = updates[i]
  BY <1>2, <1>5, <1>6, UpdatesGrow
<1>8. UpdatesOK'
  <2>1. Len(updates) \in Nat /\ DOMAIN updates = 1..Len(updates) /\ Len(updates) <= made
    BY <1>2 DEF ContextInv, UpdatesOK
  <2>2. ASSUME NEW i \in 1..(Len(updates) + 1)
        PROVE  /\ updates'[i].id = made' - Len(updates') + i
               /\ updates'[i].text <= Len(nodes')
               /\ i > 1 => updates'[i].step = "generate"
    <3>1. CASE i = Len(updates) + 1
      BY <1>1, <1>2, <1>3, <1>5, <1>7, <2>1, <3>1
    <3>2. CASE i \in 1..Len(updates)
      <4>1. updates[i].text \in Nat
        <5>1. updates[i] \in Update
          BY <1>2, <2>1, <3>2
        <5> QED
          BY <5>1 DEF Update
      <4>2. /\ updates[i].id = made - Len(updates) + i /\ updates[i].text <= Len(nodes)
            /\ i > 1 => updates[i].step = "generate"
        BY <2>1, <3>2 DEF ContextInv, UpdatesOK
      <4> QED
        BY <1>1, <1>2, <1>3, <1>7, <2>1, <3>2, <4>1, <4>2
    <3> QED
      BY <2>1, <3>1, <3>2
  <2>3. updates' # <<>>
    BY <1>7, <2>1
  <2>4. Len(updates') = 1 => updates'[1].step = "generate"
    BY <1>5, <1>7, <2>1
  <2>5. Len(updates') <= made' /\ latest' = made'
    BY <1>1, <1>2, <1>7, <2>1
  <2> QED
    BY <1>7, <2>2, <2>3, <2>4, <2>5 DEF UpdatesOK
<1>9. ContextTypeOK'
  <2>1. latest' \in 0..made' /\ memory' \in 0..Len(nodes') /\ due' \in 0..Len(nodes')
    BY <1>1, <1>2, <1>3
  <2> QED
    BY <1>1, <1>2, <1>3, <1>4, <1>7, <2>1, NoTurnTyped DEF ContextTypeOK, NodesTyped
<1>10. TurnOK' /\ CallsOK' /\ AwaitsOK' /\ CompactionIsFresh'
  BY <1>1, <1>2, <1>3, <1>4 DEF TurnOK, CallsOK, AwaitsOK, CompactionIsFresh, NoTurn
<1> QED
  BY <1>3, <1>8, <1>9, <1>10 DEF ContextInv

LEMMA UpdatesChange ==
  ASSUME NEW x \in Update, updates \in Seq(Update), Len(updates) > 0,
         updates' = [updates EXCEPT ![1] = x]
  PROVE  /\ updates' \in Seq(Update) /\ Len(updates') = Len(updates)
         /\ DOMAIN updates' = DOMAIN updates
         /\ updates'[1] = x /\ \A i \in 2..Len(updates) : updates'[i] = updates[i]
<1>1. Len(updates) \in Nat /\ DOMAIN updates = 1..Len(updates)
  OBVIOUS
<1>2. updates' \in Seq(Update) /\ Len(updates') = Len(updates)
  <2>1. updates' \in [1..Len(updates) -> Update]
    <3>1. updates \in [1..Len(updates) -> Update]
      OBVIOUS
    <3> QED
      BY <3>1
  <2> QED
    BY <1>1, <2>1
<1>3. updates'[1] = x /\ \A i \in 2..Len(updates) : updates'[i] = updates[i]
  BY <1>1
<1> QED
  BY <1>1, <1>2, <1>3

\* The update that runs goes one step on, with the text it is made from.
LEMMA FirstUpdate ==
  ASSUME ContextInv, updates # <<>>, NEW step \in {"truncate", "write"}, NEW text \in 0..Len(nodes),
         updates' = [updates EXCEPT ![1] = [@ EXCEPT !.step = step, !.text = text]],
         UNCHANGED <<nodes, latest, made, due>>, Len(updates) = 1 => text >= due
  PROVE  updates' \in Seq(Update) /\ UpdatesOK'
<1>1. /\ updates \in Seq(Update) /\ Len(updates) \in Nat /\ Len(updates) > 0 /\ Len(nodes) \in Nat
      /\ DOMAIN updates = 1..Len(updates)
  BY Parents DEF ContextInv, ContextTypeOK
<1> DEFINE x == [updates[1] EXCEPT !.step = step, !.text = text]
<1>2. x \in Update /\ x.id = updates[1].id /\ x.step = step /\ x.text = text
  <2>1. updates[1] \in Update
    BY <1>1
  <2>2. text \in Nat
    BY <1>1
  <2> QED
    BY <2>1, <2>2 DEF Update
<1>3. updates' = [updates EXCEPT ![1] = x]
  OBVIOUS
<1> HIDE DEF x
<1>4. /\ updates' \in Seq(Update) /\ Len(updates') = Len(updates)
      /\ DOMAIN updates' = DOMAIN updates
      /\ updates'[1] = x /\ \A i \in 2..Len(updates) : updates'[i] = updates[i]
  BY <1>1, <1>2, <1>3, UpdatesChange
<1>5. ASSUME NEW i \in 1..Len(updates)
      PROVE  /\ updates'[i].id = made - Len(updates) + i
             /\ updates'[i].text <= Len(nodes)
             /\ i > 1 => updates'[i].step = "generate"
  <2>1. /\ updates[i].id = made - Len(updates) + i /\ updates[i].text <= Len(nodes)
        /\ i > 1 => updates[i].step = "generate"
    BY <1>1 DEF ContextInv, UpdatesOK
  <2>2. CASE i = 1
    BY <1>1, <1>2, <1>4, <2>1, <2>2
  <2>3. CASE i \in 2..Len(updates)
    BY <1>4, <2>1, <2>3
  <2> QED
    BY <1>1, <2>2, <2>3
<1>6. updates' # <<>>
  BY <1>1, <1>4
<1>7. Len(updates') = 1 => updates'[1].text >= due'
  BY <1>2, <1>4
<1>8. latest' = made' /\ Len(updates') <= made'
  BY <1>4 DEF ContextInv, UpdatesOK
<1> QED
  BY <1>4, <1>5, <1>6, <1>7, <1>8 DEF UpdatesOK

\* When the first update is over the others move up, and none of them has begun.
LEMMA OverOK ==
  ASSUME ContextInv, updates # <<>>, Over, UNCHANGED <<nodes, made>>,
         Len(updates) = 1 => due' = 0 \/ memory' >= due'
  PROVE  updates' \in Seq(Update) /\ latest' \in 0..made /\ UpdatesOK'
<1>1. /\ updates \in Seq(Update) /\ Len(updates) \in Nat /\ Len(updates) > 0
      /\ DOMAIN updates = 1..Len(updates) /\ made \in Nat /\ Len(updates) <= made /\ latest = made
      /\ Head(updates) = updates[1]
  BY DEF ContextInv, ContextTypeOK, UpdatesOK
<1>2. updates' = Tail(updates)
  BY DEF Over
<1>3. /\ updates' \in Seq(Update) /\ Len(updates') = Len(updates) - 1
      /\ DOMAIN updates' = 1..(Len(updates) - 1)
      /\ \A i \in 1..(Len(updates) - 1) : updates'[i] = updates[i + 1]
  BY <1>1, <1>2
<1>4. ASSUME NEW i \in 1..(Len(updates) - 1)
      PROVE  /\ updates'[i].id = made - Len(updates') + i
             /\ updates'[i].text <= Len(nodes)
             /\ updates'[i].step = "generate"
  <2>1. i + 1 \in 1..Len(updates) /\ i + 1 > 1 /\ i \in Nat
    BY <1>1
  <2>2. /\ updates[i + 1].id = made - Len(updates) + (i + 1) /\ updates[i + 1].text <= Len(nodes)
        /\ updates[i + 1].step = "generate"
    BY <1>1, <2>1 DEF ContextInv, UpdatesOK
  <2> QED
    <3>1. updates'[i] = updates[i + 1]
      BY <1>3
    <3>2. Len(updates') = Len(updates) - 1
      BY <1>3
    <3>3. made - Len(updates) + (i + 1) = made - (Len(updates) - 1) + i
      BY <1>1, <2>1
    <3> QED
      BY <2>2, <3>1, <3>2, <3>3
<1>5. Head(updates).id = made - Len(updates) + 1
  BY <1>1 DEF ContextInv, UpdatesOK
<1>6. updates' = <<>> <=> Len(updates) = 1
  BY <1>1, <1>3
<1>7. latest' = IF updates' = <<>> THEN 0 ELSE made
  <2>1. latest' = IF latest = Head(updates).id THEN 0 ELSE latest
    BY DEF Over
  <2> QED
    BY <1>1, <1>5, <1>6, <2>1
<1>8. latest' \in 0..made /\ Len(updates') <= made
  BY <1>1, <1>3, <1>7
<1>9. Len(updates') = 1 => updates'[1].step = "generate"
  BY <1>1, <1>3, <1>4
<1> QED
  BY <1>3, <1>4, <1>6, <1>7, <1>8, <1>9 DEF UpdatesOK

LEMMA MaintainInv ==
  ASSUME ContextInv, Maintain
  PROVE  ContextInv'
<1>1. /\ updates \in Seq(Update) /\ Len(nodes) \in Nat /\ due \in 0..Len(nodes)
      /\ memory \in 0..Len(nodes) /\ latest \in 0..made
  BY Parents DEF ContextInv, ContextTypeOK
<1>2. ASSUME updates # <<>>
      PROVE  /\ Head(updates) = updates[1] /\ updates[1] \in Update
             /\ updates[1].text \in 0..Len(nodes) /\ 1 \in DOMAIN updates
             /\ Len(updates) = 1 /\ updates[1].step # "generate" => updates[1].text >= due
             /\ updates[1].id = made - Len(updates) + 1
  <2>1. Head(updates) = updates[1] /\ updates[1] \in Update /\ 1 \in DOMAIN updates
    BY <1>1, <1>2
  <2>2. updates[1].text \in Nat /\ updates[1].text <= Len(nodes)
    BY <2>1 DEF Update, ContextInv, UpdatesOK
  <2> QED
    BY <1>1, <2>1, <2>2 DEF ContextInv, UpdatesOK
<1>3. CASE Generate
  <2>1. /\ updates # <<>> /\ UNCHANGED <<nodes, hidden, turn, memory, latest, made, due, turns>>
        /\ updates' = [updates EXCEPT ![1] = [@ EXCEPT !.step = "truncate", !.text = Len(nodes)]]
    BY <1>3 DEF Generate, Now
  <2>2. updates' \in Seq(Update) /\ UpdatesOK'
    <3>1. Len(nodes) \in 0..Len(nodes) /\ Len(nodes) >= due
      BY <1>1
    <3> QED
      BY <2>1, <3>1, FirstUpdate
  <2> QED
    BY <1>1, <2>1, <2>2, MemoryOnly
<1>4. CASE TruncateMemory
  <2>1. /\ updates # <<>> /\ UNCHANGED <<nodes, hidden, turn, latest, made, due, turns>>
        /\ Head(updates).step = "truncate" /\ memory' = 0
        /\ updates' = [updates EXCEPT ![1] = [@ EXCEPT !.step = "write"]]
    BY <1>4 DEF TruncateMemory
  <2>2. [updates[1] EXCEPT !.step = "write"] =
          [updates[1] EXCEPT !.step = "write", !.text = updates[1].text]
    BY <1>2, <2>1 DEF Update
  <2>3. updates' = [updates EXCEPT ![1] = [@ EXCEPT !.step = "write", !.text = updates[1].text]]
    BY <2>1, <2>2
  <2>4. updates' \in Seq(Update) /\ UpdatesOK'
    BY <1>2, <2>1, <2>3, FirstUpdate
  <2> QED
    BY <1>1, <2>1, <2>4, MemoryOnly
<1>5. CASE WriteMemory
  <2>1. /\ updates # <<>> /\ UNCHANGED <<nodes, hidden, turn, made, due, turns>>
        /\ Head(updates).step = "write" /\ memory' = Head(updates).text /\ Over
    BY <1>5 DEF WriteMemory
  <2>2. memory' \in 0..Len(nodes) /\ (Len(updates) = 1 => memory' >= due')
    BY <1>2, <2>1
  <2>3. updates' \in Seq(Update) /\ latest' \in 0..made /\ UpdatesOK'
    BY <2>1, <2>2, OverOK
  <2> QED
    BY <2>1, <2>2, <2>3, MemoryOnly
<1>6. CASE FailUpdate
  <2>1. /\ updates # <<>> /\ UNCHANGED <<nodes, hidden, turn, memory, made, turns>> /\ Over
        /\ due' = IF Head(updates).id = made THEN 0 ELSE due
    BY <1>6 DEF FailUpdate
  <2>2. Len(updates) = 1 => due' = 0
    <3>1. made \in Nat
      BY DEF ContextInv, ContextTypeOK
    <3> QED
      BY <1>2, <2>1, <3>1
  <2>3. updates' \in Seq(Update) /\ latest' \in 0..made /\ UpdatesOK'
    BY <2>1, <2>2, OverOK
  <2> QED
    BY <1>1, <2>1, <2>3, MemoryOnly
<1> QED
  BY <1>3, <1>4, <1>5, <1>6 DEF Maintain

-----------------------------------------------------------------------------
(* Invariance *)

LEMMA ContextInvInit == ContextInit => ContextInv
<1> SUFFICES ASSUME ContextInit
             PROVE  ContextInv
  OBVIOUS
<1> USE DEF ContextInit
<1>1. ContextTypeOK
  <2>1. MaxTurns \in Nat /\ Len(nodes) = 0
    BY ContextAssumption DEF ContextAssumption
  <2> QED
    BY <2>1, NoTurnTyped DEF ContextTypeOK
<1>2. NodesOK /\ HiddenOK /\ UpdatesOK
  BY DEF NodesOK, HiddenOK, UpdatesOK
<1>3. TurnOK /\ CallsOK /\ AwaitsOK /\ CompactionIsFresh
  BY DEF TurnOK, CallsOK, AwaitsOK, CompactionIsFresh, NoTurn
<1> QED
  BY <1>1, <1>2, <1>3 DEF ContextInv

LEMMA ContextInvStep == ContextInv /\ [ContextNext]_contextVars => ContextInv'
<1> SUFFICES ASSUME ContextInv, [ContextNext]_contextVars
             PROVE  ContextInv'
  OBVIOUS
<1>1. CASE \E n \in 0..Len(nodes) : BeginTurn(n)
  BY <1>1, BeginTurnInv
<1>2. CASE AddHarness
  BY <1>2, AddHarnessInv
<1>3. CASE NoCompact
  BY <1>3, NoCompactInv
<1>4. CASE BeginCompact
  BY <1>4, BeginCompactInv
<1>5. CASE Waited
  BY <1>5, WaitedInv
<1>6. CASE ReadMemory
  BY <1>6, ReadMemoryInv
<1>7. CASE Summarise
  BY <1>7, SummariseInv
<1>8. CASE AppendCompact
  BY <1>8, AppendCompactInv
<1>9. CASE StartRun
  BY <1>9, StartRunInv
<1>10. CASE \E kind \in Kind : Round(kind)
  BY <1>10, RoundInv
<1>11. CASE \E n \in DOMAIN nodes : Snip(n)
  BY <1>11, SnipInv
<1>12. CASE CompleteTurn
  BY <1>12, CompleteTurnInv
<1>13. CASE FailTurn
  BY <1>13, FailTurnInv
<1>14. CASE Maintain
  BY <1>14, MaintainInv
<1>15. CASE UNCHANGED contextVars
  <2>1. /\ ContextTypeOK' = ContextTypeOK /\ NodesOK' = NodesOK /\ HiddenOK' = HiddenOK
        /\ CallsOK' = CallsOK /\ TurnOK' = TurnOK /\ UpdatesOK' = UpdatesOK
        /\ AwaitsOK' = AwaitsOK /\ CompactionIsFresh' = CompactionIsFresh
    BY <1>15 DEF contextVars, ContextTypeOK, NodesOK, HiddenOK, CallsOK, TurnOK, UpdatesOK,
                 AwaitsOK, CompactionIsFresh
  <2> QED
    BY <2>1 DEF ContextInv
<1> QED
  BY <1>1, <1>2, <1>3, <1>4, <1>5, <1>6, <1>7, <1>8, <1>9, <1>10, <1>11, <1>12, <1>13, <1>14,
     <1>15 DEF ContextNext

LEMMA ContextInvariance == ContextSpec => []ContextInv
  BY ContextInvInit, ContextInvStep, PTL DEF ContextSpec

\* Every variable of SessionContext has its type, and a parent is older than its node.
THEOREM ContextTypeCorrect == ContextSpec => []ContextTypeOK
<1>1. ContextInv => ContextTypeOK
  BY DEF ContextInv
<1> QED
  BY <1>1, ContextInvariance, PTL

\* A context never holds a tool result without the call before it: a path holds a result behind
\* its call, no control ends between them, what is retained starts at neither, and what is cut
\* off ends at neither (buildContext).
THEOREM ResultsFollowCalls == ContextSpec => []ResultsHaveCalls
<1>1. ContextInv => ResultsHaveCalls
  <2> SUFFICES ASSUME ContextInv
               PROVE  ResultsHaveCalls
    OBVIOUS
  <2> DEFINE context == Context(ActiveLeaf)
  <2>1. ContextTypeOK /\ NodesOK /\ HiddenOK
    BY DEF ContextInv
  <2>2. Len(nodes) \in 0..Len(nodes)
    BY <2>1, Parents
  <2>3. Closed(context)
    BY <2>1, <2>2, ContextClosed DEF ActiveLeaf
  <2> HIDE DEF context
  <2>4. DOMAIN context = 1..Len(context)
    BY <2>3 DEF Closed
  <2>5. \A j \in 1..Len(context) :
          Result(context[j]) => \E i \in 1..(j - 1) : context[i] = nodes[context[j]].of
    BY <2>1, <2>3, ClosedHasCalls
  <2> QED
    BY <2>4, <2>5 DEF ResultsHaveCalls, Result, context
<1> QED
  BY <1>1, ContextInvariance, PTL

\* A compaction that did not run out of time summarises every completed turn, unless the newest
\* update failed: it waits for the newest, and updates run in order (waitForSessionMemoryUpdate).
THEOREM CompactionsAreFresh == ContextSpec => []CompactionIsFresh
<1>1. ContextInv => CompactionIsFresh
  BY DEF ContextInv
<1> QED
  BY <1>1, ContextInvariance, PTL
=============================================================================
