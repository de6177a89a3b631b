-------------------------- MODULE SessionLaneProofs --------------------------
(***************************************************************************)
(* Theorems about SessionLane, for any messages, tasks, rounds, faults and *)
(* restarts.                                                               *)
(***************************************************************************)
EXTENDS SessionLane, TLAPS

In(q, x) == \E i \in DOMAIN q : q[i] = x
Distinct(q) == \A i, j \in DOMAIN q : q[i] = q[j] => i = j

(* Of a sequence of writes: whether one of them puts message m in a queue,  *)
(* whether one is by x, ...                                                 *)
Written(w, queue, m) == \E i \in DOMAIN w : w[i].writes = queue /\ In(w[i].items, m)
Handled(w, x) == \E i \in DOMAIN w : w[i].by = x

\* ... a turn and a handler await one write each; a task's notice is not awaited
OneEach(w) == \A i, j \in DOMAIN w : w[i].by = w[j].by /\ w[i].by \notin Task => i = j

\* ... no message is twice in what will be the queue of follow-ups
DistinctItems(w) == \A i \in DOMAIN w : w[i].writes = "follow_up" => Distinct(w[i].items)

\* ... the turn's write takes x off the queue of follow-ups and is the last to write it
TakesOff(w, x) ==
  \A i \in DOMAIN w : w[i].by = Nobody =>
     /\ w[i].writes = "follow_up" /\ ~In(w[i].items, x)
     /\ \A j \in DOMAIN w : j > i => w[j].writes # "follow_up"

\* ... no write but its own puts m in a queue
OnlyOwn(w, m) ==
  \A i \in DOMAIN w : w[i].writes # "event" /\ In(w[i].items, m) => w[i].by = m

-----------------------------------------------------------------------------
(* Where a message is. *)
FollowsUp(m) == In(followUp, m) \/ Written(appends, "follow_up", m)
Steers(m) == In(steer, m) \/ Written(appends, "steer", m) \/ turn.steered = m
Chained(m) == job = m \/ In(chain, m)
Records(m) == \E queue \in {"event", "follow_up", "steer"} : <<m, queue>> \in recording
Nowhere(m) ==
  ~FollowsUp(m) /\ ~Steers(m) /\ ~Chained(m) /\ ~Handled(appends, m) /\ turn.of # m

\* The turn awaits a write exactly at these steps.
OnWrite == {"pop", "user", "event", "steer_pop", "steer_item"}

WritesOK ==
  /\ turn.step \in OnWrite <=> Handled(appends, Nobody)
  /\ OneEach(appends)
  /\ turn.step = "pop" => TakesOff(appends, turn.of)
  /\ Distinct(followUp) /\ DistinctItems(appends)

DistinctJobs == \A i, j \in DOMAIN chain : chain[i] = chain[j] /\ chain[i] \in Msg => i = j

\* A message's job has its own turn once, between two drains of the follow-ups.
JobsOK ==
  /\ turn.of = job /\ job # Nobody => stage = "own"
  /\ job = Nobody => turn = NoTurn
  /\ turn.step \in {"pop", "user"} \/ turn.reply => turn.of \in Msg
  /\ job \in Msg /\ stage = "before" => turns[job] = 0
  /\ DistinctJobs

\* A message is a job, a follow-up, a steer or the handler's own, one at a time;
\* what is still to run has not run.
MessageOK(m) ==
  /\ request[m] \in {"unsent", "failed"} => Nowhere(m)
  /\ request[m] = "unsent" => turns[m] = 0
  /\ In(chain, m) => job # m /\ turn.of # m /\ turns[m] = 0
  /\ Chained(m) => ~FollowsUp(m) /\ ~Steers(m) /\ ~Handled(appends, m)
  /\ FollowsUp(m) => /\ turns[m] = 0
                     /\ turn.of = m => turn.step = "pop"
                     /\ request[m] = "waiting" => m \in waiters
  /\ Handled(appends, m) => /\ request[m] = "waiting" /\ turn.of # m /\ turn.steered # m
                            /\ ~In(followUp, m) /\ ~In(steer, m) /\ OnlyOwn(appends, m)
  /\ Records(m) => request[m] # "unsent" /\ ~Handled(appends, m)
  /\ turn.of = m /\ turn.step \in {"pop", "prepare", "user"} => turns[m] = 0

IInv == TypeOK /\ WritesOK /\ JobsOK /\ \A m \in Msg : MessageOK(m)

-----------------------------------------------------------------------------
(* Queues: what Append adds and Tail takes away. *)
LEMMA EmptyQueue == \A x : ~In(<<>>, x)
  BY DEF In

LEMMA InAppend ==
  ASSUME NEW S, NEW q \in Seq(S), NEW e \in S, NEW x
  PROVE  In(Append(q, e), x) <=> In(q, x) \/ x = e
<1>1. Len(q) \in Nat /\ DOMAIN q = 1..Len(q) /\ DOMAIN Append(q, e) = 1..(Len(q) + 1)
  OBVIOUS
<1>2. /\ \A i \in 1..Len(q) : Append(q, e)[i] = q[i] 
      /\ Append(q, e)[Len(q) + 1] = e
  OBVIOUS
<1> QED
  BY <1>1, <1>2 DEF In

LEMMA DistinctAppend ==
  ASSUME NEW S, NEW q \in Seq(S), NEW e \in S, Distinct(q), ~In(q, e)
  PROVE  Distinct(Append(q, e))
<1>1. Len(q) \in Nat /\ DOMAIN q = 1..Len(q) /\ DOMAIN Append(q, e) = 1..(Len(q) + 1)
  OBVIOUS
<1>2. /\ \A i \in 1..Len(q) : Append(q, e)[i] = q[i] 
      /\ Append(q, e)[Len(q) + 1] = e
  OBVIOUS
<1> QED
  BY <1>1, <1>2 DEF In, Distinct

\* Positions of a tail
LEMMA TailAt ==
  ASSUME NEW S, NEW q \in Seq(S), q # <<>>
  PROVE  /\ Len(q) \in Nat \ {0} /\ DOMAIN q = 1..Len(q) /\ DOMAIN Tail(q) = 1..(Len(q) - 1)
         /\ Head(q) = q[1] /\ Head(q) \in S /\ Tail(q) \in Seq(S)
         /\ \A i \in 1..(Len(q) - 1) : Tail(q)[i] = q[i + 1]
  OBVIOUS

LEMMA InTail ==
  ASSUME NEW S, NEW q \in Seq(S), q # <<>>, NEW x
  PROVE  In(q, x) <=> x = Head(q) \/ In(Tail(q), x)
<1>1. ASSUME NEW i \in 1..Len(q), q[i] = x, i # 1
      PROVE  In(Tail(q), x)
  <2>1. i - 1 \in 1..(Len(q) - 1) /\ Tail(q)[i - 1] = x
    BY <1>1, TailAt
  <2> QED
    BY <2>1, TailAt DEF In
<1>2. ASSUME NEW i \in 1..(Len(q) - 1), Tail(q)[i] = x
      PROVE  In(q, x)
  <2>1. i + 1 \in 1..Len(q) /\ q[i + 1] = x
    BY <1>2, TailAt
  <2> QED
    BY <2>1, TailAt DEF In
<1>3. In(q, Head(q))
  <2>1. 1 \in DOMAIN q /\ q[1] = Head(q)
    BY TailAt
  <2> QED
    BY <2>1 DEF In
<1> QED
  BY <1>1, <1>2, <1>3, TailAt DEF In

LEMMA DistinctTail ==
  ASSUME NEW S, NEW q \in Seq(S), q # <<>>, Distinct(q)
  PROVE  Distinct(Tail(q)) /\ ~In(Tail(q), Head(q))
  BY TailAt DEF Distinct, In

-----------------------------------------------------------------------------
(* A write is chained. *)
LEMMA Entries ==
  /\ Entry = Rewrite(Nobody, "event", <<>>)
  /\ \A t \in Task : [Entry EXCEPT !.by = t] = Rewrite(t, "event", <<>>)
  BY DEF Entry, Rewrite

\* What v has when it is w and then x's rewrite of a queue to q
Chains(w, v, x, queue, q) ==
  /\ v \in Seq(WriteRecord)
  /\ \A k, m : Written(v, k, m) <=> Written(w, k, m) \/ (k = queue /\ In(q, m))
  /\ \A y : Handled(v, y) <=> Handled(w, y) \/ y = x
  /\ OneEach(w) /\ (x \notin Task => ~Handled(w, x)) => OneEach(v)
  /\ DistinctItems(w) /\ (queue = "follow_up" => Distinct(q)) => DistinctItems(v)
  /\ \A m : TakesOff(w, m) /\ x # Nobody /\ queue # "follow_up" => TakesOff(v, m)
  /\ \A m : ~Handled(w, Nobody) /\ queue = "follow_up" /\ ~In(q, m) => TakesOff(v, m)
  /\ \A m : OnlyOwn(w, m) /\ (queue # "event" /\ In(q, m) => x = m) => OnlyOwn(v, m)

LEMMA WriteChained ==
  ASSUME NEW w \in Seq(WriteRecord), NEW x \in Msg \cup Task \cup {Nobody},
         NEW queue \in {"event", "follow_up", "steer"}, NEW q \in Seq(Msg),
         NEW v, v = Append(w, Rewrite(x, queue, q))
  PROVE  Chains(w, v, x, queue, q)
<1> DEFINE n == Len(w)
<1>0. PICK a : a = Rewrite(x, queue, q)
  OBVIOUS
<1>1. a \in WriteRecord /\ a.by = x /\ a.writes = queue /\ a.items = q
  BY <1>0 DEF Rewrite, WriteRecord
<1>2. /\ n \in Nat /\ DOMAIN w = 1..n /\ DOMAIN v = 1..(n + 1) /\ v \in Seq(WriteRecord)
      /\ \A i \in 1..n : v[i] = w[i]
      /\ v[n + 1] = a
  BY <1>0, <1>1
<1> HIDE DEF n
<1>3. \A i \in DOMAIN v : (i \in DOMAIN w /\ v[i] = w[i]) \/ (i = n + 1 /\ v[i] = a)
  <2>1. ASSUME NEW i \in 1..(n + 1)
        PROVE  (i \in 1..n /\ v[i] = w[i]) \/ (i = n + 1 /\ v[i] = a)
    BY <1>2
  <2> QED
    BY <1>2, <2>1, Zenon
<1>4. (\A i \in DOMAIN w : i \in DOMAIN v /\ v[i] = w[i]) /\ n + 1 \in DOMAIN v /\ v[n + 1] = a
  <2>1. n + 1 \in 1..(n + 1) /\ \A i \in 1..n : i \in 1..(n + 1)
    BY <1>2
  <2> QED
    BY <1>2, <2>1, Zenon
<1>5. \A k, m : Written(v, k, m) <=> Written(w, k, m) \/ (k = queue /\ In(q, m))
  <2>1. \A k, m : Written(v, k, m) <=> Written(w, k, m) \/ (a.writes = k /\ In(a.items, m))
    BY <1>3, <1>4, Zenon DEF Written
  <2> QED
    BY <1>1, <2>1
<1>6. \A y : Handled(v, y) <=> Handled(w, y) \/ y = x
  BY <1>1, <1>3, <1>4, Zenon DEF Handled
<1>7. OneEach(w) /\ (x \notin Task => ~Handled(w, x)) => OneEach(v)
  BY <1>1, <1>3 DEF OneEach, Handled
<1>8. DistinctItems(w) /\ (queue = "follow_up" => Distinct(q)) => DistinctItems(v)
  BY <1>1, <1>3 DEF DistinctItems
<1>9. ASSUME NEW m, TakesOff(w, m), x # Nobody, queue # "follow_up"
      PROVE  TakesOff(v, m)
  BY <1>1, <1>3, <1>9 DEF TakesOff
<1>10. ASSUME NEW m, ~Handled(w, Nobody), queue = "follow_up", ~In(q, m)
       PROVE  TakesOff(v, m)
  <2>1. \A i \in DOMAIN v : v[i].by = Nobody => i = n + 1
    BY <1>3, <1>10 DEF Handled
  <2>2. \A j \in DOMAIN v : ~(j > n + 1)
    BY <1>2
  <2> QED
    BY <1>1, <1>4, <1>10, <2>1, <2>2 DEF TakesOff
<1>11. \A m : OnlyOwn(w, m) /\ (queue # "event" /\ In(q, m) => x = m) => OnlyOwn(v, m)
  BY <1>1, <1>3 DEF OnlyOwn
<1> QED
  BY <1>2, <1>5, <1>6, <1>7, <1>8, <1>9, <1>10, <1>11 DEF Chains

\* What v has when it is w without its first write, a
Lands(w, v, a) ==
  /\ v \in Seq(WriteRecord) /\ a \in WriteRecord
  /\ \A k, m : Written(w, k, m) <=> Written(v, k, m) \/ (a.writes = k /\ In(a.items, m))
  /\ \A x : Handled(w, x) <=> Handled(v, x) \/ a.by = x
  /\ OneEach(w) => OneEach(v) /\ (a.by \notin Task => ~Handled(v, a.by))
  /\ DistinctItems(w) => DistinctItems(v) /\ (a.writes = "follow_up" => Distinct(a.items))
  /\ \A x : TakesOff(w, x) =>
       /\ TakesOff(v, x)
       /\ a.by = Nobody => /\ a.writes = "follow_up" /\ ~In(a.items, x)
                           /\ \A m : ~Written(v, "follow_up", m)
  /\ \A m : OnlyOwn(w, m) =>
       /\ OnlyOwn(v, m)
       /\ a.writes # "event" /\ In(a.items, m) => a.by = m

LEMMA EventChained ==
  ASSUME NEW w \in Seq(WriteRecord), NEW x \in Task \cup {Nobody},
         NEW v, v = Append(w, Rewrite(x, "event", <<>>))
  PROVE  Chains(w, v, x, "event", <<>>)
<1>1. PICK q : q = <<>>
  OBVIOUS
<1>2. q \in Seq(Msg)
  BY <1>1
<1> QED
  BY <1>1, <1>2, WriteChained

(* The first write is done. *)
LEMMA WriteDone ==
  ASSUME NEW w \in Seq(WriteRecord), w # <<>>
  PROVE  Lands(w, Tail(w), Head(w))
<1> DEFINE v == Tail(w)
           a == Head(w)
           n == Len(w)
<1>1. /\ n \in Nat \ {0} /\ DOMAIN w = 1..n /\ DOMAIN v = 1..(n - 1)
      /\ a = w[1] /\ a \in WriteRecord /\ v \in Seq(WriteRecord)
      /\ \A i \in 1..(n - 1) : v[i] = w[i + 1]
  BY TailAt
<1> HIDE DEF v, a, n
<1>2. \A i \in DOMAIN w : w[i] = a \/ \E j \in DOMAIN v : v[j] = w[i]
  <2>1. ASSUME NEW i \in 1..n, i # 1
        PROVE  i - 1 \in 1..(n - 1) /\ v[i - 1] = w[i]
    BY <1>1, <2>1
  <2> QED
    BY <1>1, <2>1, Zenon
<1>3. /\ 1 \in DOMAIN w /\ w[1] = a
      /\ \A i \in DOMAIN v : i + 1 \in DOMAIN w /\ w[i + 1] = v[i] /\ i + 1 # 1 /\ i + 1 > 1
  <2>1. 1 \in 1..n /\ \A i \in 1..(n - 1) : i + 1 \in 1..n /\ i + 1 # 1 /\ i + 1 > 1
    BY <1>1
  <2> QED
    BY <1>1, <2>1, Zenon
<1>4. \A i, j \in DOMAIN v : (i + 1 = j + 1 => i = j) /\ (j > i => j + 1 > i + 1)
  BY <1>1
<1>5. \A q, m : Written(w, q, m) <=> Written(v, q, m) \/ (a.writes = q /\ In(a.items, m))
  <2>1. ASSUME NEW q, NEW m, Written(w, q, m)
        PROVE  Written(v, q, m) \/ (a.writes = q /\ In(a.items, m))
    <3>1. PICK i \in DOMAIN w : w[i].writes = q /\ In(w[i].items, m)
      BY <2>1, Zenon DEF Written
    <3>2. CASE w[i] = a
      BY <3>1, <3>2
    <3>3. CASE \E j \in DOMAIN v : v[j] = w[i]
      BY <3>1, <3>3, Zenon DEF Written
    <3> QED
      BY <1>2, <3>2, <3>3
  <2>2. ASSUME NEW q, NEW m, Written(v, q, m) \/ (a.writes = q /\ In(a.items, m))
        PROVE  Written(w, q, m)
    BY <1>3, <2>2 DEF Written
  <2> QED
    BY <2>1, <2>2
<1>6. \A x : Handled(w, x) <=> Handled(v, x) \/ a.by = x
  BY <1>2, <1>3, ZenonT(60) DEF Handled
<1>7. ASSUME OneEach(w)
      PROVE  OneEach(v) /\ (a.by \notin Task => ~Handled(v, a.by))
  BY <1>3, <1>4, <1>7 DEF OneEach, Handled
<1>8. ASSUME DistinctItems(w)
      PROVE  DistinctItems(v) /\ (a.writes = "follow_up" => Distinct(a.items))
  BY <1>3, <1>8, Zenon DEF DistinctItems
<1>9. ASSUME NEW x, TakesOff(w, x)
      PROVE  /\ TakesOff(v, x)
             /\ a.by = Nobody => /\ a.writes = "follow_up" /\ ~In(a.items, x)
                                 /\ \A m : ~Written(v, "follow_up", m)
  <2>1. TakesOff(v, x)
    BY <1>3, <1>4, <1>9 DEF TakesOff
  <2>2. ASSUME a.by = Nobody
        PROVE  /\ a.writes = "follow_up" /\ ~In(a.items, x)
               /\ \A j \in DOMAIN v : v[j].writes # "follow_up"
    BY <1>3, <1>9, <2>2 DEF TakesOff
  <2> QED
    BY <2>1, <2>2 DEF Written
<1>10. ASSUME NEW m, OnlyOwn(w, m)
       PROVE  OnlyOwn(v, m) /\ (a.writes # "event" /\ In(a.items, m) => a.by = m)
  BY <1>3, <1>10 DEF OnlyOwn
<1> QED
  BY <1>1, <1>5, <1>6, <1>7, <1>8, <1>9, <1>10 DEF Lands, v, a

LEMMA EmptyWrites ==
  /\ \A k, m : ~Written(<<>>, k, m)
  /\ \A x : ~Handled(<<>>, x)
  /\ OneEach(<<>>) /\ DistinctItems(<<>>) /\ <<>> \in Seq(WriteRecord)
  BY DEF Written, Handled, OneEach, DistinctItems

\* Only the writes to a queue matter to OnlyOwn.
LEMMA NotWritten ==
  ASSUME NEW w \in Seq(WriteRecord), NEW m
  PROVE  /\ ~Written(w, "follow_up", m) /\ ~Written(w, "steer", m) => OnlyOwn(w, m)
         /\ OnlyOwn(w, m) /\ ~Handled(w, m) => ~Written(w, "follow_up", m) /\ ~Written(w, "steer", m)
<1>1. \A i \in DOMAIN w : w[i].writes \in {"event", "follow_up", "steer"}
  <2>1. \A i \in DOMAIN w : w[i] \in WriteRecord
    OBVIOUS
  <2> QED
    BY <2>1 DEF WriteRecord
<1> QED
  BY <1>1 DEF OnlyOwn, Written, Handled

-----------------------------------------------------------------------------
(* The handlers. *)
LEMMA EnqueueFollowUpInv ==
  ASSUME IInv, NEW m \in Msg, EnqueueFollowUp(m)
  PROVE  IInv'
<1> USE DEF IInv, EnqueueFollowUp, laneVars, queueVars, historyVars, boundVars
<1> DEFINE q == Append(followUp, m)
<1>1. /\ appends \in Seq(WriteRecord) /\ followUp \in Seq(Msg) /\ Nowhere(m)
      /\ m \notin Task /\ m # Nobody /\ turn.step \notin {"pop", "user"}
  BY LaneAssumption DEF TypeOK, MessageOK, Running
<1>2. /\ q \in Seq(Msg) /\ (Distinct(followUp) => Distinct(q))
      /\ \A x : In(q, x) <=> In(followUp, x) \/ x = m
  BY <1>1, InAppend, DistinctAppend DEF Nowhere, FollowsUp
<1> HIDE DEF q
<1>3. appends' = Append(appends, Rewrite(m, "follow_up", q))
  BY DEF q
<1>4. Chains(appends, appends', m, "follow_up", q)
  BY <1>1, <1>2, <1>3, WriteChained
<1>5. TypeOK'
  BY <1>1, <1>2, <1>4 DEF TypeOK, RequestState, Chains
<1>6. WritesOK'
  BY <1>1, <1>2, <1>4 DEF WritesOK, Nowhere, Chains
<1>7. JobsOK'
  BY DEF JobsOK, DistinctJobs
<1>8. ASSUME NEW x \in Msg
      PROVE  MessageOK(x)'
  <2>1. OnlyOwn(appends, m)
    BY <1>1, NotWritten DEF Nowhere, FollowsUp, Steers
  <2> QED
    BY <1>1, <1>2, <1>4, <2>1 DEF TypeOK, MessageOK, Nowhere, FollowsUp, Steers, Chained, Records, Chains
<1> QED
  BY <1>5, <1>6, <1>7, <1>8

LEMMA EnqueueSteerInv ==
  ASSUME IInv, NEW m \in Msg, EnqueueSteer(m)
  PROVE  IInv'
<1> USE DEF IInv, EnqueueSteer, laneVars, queueVars, historyVars, boundVars
<1> DEFINE q == Append(steer, m)
<1>1. /\ appends \in Seq(WriteRecord) /\ steer \in Seq(Msg) /\ Nowhere(m)
      /\ m \notin Task /\ m # Nobody /\ turn.step \notin {"pop", "user"}
  BY LaneAssumption DEF TypeOK, MessageOK, Running
<1>2. q \in Seq(Msg) /\ \A x : In(q, x) <=> In(steer, x) \/ x = m
  BY <1>1, InAppend
<1> HIDE DEF q
<1>3. appends' = Append(appends, Rewrite(m, "steer", q))
  BY DEF q
<1>4. Chains(appends, appends', m, "steer", q)
  BY <1>1, <1>2, <1>3, WriteChained
<1>5. TypeOK'
  BY <1>1, <1>2, <1>4 DEF TypeOK, RequestState, Chains
<1>6. WritesOK'
  BY <1>1, <1>2, <1>4 DEF WritesOK, Nowhere, Chains
<1>7. JobsOK'
  BY DEF JobsOK, DistinctJobs
<1>8. ASSUME NEW x \in Msg
      PROVE  MessageOK(x)'
  <2>1. OnlyOwn(appends, m)
    BY <1>1, NotWritten DEF Nowhere, FollowsUp, Steers
  <2> QED
    BY <1>1, <1>2, <1>4, <2>1 DEF TypeOK, MessageOK, Nowhere, FollowsUp, Steers, Chained, Records, Chains
<1> QED
  BY <1>5, <1>6, <1>7, <1>8

\* A job is chained; a message only once.
LEMMA JobChained ==
  ASSUME chain \in Seq(Job), DistinctJobs, NEW j \in Job, j \in Msg => ~In(chain, j),
         chain' = Append(chain, j)
  PROVE  /\ chain' \in Seq(Job) /\ DistinctJobs'
         /\ \A x : In(chain', x) <=> In(chain, x) \/ x = j
<1>1. chain' \in Seq(Job) /\ \A x : In(chain', x) <=> In(chain, x) \/ x = j
  BY InAppend
<1>2. /\ Len(chain) \in Nat /\ DOMAIN chain = 1..Len(chain)
      /\ DOMAIN chain' = 1..(Len(chain) + 1) /\ chain'[Len(chain) + 1] = j
      /\ \A i \in 1..Len(chain) : chain'[i] = chain[i]
  OBVIOUS
<1>3. j \in Msg => \A i \in 1..Len(chain) : chain[i] # j
  BY <1>2 DEF In
<1> QED
  BY <1>1, <1>2, <1>3 DEF DistinctJobs

LEMMA ChainMessageInv ==
  ASSUME IInv, NEW m \in Msg, ChainMessage(m)
  PROVE  IInv'
<1> USE DEF IInv, ChainMessage, laneVars, queueVars, historyVars, boundVars
<1>1. chain \in Seq(Job) /\ m \in Job /\ m # Nobody /\ Nowhere(m) /\ turns[m] = 0
  BY LaneAssumption DEF TypeOK, MessageOK, Job
<1>2. CASE broken
  <2>1. TypeOK'
    BY <1>2 DEF TypeOK, RequestState
  <2>2. WritesOK' /\ JobsOK'
    BY <1>2 DEF WritesOK, JobsOK, DistinctJobs
  <2>3. ASSUME NEW x \in Msg
        PROVE  MessageOK(x)'
    BY <1>1, <1>2 DEF TypeOK, MessageOK, Nowhere, FollowsUp, Steers, Chained, Records
  <2> QED
    BY <2>1, <2>2, <2>3
<1>3. CASE ~broken
  <2>1. /\ chain' \in Seq(Job) /\ DistinctJobs'
        /\ \A x : In(chain', x) <=> In(chain, x) \/ x = m
    <3>1. chain' = Append(chain, m) /\ ~In(chain, m) /\ DistinctJobs
      BY <1>1, <1>3 DEF Nowhere, Chained, Records, JobsOK
    <3> HIDE DEF IInv, ChainMessage
    <3> QED
      BY <1>1, <3>1, JobChained
  <2>2. TypeOK'
    BY <1>3, <2>1 DEF TypeOK, RequestState
  <2>3. WritesOK' /\ JobsOK'
    BY <1>3, <2>1 DEF WritesOK, JobsOK
  <2>4. ASSUME NEW x \in Msg
        PROVE  MessageOK(x)'
    BY <1>1, <1>3, <2>1 DEF TypeOK, MessageOK, Nowhere, FollowsUp, Steers, Chained, Records
  <2> QED
    BY <2>2, <2>3, <2>4
<1> QED
  BY <1>2, <1>3

LEMMA CompleteTaskInv ==
  ASSUME IInv, NEW t \in Task, CompleteTask(t)
  PROVE  IInv'
<1> USE DEF IInv, CompleteTask, laneVars, queueVars, historyVars, boundVars
<1>1. /\ appends \in Seq(WriteRecord) /\ t \notin Msg /\ t # Nobody
      /\ appends' = Append(appends, Rewrite(t, "event", <<>>))
  BY LaneAssumption, Entries DEF TypeOK
<1>2. Chains(appends, appends', t, "event", <<>>)
  BY <1>1, EventChained
<1>3. TypeOK'
  BY <1>2 DEF TypeOK, Chains
<1>4. WritesOK'
  BY <1>1, <1>2 DEF WritesOK, Chains
<1>5. JobsOK'
  BY DEF JobsOK, DistinctJobs
<1>6. ASSUME NEW x \in Msg
      PROVE  MessageOK(x)'
  BY <1>1, <1>2 DEF MessageOK, Nowhere, FollowsUp, Steers, Chained, Records, Chains
<1> QED
  BY <1>3, <1>4, <1>5, <1>6

-----------------------------------------------------------------------------
(* The jobs. *)
LEMMA StartJobInv ==
  ASSUME IInv, StartJob
  PROVE  IInv'
<1> USE DEF IInv, StartJob, laneVars, queueVars, historyVars, boundVars
<1>1. chain \in Seq(Job) /\ chain # <<>> /\ turn = NoTurn /\ job = Nobody
  BY DEF TypeOK, JobsOK
<1>2. /\ job' \in Job /\ chain' \in Seq(Job) /\ job' # Nobody
      /\ \A x : In(chain, x) <=> x = job' \/ In(chain', x)
  <2>1. job' = Head(chain) /\ chain' = Tail(chain)
    OBVIOUS
  <2> HIDE DEF IInv, StartJob
  <2>2. job' \in Job /\ chain' \in Seq(Job) /\ job' # Nobody
    BY <1>1, <2>1, LaneAssumption DEF Job
  <2> QED
    BY <1>1, <2>1, <2>2, InTail
<1>3. DistinctJobs' /\ (job' \in Msg => ~In(chain', job'))
  <2>1. /\ Len(chain) \in Nat \ {0} /\ DOMAIN chain = 1..Len(chain)
        /\ DOMAIN chain' = 1..(Len(chain) - 1) /\ job' = chain[1]
        /\ \A i \in 1..(Len(chain) - 1) : chain'[i] = chain[i + 1]
    BY <1>1, TailAt
  <2>2. \A i \in 1..(Len(chain) - 1) : i + 1 \in 1..Len(chain) /\ i + 1 # 1
    BY <2>1
  <2>3. \A i, j \in 1..(Len(chain) - 1) : i + 1 = j + 1 => i = j
    BY <2>1
  <2> QED
    BY <2>1, <2>2, <2>3 DEF JobsOK, DistinctJobs, In
<1>4. CASE job' \in Task
  <2>1. /\ turn' = [NoTurn EXCEPT !.of = job', !.step = "prepare"] /\ stage' = "own"
        /\ job' \notin Msg /\ job' # Nobody
    BY <1>4, LaneAssumption
  <2>2. /\ turn'.of = job' /\ turn'.step = "prepare" /\ turn'.reply = FALSE
        /\ turn'.steered = Nobody /\ turn'.rounds = 0 /\ turn' # NoTurn
        /\ turn.step = "none" /\ turn.of = Nobody /\ turn.steered = Nobody
    BY <1>1, <2>1 DEF NoTurn
  <2>3. TypeOK'
    BY <1>2, <2>1, <2>2, LaneAssumption DEF TypeOK, NoTurn, Step
  <2>4. WritesOK'
    BY <2>2 DEF WritesOK, OnWrite
  <2>5. JobsOK'
    BY <1>3, <2>1, <2>2 DEF JobsOK
  <2>6. ASSUME NEW x \in Msg
        PROVE  MessageOK(x)'
    BY <1>2, <1>3, <2>1, <2>2 DEF MessageOK, Nowhere, FollowsUp, Steers, Chained, Records
  <2> QED
    BY <2>3, <2>4, <2>5, <2>6
<1>5. CASE job' \notin Task
  <2>1. job' \in Msg /\ stage' = "before" /\ turn' = turn /\ turns[job'] = 0
    BY <1>2, <1>5 DEF Job, MessageOK
  <2>2. TypeOK'
    BY <1>2, <2>1 DEF TypeOK
  <2>3. WritesOK'
    BY <2>1 DEF WritesOK
  <2>4. JobsOK'
    BY <1>1, <1>2, <1>3, <2>1 DEF JobsOK, NoTurn
  <2>5. ASSUME NEW x \in Msg
        PROVE  MessageOK(x)'
    BY <1>2, <1>3, <2>1 DEF MessageOK, Nowhere, FollowsUp, Steers, Chained, Records
  <2> QED
    BY <2>2, <2>3, <2>4, <2>5
<1> QED
  BY <1>4, <1>5

LEMMA PopFollowUpInv ==
  ASSUME IInv, PopFollowUp
  PROVE  IInv'
<1> USE DEF IInv, PopFollowUp, laneVars, queueVars, historyVars, boundVars
<1> DEFINE q == Tail(followUp)
           h == Head(followUp)
<1>1. /\ appends \in Seq(WriteRecord) /\ followUp \in Seq(Msg) /\ followUp # <<>>
      /\ turn.step = "none" /\ turn.of = Nobody /\ turn.steered = Nobody
      /\ Distinct(followUp) /\ Nobody \notin Msg
  BY LaneAssumption DEF TypeOK, NoTurn, WritesOK
<1>2. /\ h \in Msg /\ q \in Seq(Msg) /\ (\A x : In(followUp, x) <=> x = h \/ In(q, x))
      /\ Distinct(q) /\ ~In(q, h)
  <2> HIDE DEF IInv, PopFollowUp
  <2> QED
    BY <1>1, TailAt, InTail, DistinctTail
<1>3. turn' = [NoTurn EXCEPT !.of = h, !.step = "pop"]
  OBVIOUS
<1>4. appends' = Append(appends, Rewrite(Nobody, "follow_up", q))
  OBVIOUS
<1> HIDE DEF q, h
<1>5. /\ turn'.of = h /\ turn'.step = "pop" /\ turn'.reply = FALSE
      /\ turn'.steered = Nobody /\ turn'.rounds = 0 /\ turn' # NoTurn
  BY <1>1, <1>2, <1>3 DEF NoTurn
<1>6. Chains(appends, appends', Nobody, "follow_up", q)
  BY <1>1, <1>2, <1>4, WriteChained
<1>7. TypeOK'
  BY <1>1, <1>2, <1>3, <1>5, <1>6, LaneAssumption DEF TypeOK, NoTurn, Step, Job, Chains
<1>8. ~Handled(appends, Nobody) /\ Nobody \notin Task
  BY <1>1, LaneAssumption DEF WritesOK, OnWrite
<1>9. WritesOK'
  BY <1>1, <1>2, <1>5, <1>6, <1>8 DEF WritesOK, Chains, OnWrite
<1>10. job # h
  BY <1>2 DEF MessageOK, FollowsUp, Chained
<1>11. JobsOK'
  BY <1>1, <1>2, <1>5, <1>10 DEF JobsOK, DistinctJobs
<1>12. ASSUME NEW x \in Msg
       PROVE  MessageOK(x)'
  BY <1>1, <1>2, <1>5, <1>6, <1>8 DEF MessageOK, Nowhere, FollowsUp, Steers, Chained, Records, Chains
<1> QED
  BY <1>7, <1>9, <1>11, <1>12

LEMMA StartOwnTurnInv ==
  ASSUME IInv, StartOwnTurn
  PROVE  IInv'
<1> USE DEF IInv, StartOwnTurn, laneVars, queueVars, historyVars, boundVars
<1>1. /\ turn.step = "none" /\ turn.of = Nobody /\ turn.steered = Nobody
      /\ turn'.of = job /\ turn'.step = "prepare" /\ turn'.reply = TRUE
      /\ turn'.steered = Nobody /\ turn'.rounds = 0 /\ turn' # NoTurn
      /\ job # Nobody
  BY LaneAssumption DEF NoTurn
<1>2. TypeOK'
  BY <1>1, LaneAssumption DEF TypeOK, NoTurn, Step, Job
<1>3. WritesOK'
  BY <1>1 DEF WritesOK, OnWrite
<1>4. JobsOK'
  BY <1>1 DEF JobsOK, DistinctJobs
<1>5. ASSUME NEW x \in Msg
      PROVE  MessageOK(x)'
  BY <1>1 DEF MessageOK, Nowhere, FollowsUp, Steers, Chained, Records, JobsOK
<1> QED
  BY <1>2, <1>3, <1>4, <1>5

LEMMA EndJobInv ==
  ASSUME IInv, EndJob
  PROVE  IInv'
<1> USE DEF IInv, EndJob, laneVars, queueVars, historyVars, boundVars
<1>1. TypeOK'
  BY DEF TypeOK
<1>2. WritesOK'
  BY DEF WritesOK
<1>3. JobsOK'
  BY LaneAssumption DEF JobsOK, DistinctJobs, NoTurn
<1>4. ASSUME NEW x \in Msg
      PROVE  MessageOK(x)'
  BY LaneAssumption DEF MessageOK, Nowhere, FollowsUp, Steers, Chained, Records
<1> QED
  BY <1>1, <1>2, <1>3, <1>4

-----------------------------------------------------------------------------
(* The turns. *)
LEMMA AppendUserInv ==
  ASSUME IInv, AppendUser
  PROVE  IInv'
<1> USE DEF IInv, AppendUser, laneVars, queueVars, historyVars, boundVars
<1>1. appends \in Seq(WriteRecord) /\ turn # NoTurn /\ turn.of # Nobody
  BY DEF TypeOK, NoTurn
<1>2. CASE turn.of \in Msg
  <2>1. appends' = Append(appends, Rewrite(Nobody, "event", <<>>))
    BY <1>2, Entries
  <2>2. Chains(appends, appends', Nobody, "event", <<>>)
    BY <1>1, <2>1, EventChained
  <2>3. /\ turn'.of = turn.of /\ turn'.step = "user" /\ turn'.reply = turn.reply
        /\ turn'.steered = turn.steered /\ turn'.rounds = turn.rounds
        /\ turn' = [turn EXCEPT !.step = "user"]
    BY <1>2 DEF TypeOK
  <2>4. turn' # NoTurn
    BY <2>3 DEF NoTurn
  <2>5. TypeOK'
    BY <1>1, <2>2, <2>3, <2>4 DEF TypeOK, Step, Chains
  <2>6. Nobody \notin Msg \cup Task /\ ~Handled(appends, Nobody)
    BY LaneAssumption DEF WritesOK, OnWrite
  <2>7. WritesOK'
    BY <2>2, <2>3, <2>6 DEF WritesOK, OnWrite, Chains
  <2>8. JobsOK'
    BY <1>1, <1>2, <2>3 DEF JobsOK, DistinctJobs
  <2>9. ASSUME NEW x \in Msg
        PROVE  MessageOK(x)'
    BY <2>2, <2>3, <2>6, EmptyQueue DEF MessageOK, Nowhere, FollowsUp, Steers, Chained, Records, Chains
  <2> QED
    BY <2>5, <2>7, <2>8, <2>9
<1>3. CASE turn.of \notin Msg
  <2>1. /\ turn'.of = turn.of /\ turn'.step = "model" /\ turn'.reply = turn.reply
        /\ turn'.steered = turn.steered /\ turn'.rounds = turn.rounds
        /\ turn' = [turn EXCEPT !.step = "model"] /\ appends' = appends
    BY <1>3 DEF TypeOK
  <2>2. turn' # NoTurn
    BY <2>1 DEF NoTurn
  <2>3. TypeOK'
    BY <1>1, <2>1, <2>2 DEF TypeOK, Step
  <2>4. WritesOK'
    BY <2>1 DEF WritesOK, OnWrite
  <2>5. JobsOK'
    BY <1>1, <2>1 DEF JobsOK, DistinctJobs
  <2>6. ASSUME NEW x \in Msg
        PROVE  MessageOK(x)'
    BY <2>1 DEF MessageOK, Nowhere, FollowsUp, Steers, Chained, Records
  <2> QED
    BY <2>3, <2>4, <2>5, <2>6
<1> QED
  BY <1>2, <1>3

LEMMA YieldEventInv ==
  ASSUME IInv, YieldEvent
  PROVE  IInv'
<1> USE DEF IInv, YieldEvent, laneVars, queueVars, historyVars, boundVars
<1>1. /\ appends \in Seq(WriteRecord) /\ turn # NoTurn /\ turn.of # Nobody
      /\ appends' = Append(appends, Rewrite(Nobody, "event", <<>>))
  BY Entries DEF TypeOK, NoTurn
<1>2. Chains(appends, appends', Nobody, "event", <<>>)
  BY <1>1, EventChained
<1>3. /\ turn'.of = turn.of /\ turn'.step = "event" /\ turn'.reply = turn.reply
      /\ turn'.steered = turn.steered /\ turn'.rounds = turn.rounds
      /\ turn' = [turn EXCEPT !.step = "event"]
  BY DEF TypeOK
<1>4. turn' # NoTurn
  BY <1>3 DEF NoTurn
<1>5. TypeOK'
  BY <1>1, <1>2, <1>3, <1>4 DEF TypeOK, Step, Chains
<1>6. Nobody \notin Msg \cup Task /\ ~Handled(appends, Nobody)
  BY LaneAssumption DEF WritesOK, OnWrite
<1>7. WritesOK'
  BY <1>2, <1>3, <1>6 DEF WritesOK, OnWrite, Chains
<1>8. JobsOK'
  BY <1>1, <1>3 DEF JobsOK, DistinctJobs
<1>9. ASSUME NEW x \in Msg
      PROVE  MessageOK(x)'
  BY <1>2, <1>3, <1>6, EmptyQueue DEF MessageOK, Nowhere, FollowsUp, Steers, Chained, Records, Chains
<1> QED
  BY <1>5, <1>7, <1>8, <1>9

LEMMA NextRoundInv ==
  ASSUME IInv, NextRound
  PROVE  IInv'
<1> USE DEF IInv, NextRound, laneVars, queueVars, historyVars, boundVars
<1>1. /\ appends \in Seq(WriteRecord) /\ turn # NoTurn /\ turn.of # Nobody
      /\ turn.rounds + 1 \in 0..MaxRounds
  BY LaneAssumption DEF TypeOK, NoTurn
<1>2. Nobody \notin Msg \cup Task /\ ~Handled(appends, Nobody)
  BY LaneAssumption DEF WritesOK, OnWrite
<1>3. CASE steer = <<>>
  <2>1. /\ turn'.of = turn.of /\ turn'.step = "model" /\ turn'.reply = turn.reply
        /\ turn'.steered = turn.steered /\ turn'.rounds = turn.rounds + 1
        /\ turn' = [turn EXCEPT !.step = "model", !.rounds = turn.rounds + 1]
        /\ appends' = appends
    BY <1>3 DEF TypeOK
  <2>2. turn' # NoTurn
    BY <2>1 DEF NoTurn
  <2>3. TypeOK'
    BY <1>1, <2>1, <2>2 DEF TypeOK, Step
  <2>4. WritesOK'
    BY <2>1 DEF WritesOK, OnWrite
  <2>5. JobsOK'
    BY <1>1, <2>1 DEF JobsOK, DistinctJobs
  <2>6. ASSUME NEW x \in Msg
        PROVE  MessageOK(x)'
    BY <2>1 DEF MessageOK, Nowhere, FollowsUp, Steers, Chained, Records
  <2> QED
    BY <2>3, <2>4, <2>5, <2>6
<1>4. CASE steer # <<>>
  <2> DEFINE q == Tail(steer)
             h == Head(steer)
  <2>1. /\ h \in Msg /\ q \in Seq(Msg)
        /\ \A x : In(steer, x) <=> x = h \/ In(q, x)
    <3>1. steer \in Seq(Msg)
      BY DEF TypeOK
    <3> HIDE DEF IInv, NextRound
    <3> QED
      BY <1>4, <3>1, TailAt, InTail
  <2>2. /\ turn'.of = turn.of /\ turn'.step = "steer_pop" /\ turn'.reply = turn.reply
        /\ turn'.steered = h /\ turn'.rounds = turn.rounds + 1
        /\ turn' = [turn EXCEPT !.step = "steer_pop", !.steered = h, !.rounds = turn.rounds + 1]
        /\ appends' = Append(appends, Rewrite(Nobody, "steer", q))
    BY <1>4 DEF TypeOK
  <2> HIDE DEF q, h
  <2>3. Chains(appends, appends', Nobody, "steer", q)
    BY <1>1, <2>1, <2>2, WriteChained
  <2>4. turn' # NoTurn
    <3>1. NoTurn.step = "none"
      BY DEF NoTurn
    <3> QED
      BY <2>2, <3>1
  <2>5. TypeOK'
    BY <1>1, <2>1, <2>2, <2>3, <2>4 DEF TypeOK, Step, Chains
  <2>6. WritesOK'
    BY <1>2, <2>2, <2>3 DEF WritesOK, OnWrite, Chains
  <2>7. JobsOK'
    BY <1>1, <2>2 DEF JobsOK, DistinctJobs
  <2>8. ASSUME NEW x \in Msg
        PROVE  MessageOK(x)'
    BY <1>2, <2>1, <2>2, <2>3 DEF MessageOK, Nowhere, FollowsUp, Steers, Chained, Records, Chains
  <2> QED
    BY <2>5, <2>6, <2>7, <2>8
<1> QED
  BY <1>3, <1>4

LEMMA EndLoopInv ==
  ASSUME IInv, EndLoop
  PROVE  IInv'
<1> USE DEF IInv, EndLoop, laneVars, queueVars, historyVars, boundVars
<1>1. /\ turn'.of = turn.of /\ turn'.step = "ending" /\ turn'.reply = turn.reply
      /\ turn'.steered = turn.steered /\ turn'.rounds = turn.rounds
      /\ turn' = [turn EXCEPT !.step = "ending"] /\ turn # NoTurn
  BY DEF TypeOK, NoTurn
<1>2. turn' # NoTurn
  BY <1>1 DEF NoTurn
<1>3. TypeOK'
  BY <1>1, <1>2 DEF TypeOK, Step
<1>4. WritesOK'
  BY <1>1 DEF WritesOK, OnWrite
<1>5. JobsOK'
  BY <1>1 DEF JobsOK, DistinctJobs
<1>6. ASSUME NEW x \in Msg
      PROVE  MessageOK(x)'
  BY <1>1 DEF MessageOK, Nowhere, FollowsUp, Steers, Chained, Records
<1> QED
  BY <1>3, <1>4, <1>5, <1>6

LEMMA FinishTurnInv ==
  ASSUME IInv, FinishTurn
  PROVE  IInv'
<1> USE DEF IInv, Answer, FinishTurn, laneVars, queueVars, historyVars, boundVars
<1>1. /\ turn'.of = Nobody /\ turn'.step = "none" /\ turn'.reply = FALSE
      /\ turn'.steered = Nobody /\ turn'.rounds = 0 /\ turn' = NoTurn
  BY DEF NoTurn
<1>2. TypeOK'
  <2>1. request' \in [Msg -> RequestState]
    BY DEF TypeOK, RequestState
  <2>2. turn' \in [of : Job \cup {Nobody}, step : Step, reply : BOOLEAN,
                   steered : Msg \cup {Nobody}, rounds : 0..MaxRounds]
    BY <1>1, LaneAssumption DEF NoTurn, Step
  <2> QED
    BY <1>1, <2>1, <2>2 DEF TypeOK
<1>3. WritesOK'
  BY <1>1 DEF WritesOK, OnWrite
<1>4. JobsOK'
  BY <1>1, LaneAssumption DEF JobsOK, DistinctJobs
<1>5. ASSUME NEW x \in Msg
      PROVE  MessageOK(x)'
  <2>1. request'[x] = request[x] \/ (x = turn.of /\ request'[x] = "completed")
    BY DEF TypeOK
  <2>2. job' \in {job, Nobody} /\ x # Nobody
    BY LaneAssumption
  <2> QED
    BY <1>1, <2>1, <2>2 DEF MessageOK, Nowhere, FollowsUp, Steers, Chained, Records
<1> QED
  BY <1>2, <1>3, <1>4, <1>5

-----------------------------------------------------------------------------
(* The writes. *)

(* What a write puts in a queue was on its way there. *)
LEMMA LandedQueues ==
  ASSUME IInv, NEW v, NEW a, Lands(appends, v, a), Write(a)
  PROVE  /\ followUp' \in Seq(Msg) /\ steer' \in Seq(Msg) /\ Distinct(followUp')
         /\ \A m : In(followUp', m) \/ Written(v, "follow_up", m) => FollowsUp(m)
         /\ \A m : In(steer', m) \/ Written(v, "steer", m)
                     => In(steer, m) \/ Written(appends, "steer", m)
         /\ \A m \in Msg : Handled(v, m) => ~In(followUp', m) /\ ~In(steer', m)
<1> USE DEF IInv
<1>1. followUp' \in Seq(Msg) /\ steer' \in Seq(Msg)
  BY DEF TypeOK, Write, Lands, WriteRecord
<1>2. Distinct(followUp')
  BY DEF Write, WritesOK, Lands
<1>3. /\ \A m : In(followUp', m) \/ Written(v, "follow_up", m) => FollowsUp(m)
      /\ \A m : In(steer', m) \/ Written(v, "steer", m)
                  => In(steer, m) \/ Written(appends, "steer", m)
  BY DEF Write, Lands, FollowsUp
<1>4. ASSUME NEW m \in Msg, Handled(v, m)
      PROVE  ~In(followUp', m) /\ ~In(steer', m)
  <2>1. Handled(appends, m) /\ m \notin Task
    BY <1>4, LaneAssumption DEF Lands
  <2>2. OnlyOwn(appends, m) /\ ~In(followUp, m) /\ ~In(steer, m) /\ OneEach(appends)
    BY <2>1 DEF MessageOK, WritesOK
  <2>3. a.by # m
    BY <1>4, <2>1, <2>2 DEF Lands
  <2> QED
    BY <2>2, <2>3 DEF Write, Lands
<1> QED
  BY <1>1, <1>2, <1>3, <1>4

LEMMA LandTurnAppendInv ==
  ASSUME IInv, LandTurnAppend
  PROVE  IInv'
<1> USE DEF IInv, LandTurnAppend, laneVars, boundVars
<1> DEFINE v == Tail(appends)
           a == Head(appends)
<1>1. Lands(appends, v, a)
  BY WriteDone DEF TypeOK, Landed
<1>2. a.by = Nobody /\ Write(a)
      /\ appends' = IF turn.step = "steer_pop" THEN Append(v, Entry) ELSE v
  OBVIOUS
<1> HIDE DEF v, a
<1>3. turn.step \in OnWrite /\ turn.of # Nobody /\ Nobody \notin Msg \cup Task /\ ~Handled(v, Nobody)
  BY <1>1, <1>2, LaneAssumption DEF WritesOK, Lands, TypeOK, NoTurn, OnWrite
<1>4. /\ \A k, x : Written(appends', k, x) <=> Written(v, k, x)
      /\ \A x \in Msg : Handled(appends', x) <=> Handled(v, x)
      /\ Handled(appends', Nobody) <=> turn.step = "steer_pop"
      /\ \A x : OnlyOwn(v, x) => OnlyOwn(appends', x)
      /\ OneEach(appends') /\ DistinctItems(appends') /\ appends' \in Seq(WriteRecord)
  <2>1. OneEach(v) /\ DistinctItems(v) /\ v \in Seq(WriteRecord)
    BY <1>1 DEF Lands, WritesOK
  <2>2. CASE turn.step = "steer_pop"
    <3>1. Chains(v, appends', Nobody, "event", <<>>)
      BY <1>2, <2>1, <2>2, Entries, EventChained
    <3> HIDE DEF IInv, LandTurnAppend
    <3> QED
      BY <1>3, <2>1, <2>2, <3>1, EmptyQueue DEF Chains
  <2>3. CASE turn.step # "steer_pop"
    BY <1>2, <1>3, <2>1, <2>3
  <2> QED
    BY <2>2, <2>3
<1>5. /\ turn'.of = turn.of /\ turn'.rounds = turn.rounds /\ turn'.reply \in BOOLEAN
      /\ turn'.step \in {"prepare", "model", "decide", "steer_item"}
      /\ (turn'.step = "steer_item") = (turn.step = "steer_pop")
      /\ turn'.step = "prepare" => turn.step = "pop"
      /\ turn'.reply => turn.of \in Msg
      /\ turn'.steered \in {turn.steered, Nobody}
      /\ turn' \in [of : Job \cup {Nobody}, step : Step, reply : BOOLEAN,
                    steered : Msg \cup {Nobody}, rounds : 0..MaxRounds]
  <2>1. CASE turn.step = "pop"
    <3>1. PICK b \in BOOLEAN : b = (turn.of \in waiters)
      <4>1. (turn.of \in waiters) \in BOOLEAN
        OBVIOUS
      <4> QED
        BY <4>1
    <3>2. turn' = [turn EXCEPT !.step = "prepare", !.reply = b]
      BY <2>1, <3>1 DEF Resume
    <3> QED
      BY <2>1, <3>2 DEF TypeOK, JobsOK, Step
  <2>2. CASE turn.step = "user"
    BY <2>2 DEF Resume, TypeOK, JobsOK, Step
  <2>3. CASE turn.step = "event"
    BY <2>3 DEF Resume, TypeOK, JobsOK, Step
  <2>4. CASE turn.step = "steer_pop"
    BY <2>4 DEF Resume, TypeOK, JobsOK, Step
  <2>5. CASE turn.step = "steer_item"
    BY <2>5 DEF Resume, TypeOK, JobsOK, Step
  <2> QED
    BY <1>3, <2>1, <2>2, <2>3, <2>4, <2>5 DEF OnWrite
<1>6. turn' # NoTurn
  <2>1. NoTurn.step = "none"
    BY DEF NoTurn
  <2> QED
    BY <1>5, <2>1
<1>7. TypeOK'
  <2>1. waiters' \in SUBSET Msg
    BY DEF TypeOK
  <2>2. turns' \in [Msg -> Nat] /\ guided' \in [Msg -> Nat]
    <3>1. /\ turns \in [Msg -> Nat] /\ guided \in [Msg -> Nat]
          /\ turns' = turns \/ turns' = [turns EXCEPT ![turn.of] = turns[turn.of] + 1]
          /\ guided' = guided \/ guided' = [guided EXCEPT ![turn.steered] = guided[turn.steered] + 1]
      BY DEF TypeOK
    <3> HIDE DEF IInv, LandTurnAppend
    <3> QED
      BY <3>1
  <2>3. followUp' \in Seq(Msg) /\ steer' \in Seq(Msg)
    BY <1>1, <1>2, LandedQueues
  <2> QED
    BY <1>3, <1>4, <1>5, <1>6, <2>1, <2>2, <2>3 DEF TypeOK
<1>8. WritesOK'
  <2>1. Distinct(followUp')
    BY <1>1, <1>2, LandedQueues
  <2> QED
    BY <1>4, <1>5, <2>1 DEF WritesOK, OnWrite
<1>9. \A x \in Msg : In(followUp', x) \/ Written(v, "follow_up", x) => FollowsUp(x) /\ turn.of # x
  <2> SUFFICES ASSUME NEW x \in Msg, In(followUp', x) \/ Written(v, "follow_up", x)
               PROVE  FollowsUp(x) /\ turn.of # x
    OBVIOUS
  <2>1. FollowsUp(x)
    BY <1>1, <1>2, LandedQueues
  <2>2. turn.step # "pop" \/ turn.of # x
    BY <1>1, <1>2 DEF WritesOK, Lands, Write
  <2> QED
    BY <2>1, <2>2 DEF MessageOK
<1>10. JobsOK'
  <2>1. job \in Msg /\ stage = "before" => turns'[job] = turns[job]
    BY LaneAssumption DEF JobsOK, TypeOK
  <2>2. job # Nobody
    BY <1>3 DEF JobsOK, NoTurn
  <2> QED
    BY <1>5, <2>1, <2>2 DEF JobsOK, DistinctJobs
<1>11. ASSUME NEW x \in Msg
       PROVE  MessageOK(x)'
  <2>1. /\ x # turn.of => turns'[x] = turns[x]
        /\ turn.step # "user" => turns'[x] = turns[x]
        /\ x # turn.of => (x \in waiters' <=> x \in waiters)
    BY DEF TypeOK
  <2>2. /\ In(steer', x) \/ Written(v, "steer", x) => In(steer, x) \/ Written(appends, "steer", x)
        /\ Handled(v, x) => ~In(followUp', x) /\ ~In(steer', x)
    BY <1>1, <1>2, LandedQueues
  <2>3. /\ Handled(v, x) => Handled(appends, x)
        /\ OnlyOwn(appends, x) => OnlyOwn(v, x)
    BY <1>1 DEF Lands
  <2>4. x # Nobody
    BY LaneAssumption
  <2> QED
    BY <1>4, <1>5, <1>9, <2>1, <2>2, <2>3, <2>4
       DEF MessageOK, Nowhere, FollowsUp, Steers, Chained, Records
<1> QED
  BY <1>7, <1>8, <1>10, <1>11

LEMMA LandHandlerInv ==
  ASSUME IInv, LandHandler
  PROVE  IInv'
<1> USE DEF IInv, LandHandler, laneVars, historyVars, boundVars
<1> DEFINE v == Tail(appends)
           a == Head(appends)
<1>1. Lands(appends, v, a)
  BY WriteDone DEF TypeOK, Landed
<1>2. /\ a.by # Nobody /\ Write(a) /\ appends' = v /\ Handled(appends, a.by)
      /\ recording' = recording \cup {<<a.by, a.writes>>}
  BY <1>1 DEF AppendDone, Lands
<1>3. a.by \in Msg \cup Task /\ a.writes \in {"event", "follow_up", "steer"}
  BY <1>1, <1>2 DEF Lands, WriteRecord
<1> HIDE DEF v, a
<1>4. TypeOK'
  <2>1. recording' \in SUBSET ((Msg \cup Task) \X {"event", "follow_up", "steer"})
    BY <1>2, <1>3 DEF TypeOK
  <2>2. followUp' \in Seq(Msg) /\ steer' \in Seq(Msg) /\ appends' \in Seq(WriteRecord)
    BY <1>1, <1>2, LandedQueues DEF Lands
  <2> QED
    BY <2>1, <2>2 DEF TypeOK
<1>5. WritesOK'
  <2>1. Distinct(followUp')
    BY <1>1, <1>2, LandedQueues
  <2> QED
    BY <1>1, <1>2, <2>1 DEF WritesOK, Lands
<1>6. JobsOK'
  BY DEF JobsOK, DistinctJobs
<1>7. ASSUME NEW x \in Msg
      PROVE  MessageOK(x)'
  <2>1. /\ In(followUp', x) \/ Written(v, "follow_up", x) => FollowsUp(x)
        /\ In(steer', x) \/ Written(v, "steer", x) => In(steer, x) \/ Written(appends, "steer", x)
        /\ Handled(v, x) => ~In(followUp', x) /\ ~In(steer', x)
    BY <1>1, <1>2, LandedQueues
  <2>2. /\ Handled(v, x) => Handled(appends, x) /\ x # a.by
        /\ OnlyOwn(appends, x) => OnlyOwn(v, x)
    BY <1>1, LaneAssumption DEF Lands, WritesOK
  <2>3. Records(x)' => Records(x) \/ x = a.by
    BY <1>2 DEF Records
  <2>4. Records(x)' => request[x] # "unsent" /\ ~Handled(v, x)
    BY <1>2, <2>2, <2>3 DEF MessageOK
  <2> QED
    BY <1>2, <2>1, <2>2, <2>4 DEF MessageOK, Nowhere, FollowsUp, Steers, Chained
<1> QED
  BY <1>4, <1>5, <1>6, <1>7

\* A handler ends: its message, if it waits, is answered, but not "failed".
LEMMA RecordedInv ==
  ASSUME IInv, NEW x \in Msg \cup Task, recording' \in SUBSET recording,
         x \in Msg => Records(x), UNCHANGED <<task, laneVars, turn, appends, queueVars, waiters,
                                              historyVars, restarts>>,
         NEW as \in {"steering", "disowned"},
         request' = request \/ (x \in Msg /\ request' = Answer(x, as)), faults' \in 0..MaxFaults
  PROVE  IInv'
<1> USE DEF IInv, laneVars, queueVars, historyVars, Answer
<1>1. ASSUME NEW y \in Msg
      PROVE  \/ request'[y] = request[y]
             \/ request[y] = "waiting" /\ request'[y] \in {"steering", "disowned"}
                /\ ~Handled(appends, y)
  BY <1>1 DEF TypeOK, MessageOK
<1>2. TypeOK'
  <2>1. request' \in [Msg -> RequestState]
    BY DEF TypeOK, RequestState
  <2> QED
    BY <2>1 DEF TypeOK
<1>3. WritesOK' /\ JobsOK'
  BY DEF WritesOK, JobsOK, DistinctJobs
<1>4. ASSUME NEW y \in Msg
      PROVE  MessageOK(y)'
  <2>1. Records(y)' => Records(y)
    BY DEF Records
  <2> QED
    BY <1>1, <2>1 DEF MessageOK, Nowhere, FollowsUp, Steers, Chained
<1> QED
  BY <1>2, <1>3, <1>4

LEMMA RecordEnqueueInv ==
  ASSUME IInv, NEW m \in Msg, NEW queue \in {"follow_up", "steer"}, RecordEnqueue(m, queue)
  PROVE  IInv'
<1>1. /\ Records(m) /\ recording' \in SUBSET recording
      /\ request' = request \/ request' = Answer(m, "steering")
      /\ UNCHANGED <<task, laneVars, turn, appends, queueVars, waiters, historyVars, boundVars>>
  BY DEF RecordEnqueue, Records
<1>2. faults' \in 0..MaxFaults /\ restarts' = restarts
  BY <1>1 DEF IInv, TypeOK, boundVars
<1> QED
  BY <1>1, <1>2, RecordedInv

LEMMA RecordNoticeInv ==
  ASSUME IInv, NEW t \in Task, RecordNotice(t)
  PROVE  IInv'
<1> USE DEF IInv, RecordNotice, laneVars, queueVars, historyVars, boundVars
<1>1. chain \in Seq(Job) /\ t \in Job /\ t \notin Msg
  BY LaneAssumption DEF TypeOK, Job
<1>2. chain' \in Seq(Job) /\ DistinctJobs' /\ \A x \in Msg : In(chain', x) <=> In(chain, x)
  <2>1. CASE chain' = Append(chain, t)
    <3>1. DistinctJobs
      BY DEF JobsOK
    <3> HIDE DEF IInv, RecordNotice
    <3> QED
      BY <1>1, <2>1, <3>1, JobChained
  <2>2. CASE chain' = chain
    BY <1>1, <2>2 DEF JobsOK, DistinctJobs
  <2> QED
    BY <2>1, <2>2
<1>3. TypeOK'
  BY <1>2 DEF TypeOK
<1>4. WritesOK'
  BY DEF WritesOK
<1>5. JobsOK'
  BY <1>2 DEF JobsOK
<1>6. ASSUME NEW x \in Msg
      PROVE  MessageOK(x)'
  <2>1. Records(x)' => Records(x)
    BY DEF Records
  <2> QED
    BY <1>2, <2>1 DEF MessageOK, Nowhere, FollowsUp, Steers, Chained
<1> QED
  BY <1>3, <1>4, <1>5, <1>6

-----------------------------------------------------------------------------
(* Failures and restarts. *)

\* What v has when it is w, or w without its first write
Fewer(w, v) ==
  /\ v \in Seq(WriteRecord)
  /\ \A k, m : Written(v, k, m) => Written(w, k, m)
  /\ \A x : Handled(v, x) => Handled(w, x)
  /\ OneEach(w) => OneEach(v)
  /\ DistinctItems(w) => DistinctItems(v)
  /\ \A x : TakesOff(w, x) => TakesOff(v, x)
  /\ \A m : OnlyOwn(w, m) => OnlyOwn(v, m)

\* The requests of the jobs are answered "failed", and none is anywhere else.
LEMMA RejectInv ==
  ASSUME IInv, Reject, Fewer(appends, appends'), ~Handled(appends', Nobody),
         faults' \in 0..MaxFaults,
         UNCHANGED <<task, queueVars, waiters, recording, historyVars, restarts>>
  PROVE  IInv'
<1> USE DEF IInv, Reject, queueVars, historyVars
<1>1. /\ turn'.of = Nobody /\ turn'.step = "none" /\ turn'.reply = FALSE
      /\ turn'.steered = Nobody /\ turn'.rounds = 0 /\ turn' = NoTurn
  BY DEF NoTurn
<1>2. ASSUME NEW x \in Msg
      PROVE  \/ request'[x] = request[x]
             \/ request[x] = "waiting" /\ request'[x] = "failed" /\ Chained(x)
  BY <1>2 DEF Chained, In
<1>3. TypeOK'
  <2>1. request' \in [Msg -> RequestState]
    BY DEF TypeOK, RequestState
  <2>2. turn' \in [of : Job \cup {Nobody}, step : Step, reply : BOOLEAN,
                   steered : Msg \cup {Nobody}, rounds : 0..MaxRounds]
    BY <1>1, LaneAssumption DEF NoTurn, Step
  <2>3. appends' \in Seq(WriteRecord) /\ chain' \in Seq(Job)
    BY DEF Fewer
  <2> QED
    BY <1>1, <2>1, <2>2, <2>3 DEF TypeOK
<1>4. WritesOK'
  BY <1>1 DEF WritesOK, OnWrite, Fewer
<1>5. JobsOK'
  BY <1>1, LaneAssumption DEF JobsOK, DistinctJobs
<1>6. ASSUME NEW x \in Msg
      PROVE  MessageOK(x)'
  <2>1. x # Nobody /\ ~In(chain', x)
    BY LaneAssumption, EmptyQueue
  <2>2. CASE request'[x] = request[x]
    BY <1>1, <2>1, <2>2 DEF MessageOK, Nowhere, FollowsUp, Steers, Chained, Records, Fewer
  <2>3. CASE request'[x] = "failed" /\ Chained(x)
    BY <1>1, <2>1, <2>3 DEF MessageOK, Nowhere, FollowsUp, Steers, Chained, Records, Fewer
  <2> QED
    BY <1>2, <2>2, <2>3
<1> QED
  BY <1>3, <1>4, <1>5, <1>6

LEMMA FailTurnInv ==
  ASSUME IInv, FailTurn
  PROVE  IInv'
<1>1. Fewer(appends, appends')
  BY DEF IInv, TypeOK, FailTurn, Fewer
<1>2. ~Handled(appends', Nobody)
  BY DEF IInv, WritesOK, OnWrite, FailTurn
<1>3. faults' \in 0..MaxFaults
  BY LaneAssumption DEF IInv, TypeOK, FailTurn, Fault
<1> QED
  BY <1>1, <1>2, <1>3, RejectInv DEF FailTurn

LEMMA FailAppendInv ==
  ASSUME IInv, FailAppend
  PROVE  IInv'
<1> DEFINE v == Tail(appends)
           a == Head(appends)
<1>1. Lands(appends, v, a) /\ appends' = v
  BY WriteDone DEF IInv, TypeOK, FailAppend, Landed, AppendDone
<1>2. faults' \in 0..MaxFaults
  BY LaneAssumption DEF IInv, TypeOK, FailAppend, Fault
<1>3. OneEach(appends) /\ Nobody \notin Task
  BY LaneAssumption DEF IInv, WritesOK
<1>4. CASE a.by = Nobody
  <2>1. Fewer(appends, appends') /\ ~Handled(appends', Nobody)
    BY <1>1, <1>3, <1>4 DEF Lands, Fewer
  <2> QED
    BY <1>2, <1>4, <2>1, RejectInv DEF FailAppend
<1>5. CASE a.by # Nobody
  <2> USE DEF IInv, queueVars, historyVars, laneVars
  <2>0. a.by \in Msg => request[a.by] = "waiting"
    BY <1>1 DEF Lands, MessageOK
  <2>1. /\ request' = IF a.by \in Msg THEN [request EXCEPT ![a.by] = "failed"] ELSE request
        /\ UNCHANGED <<laneVars, turn, task, queueVars, waiters, recording, historyVars, restarts>>
    BY <1>5, <2>0 DEF FailAppend, Answer
  <2>2. \A x \in Msg : request'[x] = IF x = a.by THEN "failed" ELSE request[x]
    BY <2>1 DEF TypeOK
  <2> HIDE DEF v, a
  <2>3. /\ request' \in [Msg -> RequestState]
        /\ appends' \in Seq(WriteRecord)
    BY <1>1, <2>1 DEF TypeOK, RequestState, Lands
  <2>4. TypeOK'
    BY <1>2, <2>1, <2>3 DEF TypeOK
  <2>5. WritesOK'
    BY <1>1, <1>5, <2>1 DEF WritesOK, Lands
  <2>6. JobsOK'
    BY <2>1 DEF JobsOK, DistinctJobs
  <2>7. ASSUME NEW x \in Msg
        PROVE  MessageOK(x)'
    <3>1. /\ Written(v, "follow_up", x) => Written(appends, "follow_up", x)
          /\ Written(v, "steer", x) => Written(appends, "steer", x)
          /\ Handled(v, x) => Handled(appends, x)
          /\ OnlyOwn(appends, x) => OnlyOwn(v, x)
      BY <1>1 DEF Lands
    <3>2. CASE x = a.by
      <4>1. Handled(appends, x) /\ ~Handled(v, x) /\ OnlyOwn(v, x)
        BY <1>1, <1>3, <3>1, <3>2, LaneAssumption DEF Lands, MessageOK
      <4>2. ~Written(v, "follow_up", x) /\ ~Written(v, "steer", x)
        BY <1>1, <4>1, NotWritten DEF Lands
      <4> QED
        BY <1>1, <2>1, <2>2, <3>2, <4>1, <4>2
           DEF MessageOK, Nowhere, FollowsUp, Steers, Chained, Records
    <3>3. CASE x # a.by
      BY <1>1, <2>1, <2>2, <3>1, <3>3 DEF MessageOK, Nowhere, FollowsUp, Steers, Chained, Records
    <3> QED
      BY <3>2, <3>3
  <2> QED
    BY <2>4, <2>5, <2>6, <2>7
<1> QED
  BY <1>4, <1>5

LEMMA FailRecordInv ==
  ASSUME IInv, FailRecord
  PROVE  IInv'
<1>1. PICK r \in recording :
        /\ recording' = recording \ {r}
        /\ request' = IF r[1] \in Msg THEN Answer(r[1], "disowned") ELSE request
        /\ Fault
        /\ UNCHANGED <<task, laneVars, turn, appends, queueVars, waiters, historyVars, restarts>>
  BY DEF FailRecord
<1>2. r[1] \in Msg \cup Task /\ r = <<r[1], r[2]>> /\ r[2] \in {"event", "follow_up", "steer"}
  BY DEF IInv, TypeOK
<1>3. PICK x \in Msg \cup Task : x = r[1]
  BY <1>2
<1>4. faults' \in 0..MaxFaults
  BY <1>1, LaneAssumption DEF IInv, TypeOK, Fault
<1>5. Records(x)
  <2>1. <<x, r[2]>> \in recording
    BY <1>2, <1>3
  <2> QED
    BY <1>2, <2>1 DEF Records
<1> QED
  BY <1>1, <1>3, <1>4, <1>5, RecordedInv

LEMMA RestartInv ==
  ASSUME IInv, Restart
  PROVE  IInv'
<1> USE DEF IInv, Restart, queueVars, historyVars
<1>1. /\ turn'.of = Nobody /\ turn'.step = "none" /\ turn'.reply = FALSE
      /\ turn'.steered = Nobody /\ turn'.rounds = 0 /\ turn' = NoTurn
  BY DEF NoTurn
<1>2. \A x \in Msg : request'[x] = IF request[x] = "waiting" THEN "lost" ELSE request[x]
  OBVIOUS
<1>3. TypeOK'
  <2>1. request' \in [Msg -> RequestState] /\ restarts' \in 0..MaxRestarts
    BY LaneAssumption DEF TypeOK, RequestState
  <2>2. turn' \in [of : Job \cup {Nobody}, step : Step, reply : BOOLEAN,
                   steered : Msg \cup {Nobody}, rounds : 0..MaxRounds]
    BY <1>1, LaneAssumption DEF NoTurn, Step
  <2>3. chain' \in Seq(Job) /\ appends' \in Seq(WriteRecord) /\ waiters' \in SUBSET Msg
        /\ recording' = {}
    OBVIOUS
  <2> QED
    BY <1>1, <2>1, <2>2, <2>3 DEF TypeOK
<1>4. WritesOK'
  BY <1>1, EmptyWrites DEF WritesOK, OnWrite
<1>5. JobsOK'
  BY <1>1, LaneAssumption DEF JobsOK, DistinctJobs
<1>6. ASSUME NEW x \in Msg
      PROVE  MessageOK(x)'
  BY <1>1, <1>2, LaneAssumption, EmptyQueue, EmptyWrites
     DEF MessageOK, Nowhere, FollowsUp, Steers, Chained, Records
<1> QED
  BY <1>3, <1>4, <1>5, <1>6

-----------------------------------------------------------------------------
(* The invariant. *)
LEMMA InitIInv == Init => IInv
<1> SUFFICES ASSUME Init
             PROVE  IInv
  OBVIOUS
<1> USE DEF Init
<1>1. /\ turn.of = Nobody /\ turn.step = "none" /\ turn.reply = FALSE
      /\ turn.steered = Nobody /\ turn.rounds = 0 /\ turn = NoTurn
  BY DEF NoTurn
<1>2. TypeOK
  <2>1. request \in [Msg -> RequestState] /\ task \in [Task -> {"running", "noticed", "delivered"}]
    BY DEF RequestState
  <2>2. turn \in [of : Job \cup {Nobody}, step : Step, reply : BOOLEAN,
                  steered : Msg \cup {Nobody}, rounds : 0..MaxRounds]
    BY <1>1, LaneAssumption DEF NoTurn, Step
  <2>3. /\ chain \in Seq(Job) /\ appends \in Seq(WriteRecord) /\ followUp \in Seq(Msg)
        /\ steer \in Seq(Msg) /\ waiters \in SUBSET Msg /\ recording = {}
        /\ turns \in [Msg -> Nat] /\ guided \in [Msg -> Nat]
    OBVIOUS
  <2>4. faults \in 0..MaxFaults /\ restarts \in 0..MaxRestarts
    BY LaneAssumption
  <2> QED
    BY <1>1, <2>1, <2>2, <2>3, <2>4 DEF TypeOK
<1>3. WritesOK
  BY <1>1, EmptyWrites DEF WritesOK, OnWrite, Distinct
<1>4. JobsOK
  BY <1>1, LaneAssumption DEF JobsOK, DistinctJobs
<1>5. ASSUME NEW m \in Msg
      PROVE  MessageOK(m)
  BY <1>1, LaneAssumption, EmptyQueue, EmptyWrites
     DEF MessageOK, Nowhere, FollowsUp, Steers, Chained, Records
<1> QED
  BY <1>2, <1>3, <1>4, <1>5 DEF IInv

LEMMA StutterIInv == IInv /\ UNCHANGED vars => IInv'
<1> SUFFICES ASSUME IInv, UNCHANGED vars
             PROVE  IInv'
  OBVIOUS
<1> USE DEF IInv, vars
<1>1. TypeOK'
  BY DEF TypeOK
<1>2. WritesOK' /\ JobsOK'
  BY DEF WritesOK, JobsOK, DistinctJobs
<1>3. ASSUME NEW m \in Msg
      PROVE  MessageOK(m)'
  BY DEF MessageOK, Nowhere, FollowsUp, Steers, Chained, Records
<1> QED
  BY <1>1, <1>2, <1>3

LEMMA StepIInv == IInv /\ [Next]_vars => IInv'
<1> SUFFICES ASSUME IInv, [Next]_vars
             PROVE  IInv'
  OBVIOUS
<1>1. CASE \E m \in Msg : EnqueueFollowUp(m) \/ EnqueueSteer(m) \/ ChainMessage(m)
  BY <1>1, EnqueueFollowUpInv, EnqueueSteerInv, ChainMessageInv
<1>2. CASE \E t \in Task : CompleteTask(t)
  BY <1>2, CompleteTaskInv
<1>3. CASE StartJob \/ PopFollowUp \/ StartOwnTurn \/ EndJob
  BY <1>3, StartJobInv, PopFollowUpInv, StartOwnTurnInv, EndJobInv
<1>4. CASE AppendUser \/ YieldEvent \/ NextRound \/ EndLoop \/ FinishTurn
  BY <1>4, AppendUserInv, YieldEventInv, NextRoundInv, EndLoopInv, FinishTurnInv
<1>5. CASE \/ LandTurnAppend \/ LandHandler
           \/ \E m \in Msg, queue \in {"follow_up", "steer"} : RecordEnqueue(m, queue)
           \/ \E t \in Task : RecordNotice(t)
  BY <1>5, LandTurnAppendInv, LandHandlerInv, RecordEnqueueInv, RecordNoticeInv
<1>6. CASE FailTurn \/ FailAppend \/ FailRecord \/ Restart
  BY <1>6, FailTurnInv, FailAppendInv, FailRecordInv, RestartInv
<1>7. CASE UNCHANGED vars
  BY <1>7, StutterIInv
<1> QED
  BY <1>1, <1>2, <1>3, <1>4, <1>5, <1>6, <1>7 DEF Next

LEMMA Invariant == Spec => []IInv
  BY InitIInv, StepIInv, PTL DEF Spec

\* Whatever the interleaving of handlers, jobs, writes, failures and restarts, every
\* variable of the lane has its type, and a turn that is over leaves nothing behind.
THEOREM TypeCorrect == Spec => []TypeOK
<1>1. IInv => TypeOK
  BY DEF IInv
<1> QED
  BY <1>1, Invariant, PTL

\* The requester of a queued follow-up that has no answer yet stays in
\* lane.followUpWaiters until drainFollowUps takes it for the follow-up's turn.
THEOREM QueuedFollowUpIsAnswerable == Spec => []QueuedIsAnswerable
<1>1. IInv => QueuedIsAnswerable
  <2> SUFFICES ASSUME IInv, NEW i \in DOMAIN followUp, request[followUp[i]] = "waiting"
               PROVE  followUp[i] \in waiters
    BY DEF QueuedIsAnswerable
  <2>1. followUp[i] \in Msg /\ In(followUp, followUp[i])
    BY DEF IInv, TypeOK, In
  <2> QED
    BY <2>1 DEF IInv, MessageOK, FollowsUp
<1> QED
  BY <1>1, Invariant, PTL

\* A request answered "failed" has no turn and steers none afterwards: nothing of it
\* is left in lane.queue, in the queues of the tree or on its way there.  (One disowned
\* by a failed diagnostic is not answered "failed" in this sense: its item is queued.)
THEOREM FailedNeverRuns == Spec => NoRunAfterFailure
<1>1. ASSUME IInv, [Next]_vars, NEW m \in Msg, request[m] = "failed"
      PROVE  turns'[m] = turns[m] /\ guided'[m] = guided[m]
  <2>1. turn.of # m /\ turn.steered # m
    BY <1>1 DEF IInv, MessageOK, Nowhere, Steers
  <2>2. CASE LandTurnAppend
    BY <1>1, <2>1, <2>2 DEF LandTurnAppend, IInv, TypeOK
  <2>3. CASE ~LandTurnAppend
    <3>1. UNCHANGED <<turns, guided>>
      BY <1>1, <2>3 DEF Next, vars, historyVars, EnqueueFollowUp, EnqueueSteer, ChainMessage,
             CompleteTask, StartJob, PopFollowUp, StartOwnTurn, EndJob, AppendUser, YieldEvent,
             NextRound, EndLoop, FinishTurn, LandHandler, RecordEnqueue, RecordNotice, FailTurn,
             FailAppend, FailRecord, Restart
    <3> QED
      BY <3>1
  <2> QED
    BY <2>2, <2>3
<1>2. IInv /\ [Next]_vars => [\A m \in Msg : request[m] = "failed"
                                => turns'[m] = turns[m] /\ guided'[m] = guided[m]]_vars
  BY <1>1
<1> QED
  BY <1>2, Invariant, PTL DEF Spec, NoRunAfterFailure

-----------------------------------------------------------------------------
(* The lane implements SerialTurns. *)

\* What Serial is given for `current`
Current ==
  IF turn.of \in Msg /\ turn.step \notin {"pop", "prepare", "user"} THEN turn.of ELSE Nobody

\* No request is sent or answered "completed".
SameRequests ==
  \A m \in Msg : /\ request'[m] = "unsent" <=> request[m] = "unsent"
                 /\ request'[m] = "completed" <=> request[m] = "completed"

LEMMA SerialStutters ==
  ASSUME SameRequests, turns' = turns, Current' = Current
  PROVE  UNCHANGED Serial!turnVars
  BY DEF SameRequests, Current, Serial!turnVars

LEMMA SerialSend ==
  ASSUME NEW m \in Msg, request[m] = "unsent", request \in [Msg -> RequestState],
         request' = [request EXCEPT ![m] = "waiting"] \/ request' = [request EXCEPT ![m] = "failed"],
         turns' = turns, Current' = Current
  PROVE  Serial!Next
<1>1. \A x \in Msg : /\ request'[x] # "unsent" <=> request[x] # "unsent" \/ x = m
                     /\ request'[x] = "completed" <=> request[x] = "completed"
  OBVIOUS
<1>2. {x \in Msg : request'[x] # "unsent"} = {x \in Msg : request[x] # "unsent"} \cup {m}
  BY <1>1
<1>3. {x \in Msg : request'[x] = "completed"} = {x \in Msg : request[x] = "completed"}
  BY <1>1
<1>4. Serial!Send(m)
  BY <1>2, <1>3 DEF Serial!Send, Current
<1> QED
  BY <1>4 DEF Serial!Next

\* A turn ends, whatever its requester hears.
LEMMA SerialEnd ==
  ASSUME SameRequests, turns' = turns, turn' = NoTurn
  PROVE  Serial!Next \/ UNCHANGED Serial!turnVars
<1>1. Current' = Nobody
  BY LaneAssumption DEF Current, NoTurn
<1>2. CASE Current = Nobody
  BY <1>1, <1>2, SerialStutters
<1>3. CASE Current # Nobody
  <2>1. PICK m \in Msg : m = Current
    BY <1>3 DEF Current
  <2>2. Serial!Finish(m)
    BY <1>1, <2>1 DEF SameRequests, Current, Serial!Finish
  <2> QED
    BY <2>2 DEF Serial!Next
<1> QED
  BY <1>2, <1>3

LEMMA StepSerial == IInv /\ [Next]_vars => [Serial!Next]_(Serial!turnVars)
<1> SUFFICES ASSUME IInv, [Next]_vars
             PROVE  Serial!Next \/ UNCHANGED Serial!turnVars
  OBVIOUS
<1> USE DEF IInv, laneVars, queueVars, historyVars, boundVars
<1>1. CASE \E m \in Msg : EnqueueFollowUp(m) \/ EnqueueSteer(m) \/ ChainMessage(m)
  <2> PICK m \in Msg : EnqueueFollowUp(m) \/ EnqueueSteer(m) \/ ChainMessage(m)
    BY <1>1
  <2>1. /\ request[m] = "unsent" /\ UNCHANGED <<turn, turns>>
        /\ \/ request' = [request EXCEPT ![m] = "waiting"]
           \/ request' = [request EXCEPT ![m] = "failed"]
    BY DEF EnqueueFollowUp, EnqueueSteer, ChainMessage
  <2> QED
    BY <2>1, SerialSend DEF TypeOK, Current
<1>2. CASE \/ \E t \in Task : CompleteTask(t) \/ RecordNotice(t)
           \/ LandHandler \/ EndJob \/ UNCHANGED vars
  <2>1. UNCHANGED <<request, turn, turns>>
    BY <1>2 DEF CompleteTask, RecordNotice, LandHandler, EndJob, vars
  <2> QED
    BY <2>1, SerialStutters DEF SameRequests, Current
<1>3. CASE StartJob \/ PopFollowUp \/ StartOwnTurn
  <2>1. turn.of = Nobody /\ UNCHANGED <<request, turns>>
    BY <1>3 DEF StartJob, PopFollowUp, StartOwnTurn, NoTurn, JobsOK
  <2>2. turn'.step \in {"pop", "prepare", "user"} \/ turn'.of = Nobody
    BY <1>3, <2>1 DEF StartJob, PopFollowUp, StartOwnTurn, NoTurn
  <2>3. Current = Nobody /\ Current' = Nobody
    BY <2>1, <2>2, LaneAssumption DEF Current
  <2> QED
    BY <2>1, <2>3, SerialStutters DEF SameRequests
<1>4. CASE AppendUser
  <2>1. turn.step = "prepare" /\ turn'.of = turn.of /\ UNCHANGED <<request, turns>>
    BY <1>4 DEF AppendUser, TypeOK
  <2>2. turn.of \in Msg => turn'.step = "user"
    BY <1>4 DEF AppendUser, TypeOK
  <2>3. Current = Nobody /\ Current' = Nobody
    BY <2>1, <2>2 DEF Current
  <2> QED
    BY <2>1, <2>3, SerialStutters DEF SameRequests
<1>5. CASE YieldEvent \/ NextRound \/ EndLoop
  <2>1. turn'.of = turn.of /\ UNCHANGED <<request, turns>>
    BY <1>5 DEF YieldEvent, NextRound, EndLoop, TypeOK
  <2>2. turn.step \notin {"pop", "prepare", "user"} /\ turn'.step \notin {"pop", "prepare", "user"}
    BY <1>5 DEF YieldEvent, NextRound, EndLoop, TypeOK
  <2>3. Current' = Current
    BY <2>1, <2>2 DEF Current
  <2> QED
    BY <2>1, <2>3, SerialStutters DEF SameRequests
<1>6. CASE FinishTurn
  <2>1. CASE turn.reply /\ request[turn.of] = "waiting"
    <3>1. /\ turn.of \in Msg /\ request[turn.of] # "unsent" /\ turn.step = "ending"
          /\ request' = [request EXCEPT ![turn.of] = "completed"]
          /\ turn' = NoTurn /\ turns' = turns
      BY <1>6, <2>1 DEF FinishTurn, Answer, JobsOK, MessageOK, Nowhere
    <3>2. Current = turn.of /\ Current' = Nobody
      BY <3>1, LaneAssumption DEF Current, NoTurn
    <3>3. \A x \in Msg : /\ request'[x] = "unsent" <=> request[x] = "unsent"
                         /\ request'[x] = "completed" <=> request[x] = "completed" \/ x = turn.of
      BY <3>1 DEF TypeOK
    <3>4. /\ {x \in Msg : request'[x] # "unsent"} = {x \in Msg : request[x] # "unsent"}
          /\ {x \in Msg : request'[x] = "completed"}
               = {x \in Msg : request[x] = "completed"} \cup {turn.of}
      BY <3>1, <3>3
    <3>5. PICK m \in Msg : m = turn.of
      BY <3>1
    <3>6. Serial!Finish(m)
      BY <3>1, <3>2, <3>4, <3>5 DEF Serial!Finish, Current
    <3> QED
      BY <3>6 DEF Serial!Next
  <2>2. CASE ~(turn.reply /\ request[turn.of] = "waiting")
    BY <1>6, <2>2, SerialEnd DEF FinishTurn, Answer, SameRequests
  <2> QED
    BY <2>1, <2>2
<1>7. CASE LandTurnAppend
  <2>1. turn.step \in OnWrite /\ UNCHANGED request
    <3>1. Lands(appends, Tail(appends), Head(appends)) /\ Head(appends).by = Nobody
      BY <1>7, WriteDone DEF LandTurnAppend, Landed, TypeOK
    <3> QED
      BY <1>7, <3>1 DEF Lands, WritesOK, LandTurnAppend
  <2>2. CASE turn.step = "user"
    <3>1. /\ turn.of \in Msg /\ request[turn.of] # "unsent" /\ turns[turn.of] = 0
          /\ turn' = [turn EXCEPT !.step = "model"]
          /\ turns' = [turns EXCEPT ![turn.of] = turns[turn.of] + 1]
      BY <1>7, <2>2 DEF LandTurnAppend, Resume, JobsOK, MessageOK, Nowhere
    <3>2. Current = Nobody /\ Current' = turn.of
      BY <2>2, <3>1 DEF Current, TypeOK
    <3>3. \A x \in Msg : turns'[x] > 0 <=> turns[x] > 0 \/ x = turn.of
      BY <3>1 DEF TypeOK
    <3>4. {x \in Msg : turns'[x] > 0} = {x \in Msg : turns[x] > 0} \cup {turn.of}
      BY <3>1, <3>3
    <3>5. PICK m \in Msg : m = turn.of
      BY <3>1
    <3>6. Serial!Run(m)
      BY <2>1, <3>1, <3>2, <3>4, <3>5 DEF Serial!Run, Current
    <3> QED
      BY <3>6 DEF Serial!Next
  <2>3. CASE turn.step # "user"
    <3>1. turn'.of = turn.of /\ UNCHANGED turns
      BY <1>7, <2>1, <2>3 DEF LandTurnAppend, Resume, TypeOK, OnWrite
    <3>2. turn'.step \in {"pop", "prepare", "user"} <=> turn.step \in {"pop", "prepare", "user"}
      BY <1>7, <2>1, <2>3 DEF LandTurnAppend, Resume, TypeOK, OnWrite
    <3>3. Current' = Current
      BY <3>1, <3>2 DEF Current
    <3> QED
      BY <2>1, <3>1, <3>3, SerialStutters DEF SameRequests
  <2> QED
    BY <2>2, <2>3
<1>8. CASE \/ \E m \in Msg, queue \in {"follow_up", "steer"} : RecordEnqueue(m, queue)
           \/ FailRecord \/ (FailAppend /\ Head(appends).by # Nobody)
  <2>1. UNCHANGED <<turn, turns>>
    BY <1>8 DEF RecordEnqueue, FailRecord, FailAppend
  <2>2. \/ request' = request
        \/ \E m \in Msg, as \in {"steering", "disowned", "failed"} : request' = Answer(m, as)
    BY <1>8 DEF RecordEnqueue, FailRecord, FailAppend
  <2>3. SameRequests
    BY <2>2 DEF Answer, SameRequests, TypeOK
  <2> QED
    BY <2>1, <2>3, SerialStutters DEF Current
<1>9. CASE FailTurn \/ Restart \/ (FailAppend /\ Head(appends).by = Nobody)
  <2>1. turn' = NoTurn /\ turns' = turns
    BY <1>9 DEF FailTurn, Restart, FailAppend, Reject
  <2>2. SameRequests
    BY <1>9 DEF FailTurn, Restart, FailAppend, Reject, SameRequests
  <2> QED
    BY <2>1, <2>2, SerialEnd
<1> QED
  BY <1>1, <1>2, <1>3, <1>4, <1>5, <1>6, <1>7, <1>8, <1>9 DEF Next

\* Turns of a session do not overlap, no message runs twice, however its request came in
\* and whatever fails or restarts, and "completed" answers only the message's own turn.
THEOREM ImplementsSerialTurns == Spec => SerialTurnsSpec
<1>1. Init => Serial!Init
  <2> SUFFICES ASSUME Init
               PROVE  Serial!Init
    OBVIOUS
  <2>1. turn.of = Nobody
    BY DEF Init, NoTurn
  <2> QED
    BY <2>1, LaneAssumption DEF Init, Serial!Init
<1>2. IInv /\ [Next]_vars => [Serial!Next]_(Serial!turnVars)
  BY StepSerial
<1> QED
  BY <1>1, <1>2, Invariant, PTL DEF Spec, SerialTurnsSpec, Serial!Spec
=============================================================================
