--------------------------- MODULE TurnTreeProofs ----------------------------
(***************************************************************************)
(* Theorems about TurnTree, for any numbers of messages, notices, alerts,  *)
(* steers, context events, tool calls and rounds.                          *)
(*                                                                         *)
(* They rest on what Path returns and on its not changing when a node is   *)
(* written.  Path is a recursive function; its equation, and that nothing  *)
(* else satisfies it, are proved by the least node at which they fail.     *)
(***************************************************************************)
EXTENDS TurnTree, FiniteSetTheorems, NaturalsInduction, WellFoundedInduction, TLAPS

\* Path in a given tree, so that it can be said of the tree after a step too
PathIn(t, leaf) ==
  LET up[n \in 0..Len(t)] == IF n = 0 THEN {} ELSE {n} \cup up[t[n].parent]
  IN up[leaf]

LEMMA PathIsPathIn == \A leaf : Path(leaf) = PathIn(nodes, leaf)
  BY DEF Path, PathIn

Grows(t) == t \in Seq(Node) /\ \A n \in DOMAIN t : t[n].parent < n

-----------------------------------------------------------------------------
(* Paths. *)
LEMMA LeastNatural ==
  ASSUME NEW S \in SUBSET Nat, S # {}
  PROVE  \E m \in S : \A n \in S : m <= n
<1> DEFINE Less == {p \in Nat \X Nat : p[1] < p[2]}
<1>1. IsWellFoundedOn(Less, Nat)
  BY NatLessThanWellFounded, Zenon DEF OpToRel
<1>2. PICK m \in S : \A n \in S : <<n, m>> \notin Less
  <2> HIDE DEF Less
  <2> QED
    BY <1>1, WFMin, Zenon
<1>3. \A n \in S : ~(n < m)
  BY <1>2
<1> QED
  BY <1>3

LEMMA Parents ==
  ASSUME NEW t, Grows(t)
  PROVE  /\ Len(t) \in Nat /\ DOMAIN t = 1..Len(t)
         /\ \A n \in 1..Len(t) : t[n].parent \in 0..(n - 1) /\ t[n].parent \in 0..Len(t)
<1>1. Len(t) \in Nat /\ DOMAIN t = 1..Len(t) /\ \A n \in 1..Len(t) : t[n] \in Node
  BY DEF Grows
<1>2. \A n \in 1..Len(t) : t[n].parent \in Nat
  BY <1>1 DEF Node
<1> QED
  BY <1>1, <1>2 DEF Grows

\* f is the function up of PathIn, as far as k
IsUp(t, k, f) == f = [n \in 0..k |-> IF n = 0 THEN {} ELSE {n} \cup f[t[n].parent]]

LEMMA UpExists ==
  ASSUME NEW t, Grows(t)
  PROVE  \A k \in 0..Len(t) : \E f : IsUp(t, k, f)
<1> DEFINE Bad == {k \in 0..Len(t) : ~\E f : IsUp(t, k, f)}
<1>1. /\ Len(t) \in Nat /\ DOMAIN t = 1..Len(t)
      /\ \A n \in 1..Len(t) : t[n].parent \in 0..(n - 1)
  BY Parents
<1> SUFFICES ASSUME Bad # {}
             PROVE  FALSE
  OBVIOUS
<1>2. PICK k \in Bad : \A n \in Bad : k <= n
  <2>1. Bad \in SUBSET Nat
    BY <1>1
  <2> HIDE DEF Bad
  <2> QED
    BY <2>1, LeastNatural
<1>3. CASE k = 0
  <2>1. IsUp(t, k, [n \in 0..k |-> {}])
    BY <1>3 DEF IsUp
  <2> QED
    BY <1>2, <2>1
<1>4. CASE k # 0
  <2>1. k - 1 \in 0..Len(t) /\ k - 1 \notin Bad /\ k \in 1..Len(t)
    BY <1>1, <1>2, <1>4
  <2>2. PICK f : IsUp(t, k - 1, f)
    BY <2>1
  <2> DEFINE g == [n \in 0..k |-> IF n = k THEN {k} \cup f[t[k].parent] ELSE f[n]]
  <2>3. ASSUME NEW n \in 0..k
        PROVE  g[n] = IF n = 0 THEN {} ELSE {n} \cup g[t[n].parent]
    <3>1. CASE n = k
      <4>1. t[k].parent \in 0..(k - 1)
        BY <1>1, <2>1
      <4>2. g[t[k].parent] = f[t[k].parent]
        BY <1>4, <2>1, <4>1
      <4> QED
        BY <1>4, <2>1, <3>1, <4>2
    <3>2. CASE n # k
      <4>1. n \in 0..(k - 1) /\ g[n] = f[n]
        BY <2>1, <3>2
      <4>2. f[n] = IF n = 0 THEN {} ELSE {n} \cup f[t[n].parent]
        BY <2>2, <4>1 DEF IsUp
      <4>3. ASSUME n # 0
            PROVE  g[t[n].parent] = f[t[n].parent]
        BY <1>1, <2>1, <4>1, <4>3
      <4> QED
        BY <4>1, <4>2, <4>3
    <3> QED
      BY <3>1, <3>2
  <2>4. IsUp(t, k, g)
    BY <2>3 DEF IsUp
  <2> QED
    BY <1>2, <2>4
<1> QED
  BY <1>3, <1>4

\* The equation of Path
LEMMA PathEquation ==
  ASSUME NEW t, Grows(t)
  PROVE  /\ PathIn(t, 0) = {}
         /\ \A n \in 1..Len(t) : PathIn(t, n) = {n} \cup PathIn(t, t[n].parent)
<1> DEFINE up == CHOOSE f : IsUp(t, Len(t), f)
<1>1. /\ Len(t) \in Nat /\ DOMAIN t = 1..Len(t)
      /\ \A n \in 1..Len(t) : t[n].parent \in 0..Len(t)
  BY Parents
<1>2. \A leaf : PathIn(t, leaf) = up[leaf]
  BY DEF PathIn, IsUp
<1>3. IsUp(t, Len(t), up)
  BY <1>1, UpExists
<1> HIDE DEF up
<1>4. up = [n \in 0..Len(t) |-> IF n = 0 THEN {} ELSE {n} \cup up[t[n].parent]]
  BY <1>3 DEF IsUp
<1>5. up[0] = {}
  BY <1>1, <1>4
<1>6. \A n \in 1..Len(t) : up[n] = {n} \cup up[t[n].parent]
  BY <1>1, <1>4
<1> QED
  BY <1>2, <1>5, <1>6

\* Writing a node changes no path; the path of the node is that of its parent and itself.
LEMMA PathWritten ==
  ASSUME NEW t, Grows(t), NEW x \in Node, x.parent <= Len(t), NEW u, u = Append(t, x)
  PROVE  /\ Grows(u) /\ Len(u) = Len(t) + 1
         /\ \A n \in 0..Len(t) : PathIn(u, n) = PathIn(t, n)
         /\ PathIn(u, Len(u)) = {Len(u)} \cup PathIn(t, x.parent)
<1>1. /\ Len(t) \in Nat /\ DOMAIN t = 1..Len(t) /\ Len(u) = Len(t) + 1
      /\ DOMAIN u = 1..(Len(t) + 1) /\ u \in Seq(Node)
      /\ \A n \in 1..Len(t) : u[n] = t[n]
      /\ u[Len(t) + 1] = x
  BY DEF Grows
<1>2. x.parent \in 0..Len(t) /\ \A n \in 1..Len(t) : t[n].parent \in 0..(n - 1)
  BY <1>1, Parents DEF Node
<1>3. Grows(u)
  <2>1. ASSUME NEW n \in 1..(Len(t) + 1)
        PROVE  u[n].parent < n
    <3>1. CASE n = Len(t) + 1
      BY <1>1, <1>2, <3>1
    <3>2. CASE n # Len(t) + 1
      <4>1. n \in 1..Len(t)
        BY <1>1, <3>2
      <4> QED
        BY <1>1, <1>2, <4>1
    <3> QED
      BY <3>1, <3>2
  <2> QED
    BY <1>1, <2>1 DEF Grows
<1>4. \A n \in 0..Len(t) : PathIn(u, n) = PathIn(t, n)
  <2> DEFINE Bad == {n \in 0..Len(t) : PathIn(u, n) # PathIn(t, n)}
  <2> SUFFICES ASSUME Bad # {}
               PROVE  FALSE
    OBVIOUS
  <2>1. PICK k \in Bad : \A n \in Bad : k <= n
    <3>1. Bad \in SUBSET Nat
      BY <1>1
    <3> HIDE DEF Bad
    <3> QED
      BY <3>1, LeastNatural
  <2>2. k # 0
    BY <1>3, <2>1, PathEquation
  <2>3. k \in 1..Len(t) /\ k \in 1..Len(u) /\ u[k] = t[k] /\ t[k].parent \in 0..(k - 1)
    BY <1>1, <1>2, <2>1, <2>2
  <2>4. t[k].parent \notin Bad /\ t[k].parent \in 0..Len(t)
    BY <1>1, <2>1, <2>3
  <2>5. PathIn(u, k) = {k} \cup PathIn(u, u[k].parent)
    BY <1>3, <2>3, PathEquation
  <2>6. PathIn(t, k) = {k} \cup PathIn(t, t[k].parent)
    BY <2>3, PathEquation
  <2> QED
    BY <2>1, <2>3, <2>4, <2>5, <2>6
<1>5. PathIn(u, Len(u)) = {Len(u)} \cup PathIn(t, x.parent)
  <2>1. Len(u) \in 1..Len(u) /\ u[Len(u)] = x
    BY <1>1
  <2>2. PathIn(u, Len(u)) = {Len(u)} \cup PathIn(u, u[Len(u)].parent)
    BY <1>3, <2>1, PathEquation, ZenonT(60)
  <2> QED
    BY <1>2, <1>4, <2>1, <2>2
<1> QED
  BY <1>1, <1>3, <1>4, <1>5

-----------------------------------------------------------------------------
(* The inductive invariant. *)

\* The steps before the turn has a node of its own, or takes up a notice
Early == {"none", "prepare", "summarise", "context", "user"}

TurnOK ==
  /\ turn.step # "notice"
  /\ turn.step \in Early => turn.own = {}
  /\ turn.step \in {"tool", "result"} => turn.calls > 0
  /\ turn.calls > 0 /\ turn.step \in {"assistant", "supervise", "alert"} => turn.asked
  /\ turn.step \in {"tool", "result", "refresh", "steer"} => turn.asked
  /\ turn.asked /\ turn.step \in {"assistant", "supervise", "alert", "tool", "result",
                                  "refresh", "steer"} => turn.rounds < MaxRounds

\* A reminder turn takes up a notice that is written.
RemindersOK ==
  /\ \A i \in DOMAIN jobs : jobs[i] # 0 => nodes[jobs[i]].kind = "notice"
  /\ turn.reminder # 0 => nodes[turn.reminder].kind = "notice"

NoNoticeIn(w) == \A i \in DOMAIN w : w[i].kind # "notice"
NoNotice == NoNoticeIn(nodes) /\ NoNoticeIn(pending)

\* No notice was written while the turn's loop ran.
Quiet == \A n \in turn.heard : nodes[n].kind # "notice"

\* What the turn waits for: its own nodes hang on its last one, its message on a node all
\* that is done leads to, the others on the newest node, which it still is when they are
\* written unless a notice came between.
AwaitedOK(x) ==
  /\ x.kind = turn.step
  /\ x.kind \in {"assistant", "result", "steer"} => x.parent = turn.parent
  /\ x.kind = "alert" /\ Quiet => x.parent = ActiveLeaf
  /\ x.kind \in {"context", "alert"} /\ NoNotice => x.parent = ActiveLeaf
  /\ x.kind = "user" /\ NoNotice => finished \subseteq PathIn(nodes, x.parent)

OfTurn(w) == {i \in DOMAIN w : w[i].kind # "notice"}

PendingOK ==
  /\ turn.step \in Kind => OfTurn(pending) # {}
  /\ \A i \in OfTurn(pending) : AwaitedOK(pending[i])
  /\ \A i, j \in OfTurn(pending) : i = j

\* The turn's nodes are the path from its base to its last node, and, but for a
\* notice, on the path to the newest node.
PathOK ==
  /\ turn.step \notin Early => PathIn(nodes, turn.parent) = PathIn(nodes, turn.base) \cup turn.own
  /\ Running /\ Quiet => turn.own \subseteq PathIn(nodes, ActiveLeaf)
  /\ turn.step = "model" /\ Quiet => turn.own \subseteq PathIn(nodes, turn.leaf)

\* With no notice in the session, everything of the turns hangs together.
EarlierOK ==
  NoNotice =>
    /\ finished \cup turn.own \subseteq PathIn(nodes, ActiveLeaf)
    /\ turn.followUp \/ turn.step \notin Early => finished \subseteq PathIn(nodes, turn.base)
    /\ turn.step = "summarise" => turn.leaf = ActiveLeaf
    /\ turn.step = "model" => finished \subseteq PathIn(nodes, turn.leaf)

IInv == TypeOK /\ TurnOK /\ RemindersOK /\ PendingOK /\ PathOK /\ EarlierOK

-----------------------------------------------------------------------------
(* The writes. *)
LEMMA KindIsStep == Kind \subseteq Step
  BY DEF Step

\* Nothing is awaited in a step that is not named after a kind.
LEMMA NothingAwaited ==
  ASSUME TypeOK, PendingOK, turn.step \notin Kind
  PROVE  OfTurn(pending) = {}
<1>1. \A i \in DOMAIN pending : pending[i] \in Node
  BY DEF TypeOK
<1>2. \A i \in OfTurn(pending) : pending[i].kind \in Kind /\ pending[i].kind = turn.step
  BY <1>1 DEF PendingOK, AwaitedOK, OfTurn, Node
<1> QED
  BY <1>2

\* What v has when it is w and then x
Appends(w, v, x) ==
  /\ v \in Seq(Node) /\ Len(w) \in Nat /\ Len(v) = Len(w) + 1
  /\ \A i \in DOMAIN w : i \in DOMAIN v /\ v[i] = w[i]
  /\ Len(v) \in DOMAIN v /\ v[Len(v)] = x
  /\ \A i \in DOMAIN v : i \in DOMAIN w \/ i = Len(v)
  /\ NoNoticeIn(v) <=> NoNoticeIn(w) /\ x.kind # "notice"
  /\ OfTurn(v) = IF x.kind = "notice" THEN OfTurn(w) ELSE OfTurn(w) \cup {Len(v)}

LEMMA NodeAppended ==
  ASSUME NEW w \in Seq(Node), NEW x \in Node, NEW v, v = Append(w, x)
  PROVE  Appends(w, v, x)
<1>1. /\ v \in Seq(Node) /\ Len(w) \in Nat /\ Len(v) = Len(w) + 1
      /\ DOMAIN w = 1..Len(w) /\ DOMAIN v = 1..(Len(w) + 1)
      /\ \A i \in 1..Len(w) : v[i] = w[i]
      /\ v[Len(w) + 1] = x
  OBVIOUS
<1>2. /\ \A i \in DOMAIN w : i \in DOMAIN v /\ v[i] = w[i]
      /\ Len(v) \in DOMAIN v /\ v[Len(v)] = x
      /\ \A i \in DOMAIN v : i \in DOMAIN w \/ i = Len(v)
  <2>1. /\ \A i \in 1..Len(w) : i \in 1..(Len(w) + 1)
        /\ Len(w) + 1 \in 1..(Len(w) + 1)
        /\ \A i \in 1..(Len(w) + 1) : i \in 1..Len(w) \/ i = Len(w) + 1
    BY <1>1
  <2> QED
    BY <1>1, <2>1
<1>3. NoNoticeIn(v) <=> NoNoticeIn(w) /\ x.kind # "notice"
  BY <1>2 DEF NoNoticeIn
<1>4. OfTurn(v) = IF x.kind = "notice" THEN OfTurn(w) ELSE OfTurn(w) \cup {Len(v)}
  BY <1>2 DEF OfTurn
<1> QED
  BY <1>1, <1>2, <1>3, <1>4 DEF Appends

\* What v has when it is w without its first node, x
Takes(w, v, x) ==
  /\ v \in Seq(Node) /\ x \in Node
  /\ 1 \in DOMAIN w /\ w[1] = x
  /\ \A i \in DOMAIN v : i + 1 \in DOMAIN w /\ v[i] = w[i + 1] /\ i + 1 # 1
  /\ \A i, j \in DOMAIN v : i + 1 = j + 1 => i = j
  /\ NoNoticeIn(w) <=> NoNoticeIn(v) /\ x.kind # "notice"
  /\ x.kind = "notice" /\ OfTurn(w) # {} => OfTurn(v) # {}

LEMMA NodeTaken ==
  ASSUME NEW w \in Seq(Node), w # <<>>, NEW v, v = Tail(w)
  PROVE  Takes(w, v, Head(w))
<1>1. /\ Len(w) \in Nat \ {0} /\ DOMAIN w = 1..Len(w) /\ DOMAIN v = 1..(Len(w) - 1)
      /\ v \in Seq(Node) /\ Head(w) \in Node /\ w[1] = Head(w)
      /\ \A i \in 1..(Len(w) - 1) : v[i] = w[i + 1]
  OBVIOUS
<1>2. /\ 1 \in DOMAIN w
      /\ \A i \in DOMAIN v : i + 1 \in DOMAIN w /\ v[i] = w[i + 1] /\ i + 1 # 1
  <2>1. 1 \in 1..Len(w) /\ \A i \in 1..(Len(w) - 1) : i + 1 \in 1..Len(w) /\ i + 1 # 1
    BY <1>1
  <2> QED
    BY <1>1, <2>1
<1>3. \A i \in DOMAIN w : w[i] = Head(w) \/ \E j \in DOMAIN v : v[j] = w[i]
  <2>1. ASSUME NEW i \in 1..Len(w), i # 1
        PROVE  i - 1 \in 1..(Len(w) - 1) /\ v[i - 1] = w[i]
    BY <1>1, <2>1
  <2> QED
    BY <1>1, <2>1, Zenon
<1>4. NoNoticeIn(w) <=> NoNoticeIn(v) /\ Head(w).kind # "notice"
  BY <1>1, <1>2, <1>3, SMTT(30) DEF NoNoticeIn
<1>5. Head(w).kind = "notice" /\ OfTurn(w) # {} => OfTurn(v) # {}
  BY <1>3 DEF OfTurn
<1>6. \A i, j \in DOMAIN v : i + 1 = j + 1 => i = j
  BY <1>1
<1> QED
  BY <1>1, <1>2, <1>4, <1>5, <1>6 DEF Takes

LEMMA NodeWritten ==
  ASSUME TypeOK, NEW x \in Node, x.parent \in 0..Len(nodes), nodes' = Append(nodes, x)
  PROVE  /\ Grows(nodes') /\ Len(nodes) \in Nat /\ Len(nodes') = Len(nodes) + 1
         /\ \A n \in 1..Len(nodes) : nodes'[n] = nodes[n]
         /\ nodes'[Len(nodes) + 1] = x
         /\ NoNoticeIn(nodes') <=> NoNoticeIn(nodes) /\ x.kind # "notice"
         /\ \A n \in 0..Len(nodes) : PathIn(nodes', n) = PathIn(nodes, n)
         /\ PathIn(nodes', Len(nodes) + 1) = {Len(nodes) + 1} \cup PathIn(nodes, x.parent)
<1>1. Grows(nodes) /\ nodes \in Seq(Node) /\ Len(nodes) \in Nat /\ DOMAIN nodes = 1..Len(nodes)
  BY DEF TypeOK, Grows
<1> PICK u : u = nodes'
  OBVIOUS
<1>2. x.parent <= Len(nodes) /\ u = Append(nodes, x)
  BY <1>1
<1>3. /\ Grows(u) /\ Len(u) = Len(nodes) + 1
      /\ \A n \in 0..Len(nodes) : PathIn(u, n) = PathIn(nodes, n)
      /\ PathIn(u, Len(u)) = {Len(u)} \cup PathIn(nodes, x.parent)
  BY <1>1, <1>2, PathWritten
<1>4. /\ \A n \in DOMAIN nodes : n \in DOMAIN u /\ u[n] = nodes[n]
      /\ u[Len(u)] = x
      /\ NoNoticeIn(u) <=> NoNoticeIn(nodes) /\ x.kind # "notice"
  <2>1. Appends(nodes, u, x)
    BY <1>1, <1>2, NodeAppended
  <2> QED
    BY <2>1 DEF Appends
<1> QED
  BY <1>1, <1>3, <1>4

-----------------------------------------------------------------------------
(* The turn chains node x and waits for it. *)
LEMMA Awaits ==
  ASSUME IInv, NEW x \in Node, x.parent \in 0..Len(nodes), x.kind # "notice",
         NEW c \in 0..MaxCalls, NEW a \in BOOLEAN,
         turn' = [turn EXCEPT !.step = x.kind, !.calls = c, !.asked = a], TurnOK',
         turn.step \notin Kind, turn.step \in Early <=> x.kind \in Early,
         turn.step \notin Early => Running,
         pending' = Append(pending, x), UNCHANGED <<nodes, jobs, finished, sent>>,
         x.kind \in {"assistant", "result", "steer"} => x.parent = turn.parent,
         x.kind = "alert" \/ (x.kind = "context" /\ NoNotice) => x.parent = ActiveLeaf,
         x.kind = "user" /\ NoNotice => finished \subseteq PathIn(nodes, x.parent)
  PROVE  IInv'
<1>1. pending \in Seq(Node) /\ \A i \in DOMAIN pending : pending[i].parent \in 0..Len(nodes)
  BY DEF IInv, TypeOK
<1>2. OfTurn(pending) = {}
  BY NothingAwaited DEF IInv
<1>3. /\ turn'.step = x.kind /\ turn'.own = turn.own /\ turn'.parent = turn.parent
      /\ turn'.base = turn.base /\ turn'.heard = turn.heard /\ turn'.reminder = turn.reminder
      /\ turn'.leaf = turn.leaf /\ turn'.followUp = turn.followUp /\ x.kind \in Kind
  BY DEF IInv, TypeOK, Node
<1> PICK v : v = pending'
  OBVIOUS
<1>4. Appends(pending, v, x)
  BY <1>1, NodeAppended
<1>5. NoNotice' <=> NoNotice
  BY <1>4 DEF NoNotice, Appends
<1>6. AwaitedOK(x)'
  BY <1>3, <1>5 DEF AwaitedOK, ActiveLeaf, Quiet
<1>7. PendingOK'
  BY <1>2, <1>4, <1>6 DEF PendingOK, Appends
<1>8. TypeOK'
  <2>1. pending' \in Seq(Node) /\ \A i \in DOMAIN pending' : pending'[i].parent \in 0..Len(nodes)
    BY <1>1, <1>4 DEF Appends
  <2>2. turn' \in [step : Step, reminder : 0..Len(nodes), followUp : BOOLEAN, parent : 0..Len(nodes),
               leaf : 0..Len(nodes), base : 0..Len(nodes), own : SUBSET (1..Len(nodes)),
               heard : SUBSET (1..Len(nodes)), calls : 0..MaxCalls, asked : BOOLEAN,
               rounds : 0..MaxRounds]
    BY <1>3 DEF IInv, TypeOK, Step
  <2> QED
    BY <2>1, <2>2 DEF IInv, TypeOK
<1>9. RemindersOK'
  BY <1>3 DEF IInv, RemindersOK
<1>10. PathOK'
  BY <1>3 DEF IInv, PathOK, ActiveLeaf, Quiet, Kind, Early, Running
<1>11. EarlierOK'
  BY <1>3, <1>5 DEF IInv, EarlierOK, ActiveLeaf, Kind
<1> QED
  BY <1>7, <1>8, <1>9, <1>10, <1>11 DEF IInv

LEMMA Bounds ==
  /\ MaxMessages \in Nat /\ MaxNotices \in Nat /\ MaxAlerts \in Nat /\ MaxSteers \in Nat
  /\ MaxContexts \in Nat /\ MaxCalls \in Nat /\ MaxRounds \in Nat
  BY TurnTreeAssumption

LEMMA Leaf ==
  ASSUME TypeOK
  PROVE  ActiveLeaf \in Nat /\ ActiveLeaf \in 0..Len(nodes)
  BY DEF TypeOK, ActiveLeaf

\* The nodes chained, and the turn they are chained in
LEMMA ChainedNode ==
  ASSUME TypeOK, NEW kind \in Kind, NEW parent \in 0..Len(nodes)
  PROVE  LET x == [kind |-> kind, parent |-> parent] IN
         x \in Node /\ x.kind = kind /\ x.parent = parent
<1>1. Len(nodes) \in Nat
  BY DEF TypeOK
<1> QED
  BY <1>1 DEF Node

LEMMA SameTurn ==
  ASSUME TypeOK, NEW step \in Step
  PROVE  /\ [turn EXCEPT !.step = step]
              = [turn EXCEPT !.step = step, !.calls = turn.calls, !.asked = turn.asked]
         /\ turn.calls \in 0..MaxCalls /\ turn.asked \in BOOLEAN
  BY DEF TypeOK

LEMMA AppendContextInv ==
  ASSUME IInv, AppendContext
  PROVE  IInv'
<1> USE DEF AppendContext
<1> PICK x : x = [kind |-> "context", parent |-> turn.leaf]
  OBVIOUS
<1>1. /\ x \in Node /\ x.kind = "context" /\ x.parent = turn.leaf /\ x.parent \in 0..Len(nodes)
  BY ChainedNode DEF IInv, TypeOK, Kind
<1>2. /\ turn' = [turn EXCEPT !.step = x.kind, !.calls = turn.calls, !.asked = turn.asked]
      /\ turn.calls \in 0..MaxCalls /\ turn.asked \in BOOLEAN
  BY <1>1, SameTurn DEF IInv, Step
<1>3. TurnOK'
  BY DEF IInv, TypeOK, TurnOK, Early
<1>4. NoNotice => x.parent = ActiveLeaf
  BY <1>1 DEF IInv, EarlierOK
<1> QED
  BY <1>1, <1>2, <1>3, <1>4, Awaits DEF Kind, Early, Chain

LEMMA AppendUserInv ==
  ASSUME IInv, AppendUser
  PROVE  IInv'
<1> USE DEF AppendUser
<1> PICK p : p = IF turn.followUp THEN turn.base ELSE ActiveLeaf
  OBVIOUS
<1> PICK x : x = [kind |-> "user", parent |-> p]
  OBVIOUS
<1>1. p \in 0..Len(nodes)
  BY Leaf DEF IInv, TypeOK
<1>2. x \in Node /\ x.kind = "user" /\ x.parent = p /\ pending' = Append(pending, x)
  BY <1>1, ChainedNode DEF IInv, Kind, Chain
<1>3. /\ turn' = [turn EXCEPT !.step = x.kind, !.calls = turn.calls, !.asked = turn.asked]
      /\ turn.calls \in 0..MaxCalls /\ turn.asked \in BOOLEAN
  BY <1>2, SameTurn DEF IInv, Step, Kind
<1>4. TurnOK'
  BY DEF IInv, TypeOK, TurnOK, Early
<1>5. NoNotice => finished \subseteq PathIn(nodes, p)
  BY DEF IInv, EarlierOK
<1> QED
  BY <1>1, <1>2, <1>3, <1>4, <1>5, Awaits DEF Kind, Early

LEMMA AppendAssistantInv ==
  ASSUME IInv, AppendAssistant
  PROVE  IInv'
<1> PICK calls \in 0..MaxCalls :
      /\ turn.rounds = MaxRounds => calls = 0
      /\ turn' = [turn EXCEPT !.step = "assistant", !.calls = calls, !.asked = calls > 0]
  BY DEF AppendAssistant
<1> USE DEF AppendAssistant
<1> PICK x : x = [kind |-> "assistant", parent |-> turn.parent]
  OBVIOUS
<1>1. /\ x \in Node /\ x.kind = "assistant" /\ x.parent = turn.parent
      /\ x.parent \in 0..Len(nodes)
  BY ChainedNode DEF IInv, TypeOK, Kind
<1>2. PICK a \in BOOLEAN : a = (calls > 0)
  <2>1. (calls > 0) \in BOOLEAN
    OBVIOUS
  <2> QED
    BY <2>1
<1>3. turn' = [turn EXCEPT !.step = x.kind, !.calls = calls, !.asked = a]
  BY <1>1, <1>2
<1>4. TurnOK'
  <2>1. turn.rounds < MaxRounds \/ calls = 0
    BY Bounds, SMTT(30) DEF IInv, TypeOK
  <2>2. /\ turn'.step = "assistant" /\ turn'.calls = calls /\ turn'.asked = a
        /\ turn'.rounds = turn.rounds
    BY <1>1, <1>3 DEF IInv, TypeOK
  <2>3. /\ a => calls > 0
        /\ calls > 0 => a
    BY <1>2, Zenon
  <2>4. a => turn.rounds < MaxRounds
    BY <2>1, <2>3
  <2> HIDE DEF AppendAssistant
  <2> QED
    BY <2>2, <2>3, <2>4 DEF TurnOK, Early
<1> QED
  BY <1>1, <1>2, <1>3, <1>4, Awaits DEF Kind, Early, Chain, Running

LEMMA AppendAlertInv ==
  ASSUME IInv, AppendAlert
  PROVE  IInv'
<1> USE DEF AppendAlert
<1> PICK x : x = [kind |-> "alert", parent |-> ActiveLeaf]
  OBVIOUS
<1>1. /\ x \in Node /\ x.kind = "alert" /\ x.parent = ActiveLeaf /\ x.parent \in 0..Len(nodes)
  BY Leaf, ChainedNode DEF IInv, Kind
<1>2. /\ turn' = [turn EXCEPT !.step = x.kind, !.calls = turn.calls, !.asked = turn.asked]
      /\ turn.calls \in 0..MaxCalls /\ turn.asked \in BOOLEAN
  BY <1>1, SameTurn DEF IInv, Step, Kind
<1>3. TurnOK'
  BY DEF IInv, TypeOK, TurnOK, Early
<1> QED
  BY <1>1, <1>2, <1>3, Awaits DEF Kind, Early, Chain, Running

LEMMA AppendResultInv ==
  ASSUME IInv, AppendResult
  PROVE  IInv'
<1> USE DEF AppendResult
<1> PICK x : x = [kind |-> "result", parent |-> turn.parent]
  OBVIOUS
<1>1. /\ x \in Node /\ x.kind = "result" /\ x.parent = turn.parent /\ x.parent \in 0..Len(nodes)
  BY ChainedNode DEF IInv, TypeOK, Kind
<1>2. /\ turn' = [turn EXCEPT !.step = x.kind, !.calls = turn.calls, !.asked = turn.asked]
      /\ turn.calls \in 0..MaxCalls /\ turn.asked \in BOOLEAN
  BY <1>1, SameTurn DEF IInv, Step, Kind
<1>3. TurnOK'
  BY DEF IInv, TypeOK, TurnOK, Early
<1> QED
  BY <1>1, <1>2, <1>3, Awaits, ZenonT(60) DEF Kind, Early, Chain, Running

LEMMA AppendSteerInv ==
  ASSUME IInv, AppendSteer
  PROVE  IInv'
<1> USE DEF AppendSteer
<1> PICK x : x = [kind |-> "steer", parent |-> turn.parent]
  OBVIOUS
<1>1. /\ x \in Node /\ x.kind = "steer" /\ x.parent = turn.parent /\ x.parent \in 0..Len(nodes)
  BY ChainedNode DEF IInv, TypeOK, Kind
<1>2. /\ turn' = [turn EXCEPT !.step = x.kind, !.calls = turn.calls, !.asked = turn.asked]
      /\ turn.calls \in 0..MaxCalls /\ turn.asked \in BOOLEAN
  BY <1>1, SameTurn DEF IInv, Step, Kind
<1>3. TurnOK'
  BY DEF IInv, TypeOK, TurnOK, Early
<1> QED
  BY <1>1, <1>2, <1>3, Awaits, ZenonT(60) DEF Kind, Early, Chain, Running

LEMMA AppendNoticeInv ==
  ASSUME IInv, AppendNotice
  PROVE  IInv'
<1> USE DEF AppendNotice
<1> PICK x : x = [kind |-> "notice", parent |-> ActiveLeaf]
  OBVIOUS
<1>1. x \in Node /\ x.kind = "notice" /\ x.parent \in 0..Len(nodes)
  BY Leaf, ChainedNode DEF IInv, Kind
<1>2. pending \in Seq(Node) /\ \A i \in DOMAIN pending : pending[i].parent \in 0..Len(nodes)
  BY DEF IInv, TypeOK
<1> PICK v : v = pending'
  OBVIOUS
<1>3. Appends(pending, v, x)
  BY <1>1, <1>2, NodeAppended DEF Chain
<1>4. ~NoNotice'
  BY <1>1, <1>3 DEF NoNotice, Appends
<1>5. PendingOK'
  <2>1. OfTurn(v) = OfTurn(pending) /\ \A i \in OfTurn(v) : v[i] = pending[i]
    BY <1>1, <1>3 DEF Appends, OfTurn
  <2>2. \A i \in OfTurn(v) : AwaitedOK(pending[i])'
    BY <1>4, <2>1 DEF IInv, PendingOK, AwaitedOK, Quiet, ActiveLeaf
  <2> QED
    BY <2>1, <2>2 DEF IInv, PendingOK
<1>6. TypeOK'
  BY <1>1, <1>2, <1>3 DEF IInv, TypeOK, Appends
<1>7. TurnOK' /\ RemindersOK' /\ PathOK'
  BY DEF IInv, TurnOK, RemindersOK, PathOK, Running, Quiet, ActiveLeaf
<1>8. EarlierOK'
  BY <1>4 DEF EarlierOK
<1> QED
  BY <1>5, <1>6, <1>7, <1>8 DEF IInv

-----------------------------------------------------------------------------
(* The turn goes on without a write. *)
LEMMA GoesOn ==
  ASSUME IInv, UNCHANGED <<nodes, pending>>, turn.step \notin Kind, turn'.step \notin Kind
  PROVE  PendingOK' /\ (NoNotice' <=> NoNotice)
<1>1. OfTurn(pending) = {}
  BY NothingAwaited DEF IInv
<1> QED
  BY <1>1 DEF PendingOK, NoNotice

LEMMA SendInv ==
  ASSUME IInv, Send
  PROVE  IInv'
<1> USE DEF Send
<1>1. jobs \in Seq(0..Len(nodes)) /\ 0 \in 0..Len(nodes)
  BY DEF IInv, TypeOK
<1>2. /\ jobs' \in Seq(0..Len(nodes))
      /\ \A i \in DOMAIN jobs' : jobs'[i] # 0 => i \in DOMAIN jobs /\ jobs'[i] = jobs[i]
  BY <1>1
<1>3. TypeOK'
  <2>1. sent' \in 0..MaxMessages
    BY Bounds DEF IInv, TypeOK
  <2> QED
    BY <1>2, <2>1, SMTT(30) DEF IInv, TypeOK
<1>4. TurnOK' /\ RemindersOK' /\ PathOK' /\ EarlierOK'
  BY <1>2 DEF IInv, TurnOK, RemindersOK, PathOK, EarlierOK, Running, Quiet, ActiveLeaf, NoNotice
<1>5. PendingOK'
  BY DEF IInv, PendingOK, AwaitedOK, Quiet, ActiveLeaf, NoNotice
<1> QED
  BY <1>3, <1>4, <1>5 DEF IInv

LEMMA StartTurnInv ==
  ASSUME IInv, StartTurn
  PROVE  IInv'
<1> USE DEF StartTurn
<1>1. /\ jobs \in Seq(0..Len(nodes)) /\ jobs # <<>>
      /\ jobs' \in Seq(0..Len(nodes)) /\ Head(jobs) \in 0..Len(nodes)
      /\ 1 \in DOMAIN jobs /\ Head(jobs) = jobs[1]
      /\ \A i \in DOMAIN jobs' : i + 1 \in DOMAIN jobs /\ jobs'[i] = jobs[i + 1]
  BY DEF IInv, TypeOK
<1> PICK followUp \in BOOLEAN :
      turn' = [NoTurn EXCEPT !.step = "prepare", !.reminder = Head(jobs), !.followUp = followUp,
                             !.base = IF followUp THEN ActiveLeaf ELSE 0]
  OBVIOUS
<1>2. /\ turn'.step = "prepare" /\ turn'.own = {} /\ turn'.heard = {} /\ turn'.calls = 0
      /\ turn'.asked = FALSE /\ turn'.reminder = Head(jobs) /\ turn.step = "none"
      /\ turn'.followUp = followUp /\ turn'.base = IF followUp THEN ActiveLeaf ELSE 0
  BY DEF NoTurn
<1>3. TypeOK'
  <2>1. turn' \in [step : Step, reminder : 0..Len(nodes), followUp : BOOLEAN, parent : 0..Len(nodes),
                   leaf : 0..Len(nodes), base : 0..Len(nodes), own : SUBSET (1..Len(nodes)),
                   heard : SUBSET (1..Len(nodes)), calls : 0..MaxCalls, asked : BOOLEAN,
                   rounds : 0..MaxRounds]
    <3>1. /\ 0 \in 0..Len(nodes) /\ 0 \in 0..MaxCalls /\ 0 \in 0..MaxRounds
          /\ ActiveLeaf \in 0..Len(nodes)
      BY Leaf, Bounds DEF IInv, ActiveLeaf
    <3> QED
      BY <1>1, <3>1 DEF NoTurn, Step
  <2> QED
    BY <1>1, <2>1 DEF IInv, TypeOK
<1>4. PendingOK' /\ (NoNotice' <=> NoNotice)
  BY <1>2, GoesOn DEF Kind
<1>5. TurnOK' /\ PathOK'
  BY <1>2 DEF TurnOK, PathOK, Early, Running
<1>6. RemindersOK'
  BY <1>1, <1>2 DEF IInv, RemindersOK
<1>7. EarlierOK'
  BY <1>2, <1>4 DEF IInv, EarlierOK, ActiveLeaf, Early
<1> QED
  BY <1>3, <1>4, <1>5, <1>6, <1>7 DEF IInv

LEMMA BeginContextInv ==
  ASSUME IInv, BeginContext
  PROVE  IInv'
<1> USE DEF BeginContext
<1>1. /\ turn'.step = "summarise" /\ turn'.own = turn.own /\ turn'.heard = turn.heard
      /\ turn'.reminder = turn.reminder /\ turn'.leaf = ActiveLeaf /\ turn.step = "prepare"
      /\ turn'.followUp = turn.followUp /\ turn'.base = turn.base
  BY DEF IInv, TypeOK
<1>2. TypeOK'
  BY Leaf DEF IInv, TypeOK, Step
<1>3. PendingOK' /\ (NoNotice' <=> NoNotice)
  BY <1>1, GoesOn DEF Kind
<1>4. TurnOK' /\ PathOK'
  BY <1>1 DEF IInv, TurnOK, PathOK, Early, Running
<1>5. RemindersOK' /\ EarlierOK'
  BY <1>1, <1>3 DEF IInv, RemindersOK, EarlierOK, ActiveLeaf, Early
<1> QED
  BY <1>2, <1>3, <1>4, <1>5 DEF IInv

LEMMA BeginReminderInv ==
  ASSUME IInv, BeginReminder
  PROVE  IInv'
<1> USE DEF BeginReminder
<1>1. /\ turn'.step = "model" /\ turn'.own = turn.own /\ turn'.heard = turn.heard
      /\ turn'.reminder = turn.reminder /\ turn'.leaf = turn.reminder
      /\ turn'.parent = turn.reminder /\ turn'.base = turn.reminder /\ turn.step = "prepare"
      /\ turn.own = {}
  BY DEF IInv, TypeOK, TurnOK, Early
<1>2. TypeOK'
  BY DEF IInv, TypeOK, Step
<1>3. PendingOK' /\ (NoNotice' <=> NoNotice)
  BY <1>1, GoesOn DEF Kind
<1>4. TurnOK' /\ PathOK'
  BY <1>1 DEF IInv, TurnOK, PathOK, Early, Running
<1>5. RemindersOK'
  BY <1>1 DEF IInv, RemindersOK
<1>6. ~NoNotice
  <2>1. turn.reminder \in DOMAIN nodes
    BY DEF IInv, TypeOK
  <2> QED
    BY <2>1 DEF IInv, RemindersOK, NoNotice, NoNoticeIn
<1>7. EarlierOK'
  BY <1>3, <1>6 DEF EarlierOK
<1> QED
  BY <1>2, <1>3, <1>4, <1>5, <1>7 DEF IInv

LEMMA EndSupervisionInv ==
  ASSUME IInv, EndSupervision
  PROVE  IInv'
<1> USE DEF EndSupervision
<1>1. /\ turn'.step = AfterSupervision /\ turn'.own = turn.own /\ turn'.heard = turn.heard
      /\ turn'.reminder = turn.reminder /\ turn'.leaf = turn.leaf /\ turn'.parent = turn.parent
      /\ turn'.base = turn.base /\ turn'.calls = turn.calls /\ turn'.asked = turn.asked
      /\ turn'.rounds = turn.rounds /\ turn'.followUp = turn.followUp /\ turn.step = "supervise"
      /\ AfterSupervision \in {"tool", "refresh", "end"}
  BY DEF IInv, TypeOK, AfterSupervision
<1>2. TypeOK'
  BY <1>1 DEF IInv, TypeOK, Step
<1>3. PendingOK' /\ (NoNotice' <=> NoNotice)
  BY <1>1, GoesOn DEF Kind
<1>4. TurnOK'
  BY <1>1 DEF IInv, TurnOK, Early, AfterSupervision
<1>5. PathOK'
  BY <1>1 DEF IInv, PathOK, Early, Running, Quiet, ActiveLeaf
<1>6. RemindersOK' /\ EarlierOK'
  BY <1>1, <1>3 DEF IInv, RemindersOK, EarlierOK, ActiveLeaf, Early
<1> QED
  BY <1>2, <1>3, <1>4, <1>5, <1>6 DEF IInv

LEMMA RefreshContextInv ==
  ASSUME IInv, RefreshContext
  PROVE  IInv'
<1> USE DEF RefreshContext, CallAgain
<1>1. /\ turn'.step = "model" /\ turn'.own = turn.own /\ turn'.heard = turn.heard
      /\ turn'.reminder = turn.reminder /\ turn'.leaf = ActiveLeaf /\ turn'.parent = turn.parent
      /\ turn'.base = turn.base /\ turn'.followUp = turn.followUp /\ turn.step = "refresh"
  BY DEF IInv, TypeOK
<1>2. TypeOK'
  <2>1. turn.rounds < MaxRounds
    BY DEF IInv, TurnOK
  <2>2. turn.rounds + 1 \in 0..MaxRounds
    <3>1. turn.rounds \in 0..MaxRounds
      BY DEF IInv, TypeOK
    <3> QED
      BY <2>1, <3>1, Bounds
  <2>3. ActiveLeaf \in 0..Len(nodes)
    BY Leaf DEF IInv
  <2> QED
    BY <2>2, <2>3 DEF IInv, TypeOK, Step
<1>3. PendingOK' /\ (NoNotice' <=> NoNotice)
  BY <1>1, GoesOn DEF Kind
<1>4. TurnOK' /\ PathOK'
  BY <1>1 DEF IInv, TurnOK, PathOK, Early, Running, Quiet, ActiveLeaf
<1>5. RemindersOK' /\ EarlierOK'
  BY <1>1, <1>3 DEF IInv, RemindersOK, EarlierOK, ActiveLeaf, Early
<1> QED
  BY <1>2, <1>3, <1>4, <1>5 DEF IInv

LEMMA CancelTurnInv ==
  ASSUME IInv, CancelTurn
  PROVE  IInv'
<1> USE DEF CancelTurn
<1>1. /\ turn'.step = "end" /\ turn'.own = turn.own /\ turn'.heard = turn.heard
      /\ turn'.reminder = turn.reminder /\ turn'.leaf = turn.leaf /\ turn'.parent = turn.parent
      /\ turn'.base = turn.base /\ turn'.followUp = turn.followUp
      /\ turn.step \in {"tool", "refresh"}
  BY DEF IInv, TypeOK
<1>2. TypeOK'
  BY DEF IInv, TypeOK, Step
<1>3. PendingOK' /\ (NoNotice' <=> NoNotice)
  BY <1>1, GoesOn DEF Kind
<1>4. TurnOK' /\ PathOK'
  BY <1>1 DEF IInv, TurnOK, PathOK, Early, Running
<1>5. RemindersOK' /\ EarlierOK'
  BY <1>1, <1>3 DEF IInv, RemindersOK, EarlierOK, ActiveLeaf, Early
<1> QED
  BY <1>2, <1>3, <1>4, <1>5 DEF IInv

LEMMA EndTurnInv ==
  ASSUME IInv, EndTurn
  PROVE  IInv'
<1> USE DEF EndTurn
<1>1. /\ turn'.step = "none" /\ turn'.own = {} /\ turn'.heard = {} /\ turn'.reminder = 0
      /\ turn'.followUp = FALSE /\ turn.step = "end"
  BY DEF NoTurn
<1>2. TypeOK'
  <2>1. turn' \in [step : Step, reminder : 0..Len(nodes), followUp : BOOLEAN, parent : 0..Len(nodes),
                   leaf : 0..Len(nodes), base : 0..Len(nodes), own : SUBSET (1..Len(nodes)),
                   heard : SUBSET (1..Len(nodes)), calls : 0..MaxCalls, asked : BOOLEAN,
                   rounds : 0..MaxRounds]
    BY Leaf, Bounds DEF NoTurn, Step, IInv, ActiveLeaf
  <2>2. finished' \in SUBSET (1..Len(nodes))
    BY DEF IInv, TypeOK
  <2> QED
    BY <2>1, <2>2 DEF IInv, TypeOK
<1>3. PendingOK' /\ (NoNotice' <=> NoNotice)
  BY <1>1, GoesOn DEF Kind
<1>4. TurnOK' /\ PathOK'
  BY <1>1 DEF TurnOK, PathOK, Early, Running, NoTurn
<1>5. RemindersOK' /\ EarlierOK'
  BY <1>1, <1>3 DEF IInv, RemindersOK, EarlierOK, ActiveLeaf, Early
<1> QED
  BY <1>2, <1>3, <1>4, <1>5 DEF IInv

-----------------------------------------------------------------------------
(* The writes. *)

\* What follows when the node the turn waits for, h, is written as node w
Lands(h, w) ==
  /\ h \in Node /\ h.parent \in 0..Len(nodes) /\ h.kind # "notice" /\ AwaitedOK(h)
  /\ w = Len(nodes) + 1 /\ w \in Nat /\ w \in 1..Len(nodes')
  /\ Grows(nodes') /\ Len(nodes') = w /\ nodes'[w] = h /\ Len(nodes) \in Nat
  /\ \A n \in 1..Len(nodes) : nodes'[n] = nodes[n]
  /\ \A n \in 0..Len(nodes) : PathIn(nodes', n) = PathIn(nodes, n)
  /\ PathIn(nodes', w) = {w} \cup PathIn(nodes, h.parent)
  /\ pending' \in Seq(Node) /\ \A i \in DOMAIN pending' : pending'[i].parent \in 0..Len(nodes')
  /\ OfTurn(pending') = {}
  /\ NoNotice' <=> NoNotice

LEMMA LandTurnNodeWrites ==
  ASSUME IInv, LandTurnNode
  PROVE  Lands(Head(pending), Written)
<1> USE DEF LandTurnNode, Written
<1> PICK h : h = Head(pending)
  OBVIOUS
<1> PICK v : v = pending'
  OBVIOUS
<1>1. /\ pending \in Seq(Node) /\ pending # <<>> /\ v = Tail(pending)
      /\ \A i \in DOMAIN pending : pending[i].parent \in 0..Len(nodes)
  BY DEF IInv, TypeOK
<1>2. Takes(pending, v, h)
  BY <1>1, NodeTaken
<1>3. /\ h \in Node /\ h.parent \in 0..Len(nodes) /\ h.kind # "notice" /\ AwaitedOK(h)
      /\ nodes' = Append(nodes, h)
  BY <1>1, <1>2 DEF Takes, IInv, PendingOK, OfTurn
<1>4. OfTurn(v) = {}
  BY <1>2, <1>3 DEF Takes, IInv, PendingOK, OfTurn
<1>5. /\ Grows(nodes') /\ Len(nodes) \in Nat /\ Len(nodes') = Len(nodes) + 1
      /\ \A n \in 1..Len(nodes) : nodes'[n] = nodes[n]
      /\ nodes'[Len(nodes) + 1] = h
      /\ NoNoticeIn(nodes') <=> NoNoticeIn(nodes) /\ h.kind # "notice"
      /\ \A n \in 0..Len(nodes) : PathIn(nodes', n) = PathIn(nodes, n)
      /\ PathIn(nodes', Len(nodes) + 1) = {Len(nodes) + 1} \cup PathIn(nodes, h.parent)
  BY <1>3, NodeWritten DEF IInv
<1>6. NoNotice' <=> NoNotice
  BY <1>2, <1>3, <1>5 DEF NoNotice, Takes
<1>7. \A i \in DOMAIN v : v[i].parent \in 0..Len(nodes')
  BY <1>1, <1>2, <1>5 DEF Takes
<1> QED
  BY <1>2, <1>3, <1>4, <1>5, <1>6, <1>7 DEF Lands, Takes

TurnsOn(n) ==
  [step : Step, reminder : 0..n, followUp : BOOLEAN, parent : 0..n, leaf : 0..n, base : 0..n,
   own : SUBSET (1..n), heard : SUBSET (1..n), calls : 0..MaxCalls, asked : BOOLEAN, rounds : 0..MaxRounds]

\* What is typed by the nodes there are is typed by one more.
LEMMA OneMore ==
  ASSUME TypeOK, NEW w, w = Len(nodes) + 1
  PROVE  turn \in TurnsOn(w) /\ jobs \in Seq(0..w) /\ finished \in SUBSET (1..w) /\ w \in 1..w
<1>1. Len(nodes) \in Nat
  BY DEF TypeOK
<1>2. 0..Len(nodes) \subseteq 0..w /\ 1..Len(nodes) \subseteq 1..w /\ w \in 1..w
  BY <1>1
<1>3. jobs \in Seq(0..w)
  <2>1. /\ jobs \in Seq(0..Len(nodes)) /\ DOMAIN jobs = 1..Len(jobs) /\ Len(jobs) \in Nat
        /\ \A i \in 1..Len(jobs) : jobs[i] \in 0..Len(nodes)
    BY SMTT(30) DEF TypeOK
  <2> QED
    BY <1>2, <2>1
<1> QED
  BY <1>2, <1>3 DEF TypeOK, TurnsOn

\* What does not depend on which of its nodes the turn had waited for
LEMMA LandedRest ==
  ASSUME IInv, NEW h, NEW w, Lands(h, w), turn' \in TurnsOn(w), turn'.reminder = turn.reminder,
         turn'.step \notin Kind, finished' \in {finished, finished \cup {w}},
         UNCHANGED <<jobs, sent>>
  PROVE  TypeOK' /\ RemindersOK' /\ PendingOK'
<1>1. TypeOK'
  <2>1. jobs \in Seq(0..w) /\ finished' \in SUBSET (1..w) /\ sent \in 0..MaxMessages
    BY OneMore DEF Lands, IInv, TypeOK
  <2> QED
    BY <2>1 DEF Lands, TypeOK, TurnsOn, Grows
<1>2. RemindersOK'
  <2>1. \A n \in 0..Len(nodes) : n # 0 => n \in 1..Len(nodes)
    BY DEF Lands
  <2>2. turn.reminder \in 0..Len(nodes) /\ \A i \in DOMAIN jobs : jobs[i] \in 0..Len(nodes)
    BY DEF IInv, TypeOK
  <2> QED
    BY <2>1, <2>2 DEF Lands, IInv, RemindersOK
<1>3. PendingOK'
  BY DEF Lands, PendingOK
<1> QED
  BY <1>1, <1>2, <1>3

\* The nodes written before keep their kinds.
LEMMA HeardBefore ==
  ASSUME IInv, NEW h, NEW w, Lands(h, w)
  PROVE  \A n \in turn.heard : nodes'[n].kind = nodes[n].kind
<1>1. turn.heard \subseteq 1..Len(nodes)
  BY DEF IInv, TypeOK
<1> QED
  BY <1>1 DEF Lands

\* The paths to the nodes the turn and the session know of
LEMMA KnownPaths ==
  ASSUME IInv, NEW h, NEW w, Lands(h, w)
  PROVE  /\ PathIn(nodes', turn.parent) = PathIn(nodes, turn.parent)
         /\ PathIn(nodes', turn.base) = PathIn(nodes, turn.base)
         /\ PathIn(nodes', turn.leaf) = PathIn(nodes, turn.leaf)
         /\ PathIn(nodes', h.parent) = PathIn(nodes, h.parent)
         /\ PathIn(nodes', w) = {w} \cup PathIn(nodes, h.parent)
         /\ ActiveLeaf' = w
  BY DEF Lands, IInv, TypeOK, ActiveLeaf

LEMMA LandUser ==
  ASSUME IInv, LandTurnNode, turn.step = "user"
  PROVE  IInv'
<1> PICK h : h = Head(pending)
  OBVIOUS
<1> PICK w : w = Written
  OBVIOUS
<1>1. Lands(h, w)
  BY LandTurnNodeWrites
<1>2. turn \in TurnsOn(w) /\ w \in 1..w /\ w \in 0..w /\ h.parent \in 0..w
  BY <1>1, OneMore DEF IInv, Lands
<1>3. turn' = [turn EXCEPT !.step = "model", !.parent = w, !.own = @ \cup {w}, !.leaf = w,
                           !.base = h.parent]
  BY <1>2 DEF LandTurnNode, Extend, TurnsOn
<1>4. /\ turn' \in TurnsOn(w) /\ turn'.reminder = turn.reminder /\ turn'.step = "model"
      /\ turn'.parent = w /\ turn'.own = turn.own \cup {w} /\ turn'.leaf = w
      /\ turn'.base = h.parent /\ turn'.heard = turn.heard
  BY <1>2, <1>3, ZenonT(60) DEF TurnsOn, Step
<1>5. TypeOK' /\ RemindersOK' /\ PendingOK'
  BY <1>1, <1>4, LandedRest DEF LandTurnNode, Kind
<1>6. turn.own = {} /\ (NoNotice => finished \subseteq PathIn(nodes, h.parent))
  BY <1>1 DEF IInv, TurnOK, Early, Lands, AwaitedOK
<1>7. TurnOK'
  BY <1>4 DEF TurnOK, Early
<1>8. PathOK'
  BY <1>1, <1>4, <1>6, KnownPaths DEF PathOK
<1>9. EarlierOK'
  BY <1>1, <1>4, <1>6, KnownPaths DEF IInv, EarlierOK, Lands, LandTurnNode
<1> QED
  BY <1>5, <1>7, <1>8, <1>9 DEF IInv

\* A node that hangs on the turn's last one becomes the last one.
LEMMA LandOwn ==
  ASSUME IInv, NEW h, NEW w, Lands(h, w), turn.step \in {"assistant", "result", "steer"},
         turn' \in TurnsOn(w), TurnOK', turn'.reminder = turn.reminder, turn'.step \notin Kind,
         turn'.step # "summarise", turn'.parent = w, turn'.own = turn.own \cup {w},
         turn'.base = turn.base, turn'.step = "model" => turn'.leaf = w,
         UNCHANGED <<jobs, finished, sent>>
  PROVE  IInv'
<1>1. TypeOK' /\ RemindersOK' /\ PendingOK'
  BY LandedRest
<1>2. h.parent = turn.parent /\ turn.step \notin Early
  BY DEF Lands, AwaitedOK, Early
<1>3. PathIn(nodes', w) = {w} \cup PathIn(nodes, turn.base) \cup turn.own
  BY <1>2, KnownPaths DEF IInv, PathOK
<1>4. PathOK'
  BY <1>3, KnownPaths DEF PathOK
<1>5. EarlierOK'
  BY <1>2, <1>3, KnownPaths DEF IInv, EarlierOK, Lands
<1> QED
  BY <1>1, <1>4, <1>5 DEF IInv

LEMMA LandAssistant ==
  ASSUME IInv, LandTurnNode, turn.step = "assistant"
  PROVE  IInv'
<1> PICK h : h = Head(pending)
  OBVIOUS
<1> PICK w : w = Written
  OBVIOUS
<1>1. Lands(h, w)
  BY LandTurnNodeWrites
<1>2. turn \in TurnsOn(w) /\ w \in 1..w /\ w \in 0..w
  BY <1>1, OneMore DEF IInv, Lands
<1>3. turn' = [turn EXCEPT !.step = "supervise", !.parent = w, !.own = @ \cup {w}]
  BY DEF LandTurnNode, Extend
<1>4. /\ turn' \in TurnsOn(w) /\ turn'.reminder = turn.reminder /\ turn'.step = "supervise"
      /\ turn'.parent = w /\ turn'.own = turn.own \cup {w} /\ turn'.base = turn.base
      /\ turn'.calls = turn.calls /\ turn'.asked = turn.asked /\ turn'.rounds = turn.rounds
  BY <1>2, <1>3 DEF TurnsOn, Step
<1>5. TurnOK'
  BY <1>4 DEF IInv, TurnOK, Early
<1> QED
  BY <1>1, <1>4, <1>5, LandOwn DEF LandTurnNode, Kind

LEMMA LandResult ==
  ASSUME IInv, LandTurnNode, turn.step = "result"
  PROVE  IInv'
<1> PICK h : h = Head(pending)
  OBVIOUS
<1> PICK w : w = Written
  OBVIOUS
<1>1. Lands(h, w)
  BY LandTurnNodeWrites
<1>2. turn \in TurnsOn(w) /\ w \in 1..w /\ w \in 0..w
  BY <1>1, OneMore DEF IInv, Lands
<1> PICK c : c = turn.calls - 1
  OBVIOUS
<1>3. c \in 0..MaxCalls
  <2>1. turn.calls \in 0..MaxCalls /\ turn.calls > 0
    BY DEF IInv, TypeOK, TurnOK
  <2> QED
    BY <2>1, Bounds
<1>4. turn' = [turn EXCEPT !.step = "supervise", !.parent = w, !.own = @ \cup {w}, !.calls = c]
  BY <1>2 DEF LandTurnNode, Extend, TurnsOn
<1>5. /\ turn' \in TurnsOn(w) /\ turn'.reminder = turn.reminder /\ turn'.step = "supervise"
      /\ turn'.parent = w /\ turn'.own = turn.own \cup {w} /\ turn'.base = turn.base
      /\ turn'.asked = turn.asked /\ turn'.rounds = turn.rounds
  BY <1>2, <1>3, <1>4, ZenonT(60) DEF TurnsOn, Step
<1>6. TurnOK'
  BY <1>5 DEF IInv, TurnOK, Early
<1> QED
  BY <1>1, <1>5, <1>6, LandOwn DEF LandTurnNode, Kind

LEMMA LandSteer ==
  ASSUME IInv, LandTurnNode, turn.step = "steer"
  PROVE  IInv'
<1> PICK h : h = Head(pending)
  OBVIOUS
<1> PICK w : w = Written
  OBVIOUS
<1>1. Lands(h, w)
  BY LandTurnNodeWrites
<1>2. turn \in TurnsOn(w) /\ w \in 1..w /\ w \in 0..w
  BY <1>1, OneMore DEF IInv, Lands
<1> PICK r : r = turn.rounds + 1
  OBVIOUS
<1>3. r \in 0..MaxRounds
  <2>1. turn.rounds \in 0..MaxRounds /\ turn.rounds < MaxRounds
    BY DEF IInv, TypeOK, TurnOK
  <2> QED
    BY <2>1, Bounds
<1>4. turn' = [turn EXCEPT !.step = "model", !.parent = w, !.own = @ \cup {w}, !.leaf = w,
                           !.rounds = r]
  BY <1>2 DEF LandTurnNode, Extend, TurnsOn
<1>5. /\ turn' \in TurnsOn(w) /\ turn'.reminder = turn.reminder /\ turn'.step = "model"
      /\ turn'.parent = w /\ turn'.own = turn.own \cup {w} /\ turn'.base = turn.base
      /\ turn'.leaf = w
  BY <1>2, <1>3, <1>4, ZenonT(60) DEF TurnsOn, Step
<1>6. TurnOK'
  BY <1>5 DEF TurnOK, Early
<1> QED
  BY <1>1, <1>5, <1>6, LandOwn DEF LandTurnNode, Kind

LEMMA LandAlert ==
  ASSUME IInv, LandTurnNode, turn.step = "alert"
  PROVE  IInv'
<1> PICK h : h = Head(pending)
  OBVIOUS
<1> PICK w : w = Written
  OBVIOUS
<1>1. Lands(h, w)
  BY LandTurnNodeWrites
<1>2. turn \in TurnsOn(w) /\ w \in 1..w
  BY <1>1, OneMore DEF IInv, Lands
<1>3. turn' = [turn EXCEPT !.step = AfterSupervision, !.heard = @ \cup {w}]
  BY DEF LandTurnNode
<1>4. /\ turn' \in TurnsOn(w) /\ turn'.reminder = turn.reminder /\ turn'.step = AfterSupervision
      /\ turn'.parent = turn.parent /\ turn'.own = turn.own /\ turn'.base = turn.base
      /\ turn'.calls = turn.calls /\ turn'.asked = turn.asked /\ turn'.rounds = turn.rounds
      /\ turn'.heard = turn.heard \cup {w}
      /\ AfterSupervision \in {"tool", "refresh", "end"}
  BY <1>2, <1>3, ZenonT(60) DEF TurnsOn, Step, AfterSupervision
<1>5. TypeOK' /\ RemindersOK' /\ PendingOK'
  BY <1>1, <1>4, LandedRest DEF LandTurnNode, Kind
<1>6. TurnOK'
  BY <1>4 DEF IInv, TurnOK, Early, AfterSupervision
<1>7. Quiet' => Quiet
  BY <1>1, <1>4, HeardBefore DEF Quiet
<1>8. /\ Quiet => h.parent = ActiveLeaf
      /\ NoNotice => h.parent = ActiveLeaf
  BY <1>1 DEF Lands, AwaitedOK
<1>9. PathOK'
  BY <1>1, <1>4, <1>7, <1>8, KnownPaths DEF IInv, PathOK, Early, Running
<1>10. EarlierOK'
  <2>1. NoNotice' => NoNotice /\ finished' = finished
    BY <1>1 DEF Lands, LandTurnNode
  <2> QED
    BY <1>1, <1>4, <1>8, <2>1, KnownPaths DEF IInv, EarlierOK, Early
<1> QED
  BY <1>5, <1>6, <1>9, <1>10 DEF IInv

LEMMA LandContext ==
  ASSUME IInv, LandTurnNode, turn.step = "context"
  PROVE  IInv'
<1> PICK h : h = Head(pending)
  OBVIOUS
<1> PICK w : w = Written
  OBVIOUS
<1>1. Lands(h, w)
  BY LandTurnNodeWrites
<1>2. turn \in TurnsOn(w)
  BY <1>1, OneMore DEF IInv, Lands
<1>3. turn' = [turn EXCEPT !.step = "prepare"]
  BY DEF LandTurnNode
<1>4. /\ turn' \in TurnsOn(w) /\ turn'.reminder = turn.reminder /\ turn'.step = "prepare"
      /\ turn'.own = turn.own /\ turn'.followUp = turn.followUp /\ turn'.base = turn.base
      /\ finished' = IF turn.followUp THEN finished ELSE finished \cup {w}
  BY <1>2, <1>3 DEF LandTurnNode, TurnsOn, Step
<1>5. TypeOK' /\ RemindersOK' /\ PendingOK'
  BY <1>1, <1>4, LandedRest DEF LandTurnNode, Kind
<1>6. TurnOK' /\ PathOK'
  BY <1>4 DEF IInv, TurnOK, PathOK, Early, Running
<1>7. EarlierOK'
  <2>1. NoNotice' => NoNotice /\ h.parent = ActiveLeaf
    BY <1>1 DEF Lands, AwaitedOK
  <2> QED
    BY <1>1, <1>4, <2>1, KnownPaths DEF IInv, EarlierOK, Early
<1> QED
  BY <1>5, <1>6, <1>7 DEF IInv

LEMMA LandTurnNodeInv ==
  ASSUME IInv, LandTurnNode
  PROVE  IInv'
<1>1. Lands(Head(pending), Written)
  BY LandTurnNodeWrites
<1>2. turn.step \in Kind \ {"notice"}
  BY <1>1 DEF Lands, AwaitedOK, Node
<1> QED
  BY <1>2, LandUser, LandAssistant, LandResult, LandSteer, LandAlert, LandContext DEF Kind

LEMMA LandNoticeInv ==
  ASSUME IInv, LandNotice
  PROVE  IInv'
<1> USE DEF LandNotice
<1> PICK h : h = Head(pending)
  OBVIOUS
<1> PICK v : v = pending'
  OBVIOUS
<1> PICK w : w = Written
  OBVIOUS
<1>1. /\ pending \in Seq(Node) /\ pending # <<>> /\ v = Tail(pending)
      /\ \A i \in DOMAIN pending : pending[i].parent \in 0..Len(nodes)
  BY DEF IInv, TypeOK
<1>2. Takes(pending, v, h)
  BY <1>1, NodeTaken
<1>3. /\ h \in Node /\ h.parent \in 0..Len(nodes) /\ h.kind = "notice"
      /\ nodes' = Append(nodes, h)
  BY <1>1, <1>2 DEF Takes
<1>4. /\ Grows(nodes') /\ Len(nodes) \in Nat /\ Len(nodes') = w /\ w = Len(nodes) + 1
      /\ \A n \in 1..Len(nodes) : nodes'[n] = nodes[n]
      /\ nodes'[w] = h /\ w \in DOMAIN nodes'
      /\ \A n \in 0..Len(nodes) : PathIn(nodes', n) = PathIn(nodes, n)
  BY <1>3, NodeWritten DEF IInv, Written, Grows
<1>5. turn \in TurnsOn(w) /\ jobs \in Seq(0..w) /\ finished \in SUBSET (1..w) /\ w \in 1..w
  BY <1>4, OneMore DEF IInv
<1>6. /\ turn' \in TurnsOn(w) /\ turn'.step = turn.step /\ turn'.reminder = turn.reminder
      /\ turn'.parent = turn.parent /\ turn'.own = turn.own /\ turn'.base = turn.base
      /\ turn'.calls = turn.calls /\ turn'.asked = turn.asked /\ turn'.rounds = turn.rounds
      /\ Running => w \in turn'.heard
  <2>1. CASE Running
    <3>1. turn' = [turn EXCEPT !.heard = @ \cup {w}]
      BY <2>1
    <3> HIDE DEF LandNotice
    <3> QED
      BY <1>5, <3>1 DEF TurnsOn
  <2>2. CASE ~Running
    <3>1. turn' = turn
      BY <2>2
    <3> HIDE DEF LandNotice
    <3> QED
      BY <1>5, <2>2, <3>1
  <2> QED
    BY <2>1, <2>2
<1>7. jobs' \in Seq(0..w) /\ \A i \in DOMAIN jobs' : jobs'[i] = w \/ (i \in DOMAIN jobs /\ jobs'[i] = jobs[i])
  <2>1. w \in 0..w
    BY <1>4
  <2>2. jobs' = jobs \/ jobs' = Append(jobs, w)
    OBVIOUS
  <2>3. \A i \in 1..(Len(jobs) + 1) : i \in 1..Len(jobs) \/ i = Len(jobs) + 1
    BY <1>5
  <2> HIDE DEF LandNotice
  <2>4. CASE jobs' = Append(jobs, w)
    <3>1. /\ jobs' \in Seq(0..w) /\ DOMAIN jobs' = 1..(Len(jobs) + 1)
          /\ DOMAIN jobs = 1..Len(jobs) /\ jobs'[Len(jobs) + 1] = w
          /\ \A i \in 1..Len(jobs) : jobs'[i] = jobs[i]
      BY <1>5, <2>1, <2>4
    <3> QED
      BY <2>3, <3>1
  <2> QED
    BY <1>5, <2>2, <2>4
<1>8. ~NoNotice' /\ (Running => ~Quiet')
  BY <1>3, <1>4, <1>6 DEF NoNotice, NoNoticeIn, Quiet
<1>9. TypeOK'
  <2>1. \A i \in DOMAIN v : v[i].parent \in 0..w
    BY <1>1, <1>2, <1>4 DEF Takes
  <2>2. sent' \in 0..MaxMessages /\ finished' \in SUBSET (1..w)
    BY <1>5 DEF IInv, TypeOK
  <2> QED
    BY <1>2, <1>4, <1>6, <1>7, <2>1, <2>2 DEF TypeOK, TurnsOn, Grows, Takes
<1>10. TurnOK'
  BY <1>6 DEF IInv, TurnOK
<1>11. RemindersOK'
  <2>1. \A n \in 0..Len(nodes) : n # 0 => n \in 1..Len(nodes)
    BY <1>4
  <2>2. turn.reminder \in 0..Len(nodes) /\ \A i \in DOMAIN jobs : jobs[i] \in 0..Len(nodes)
    BY SMTT(30) DEF IInv, TypeOK
  <2> QED
    BY <1>3, <1>4, <1>6, <1>7, <2>1, <2>2, SMTT(30) DEF IInv, RemindersOK
<1>12. PendingOK'
  <2>1. turn'.step \in Kind => OfTurn(v) # {}
    BY <1>2, <1>3, <1>6 DEF Takes, IInv, PendingOK
  <2>2. ASSUME NEW i \in OfTurn(v)
        PROVE  i + 1 \in OfTurn(pending) /\ v[i] = pending[i + 1]
    BY <1>2 DEF Takes, OfTurn
  <2>3. \A i \in OfTurn(v) : AwaitedOK(v[i])
    BY <2>2 DEF IInv, PendingOK
  <2>4. ASSUME NEW i \in OfTurn(v)
        PROVE  AwaitedOK(v[i])'
    BY <1>6, <1>8, <2>3 DEF AwaitedOK, Running
  <2>5. \A i, j \in OfTurn(v) : i = j
    <3>1. \A i, j \in OfTurn(v) : i + 1 = j + 1
      BY <2>2 DEF IInv, PendingOK
    <3> QED
      BY <1>2, <3>1 DEF Takes, OfTurn
  <2> QED
    BY <2>1, <2>4, <2>5 DEF PendingOK
<1>13. PathOK'
  <2>1. turn.parent \in 0..Len(nodes) /\ turn.base \in 0..Len(nodes)
    BY DEF IInv, TypeOK
  <2>2. Running' <=> Running
    BY <1>6 DEF Running
  <2> QED
    BY <1>4, <1>6, <1>8, <2>1, <2>2 DEF IInv, PathOK, Running
<1>14. EarlierOK'
  BY <1>8 DEF EarlierOK
<1> QED
  BY <1>9, <1>10, <1>11, <1>12, <1>13, <1>14 DEF IInv

-----------------------------------------------------------------------------
(* The theorems. *)
LEMMA InitIInv == Init => IInv
<1> SUFFICES ASSUME Init
             PROVE  IInv
  OBVIOUS
<1> USE DEF Init
<1>1. TypeOK
  BY Bounds DEF TypeOK, NoTurn, Step
<1>2. TurnOK /\ RemindersOK /\ PendingOK
  BY DEF TurnOK, RemindersOK, PendingOK, NoTurn, Early, OfTurn, Kind
<1>3. PathOK /\ EarlierOK
  BY DEF PathOK, EarlierOK, NoTurn, Early, Running
<1> QED
  BY <1>1, <1>2, <1>3 DEF IInv

LEMMA StutterIInv ==
  ASSUME IInv, UNCHANGED vars
  PROVE  IInv'
<1> USE DEF vars
<1>1. TypeOK' /\ TurnOK' /\ RemindersOK'
  BY DEF IInv, TypeOK, TurnOK, RemindersOK
<1>2. PendingOK'
  BY DEF IInv, PendingOK, AwaitedOK, Quiet, ActiveLeaf, NoNotice
<1>3. PathOK' /\ EarlierOK'
  BY DEF IInv, PathOK, EarlierOK, Quiet, NoNotice, Running, ActiveLeaf
<1> QED
  BY <1>1, <1>2, <1>3 DEF IInv

LEMMA StepIInv == IInv /\ [Next]_vars => IInv'
<1> SUFFICES ASSUME IInv, [Next]_vars
             PROVE  IInv'
  OBVIOUS
<1>1. CASE UNCHANGED vars
  BY <1>1, StutterIInv
<1>2. CASE Next
  BY <1>2, SendInv, StartTurnInv, BeginContextInv, AppendContextInv, AppendUserInv,
     BeginReminderInv, AppendAssistantInv, AppendAlertInv, EndSupervisionInv, AppendResultInv,
     AppendSteerInv, RefreshContextInv, CancelTurnInv, EndTurnInv, AppendNoticeInv,
     LandTurnNodeInv, LandNoticeInv, Zenon DEF Next
<1> QED
  BY <1>1, <1>2

LEMMA Invariant == Spec => []IInv
  BY InitIInv, StepIInv, PTL DEF Spec

\* Every node hangs on an earlier one, whatever is written while it is chained, and
\* what the queues and the turn refer to is written: assertCanAppend refuses nothing.
THEOREM NodesHangOnEarlierNodes == Spec => []TypeOK
<1>1. IInv => TypeOK
  BY DEF IInv
<1> QED
  BY <1>1, Invariant, PTL

\* A turn's own nodes are one chain from its base to its last node (appendPersistent with
\* state.parentId), whatever background tasks and supervision write in between.
THEOREM TurnNodesArePath == Spec => []TurnIsPath
<1>1. IInv => TurnIsPath
  BY PathIsPathIn DEF IInv, TurnOK, PathOK, TurnIsPath
<1> QED
  BY <1>1, Invariant, PTL

\* What a model call is shown (buildContext on the newest leaf) has all its turn has
\* written, unless a notice was written while the turn's loop ran.
THEOREM CallShowsTurn == Spec => []ContextHasTurn
<1>1. IInv => ContextHasTurn
  BY PathIsPathIn DEF IInv, PathOK, ContextHasTurn, Quiet
<1> QED
  BY <1>1, Invariant, PTL

LEMMA NoneCounted ==
  ASSUME TypeOK, Count("notice") = 0
  PROVE  NoNotice
<1>1. ASSUME NEW w \in Seq(Node)
      PROVE  /\ IsFiniteSet({i \in DOMAIN w : w[i].kind = "notice"})
             /\ Cardinality({i \in DOMAIN w : w[i].kind = "notice"}) \in Nat
             /\ Cardinality({i \in DOMAIN w : w[i].kind = "notice"}) = 0 => NoNoticeIn(w)
  <2> DEFINE N == {i \in DOMAIN w : w[i].kind = "notice"}
  <2>1. IsFiniteSet(1..Len(w)) /\ N \subseteq 1..Len(w)
    <3>1. Len(w) \in Int /\ 1 \in Int /\ DOMAIN w = 1..Len(w)
      OBVIOUS
    <3> QED
      BY <3>1, FS_Interval
  <2>2. IsFiniteSet(N)
    BY <2>1, FS_Subset
  <2>3. Cardinality(N) \in Nat /\ (Cardinality(N) = 0 => N = {})
    BY <2>2, FS_CardinalityType, FS_EmptySet
  <2> QED
    BY <2>2, <2>3 DEF NoNoticeIn
<1>2. nodes \in Seq(Node) /\ pending \in Seq(Node)
  BY DEF TypeOK
<1>3. /\ Cardinality({n \in DOMAIN nodes : nodes[n].kind = "notice"}) = 0
      /\ Cardinality({i \in DOMAIN pending : pending[i].kind = "notice"}) = 0
  <2> DEFINE written == Cardinality({n \in DOMAIN nodes : nodes[n].kind = "notice"})
             chained == Cardinality({i \in DOMAIN pending : pending[i].kind = "notice"})
  <2>1. written \in Nat /\ chained \in Nat
    BY <1>1, <1>2
  <2>2. written + chained = 0
    BY DEF Count
  <2> HIDE DEF written, chained
  <2>3. written = 0 /\ chained = 0
    BY <2>1, <2>2
  <2> QED
    BY <2>3 DEF written, chained
<1> QED
  BY <1>1, <1>2, <1>3 DEF NoNotice

\* In a session without notices it has every turn that is over as well, and every context
\* event but those a follow-up's message is a sibling of: nothing else forks the tree.
THEOREM CallShowsEarlierTurns == Spec => []ContextHasEarlierTurns
<1>1. IInv => ContextHasEarlierTurns
  BY PathIsPathIn, NoneCounted DEF IInv, EarlierOK, ContextHasEarlierTurns
<1> QED
  BY <1>1, Invariant, PTL
=============================================================================
