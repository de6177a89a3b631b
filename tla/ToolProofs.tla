----------------------------- MODULE ToolProofs -----------------------------
(***************************************************************************)
(* Proofs about the tools: FileTools, for any agents, lines and bounds,    *)
(* and TaskDelivery, for any tasks, runtimes and bounds.                   *)
(***************************************************************************)
EXTENDS FileTools, TaskDelivery, TLAPS

USE FileAssumption

-----------------------------------------------------------------------------
\* Texts

LEMMA TextFacts ==
  ASSUME NEW t \in Texts
  PROVE  /\ t \in Seq(Line) /\ Len(t) \in 0..MaxLines
         /\ DOMAIN t = 1..Len(t) /\ DOMAIN t \subseteq Numbers
         /\ \A i \in DOMAIN t : t[i] \in Line
         /\ t # Absent
<1>1. PICK n \in 0..MaxLines : t \in [1..n -> Line]
  BY DEF Texts
<1>2. n \in Nat /\ t \in Seq(Line)
  BY <1>1
<1>3. Len(t) = n /\ DOMAIN t = 1..n
  BY <1>1, <1>2
<1> QED
  BY <1>1, <1>2, <1>3 DEF Numbers

LEMMA SubstituteText ==
  ASSUME NEW t \in Texts, NEW at, NEW new \in Line
  PROVE  Substitute(t, at, new) \in Texts
<1>1. PICK n \in 0..MaxLines : t \in [1..n -> Line]
  BY DEF Texts
<1>2. Substitute(t, at, new) \in [1..n -> Line]
  BY <1>1 DEF Substitute
<1> QED
  BY <1>1, <1>2 DEF Texts

LEMMA ReplacedText ==
  ASSUME NEW t \in Texts, NEW c \in Call
  PROVE  Replaced(t, c) \in Texts
<1>1. c.old \in Line /\ c.new \in Line
  BY DEF Call
<1>2. (IF c.new = Pattern /\ ~c.all THEN c.old ELSE c.new) \in Line
  BY <1>1
<1> QED
  BY <1>2, SubstituteText DEF Replaced

-----------------------------------------------------------------------------
\* Types

LEMMA Records ==
  /\ NoStat \in Stat /\ Unread \in Snapshot /\ NoCall \in Call
  /\ \A c \in Call :
       /\ \A s \in Step : [c EXCEPT !.step = s] \in Call
       /\ \A b \in BOOLEAN : [c EXCEPT !.clean = b] \in Call
  /\ \A c \in Call, st \in Stat : [c EXCEPT !.found.stat = st] \in Call
  /\ \A c \in Call, t \in Texts : [c EXCEPT !.found.text = t] \in Call
<1>1. NoStat \in Stat /\ Unread \in Snapshot
  BY DEF NoStat, Stat, Unread, Snapshot
<1>2. NoCall \in Call
  BY <1>1 DEF NoCall, Call, Step
<1>3. ASSUME NEW c \in Call
      PROVE  /\ \A s \in Step : [c EXCEPT !.step = s] \in Call
             /\ \A b \in BOOLEAN : [c EXCEPT !.clean = b] \in Call
  BY DEF Call
<1>4. ASSUME NEW c \in Call, NEW st \in Stat
      PROVE  [c EXCEPT !.found.stat = st] \in Call
  <2>1. [c.found EXCEPT !.stat = st] \in Snapshot
    BY DEF Call, Snapshot
  <2> QED
    BY <2>1 DEF Call
<1>5. ASSUME NEW c \in Call, NEW t \in Texts
      PROVE  [c EXCEPT !.found.text = t] \in Call
  <2>1. [c.found EXCEPT !.text = t] \in Snapshot
    BY DEF Call, Snapshot
  <2> QED
    BY <2>1 DEF Call
<1> QED
  BY <1>1, <1>2, <1>3, <1>4, <1>5

LEMMA StatTyped ==
  ASSUME TypeOK, file.text # Absent
  PROVE  file.text \in Texts /\ StatNow \in Stat
<1>1. file.text \in Texts /\ file.mtime \in 0..MaxClock
  BY DEF TypeOK
<1> QED
  BY <1>1, TextFacts DEF StatNow, Stat

LEMMA ContinueTyped ==
  ASSUME TypeOK, NEW a \in Agents, NEW c \in Call, Continue(a, c)
  PROVE  call' \in [Agents -> Call]
BY DEF TypeOK, Continue

LEMMA CheckTyped ==
  ASSUME TypeOK, NEW a \in Agents, NEW c \in Call, Check(a, c)
  PROVE  call' \in [Agents -> Call]
<1>1. (IF Complete(reads[a]) THEN [c EXCEPT !.step = "check"] ELSE NoCall) \in Call
  BY Records DEF Step
<1> QED
  BY <1>1, ContinueTyped DEF Check

LEMMA ComparedTyped ==
  ASSUME TypeOK, NEW a \in Agents, NEW c \in Call, Compared(a, c)
  PROVE  call' \in [Agents -> Call]
<1>1. (IF SameSnapshot(reads[a], c.found)
       THEN [c EXCEPT !.step = IF c.op = "Write" THEN "temp" ELSE "base"] ELSE NoCall) \in Call
  BY Records DEF Step
<1> QED
  BY <1>1, ContinueTyped DEF Compared

\* What a call ends with is a snapshot.
LEMMA KeptTyped ==
  ASSUME TypeOK, NEW a \in Agents, call[a].text \in Texts, StatNow \in Stat
  PROVE  Kept(a) \in Snapshot
<1> DEFINE now == [text |-> call[a].text, stat |-> StatNow, lines |-> DOMAIN call[a].text]
<1>1. now \in Snapshot
  BY TextFacts DEF Snapshot
<1>2. reads[a].lines \subseteq Numbers /\ call[a].lines \subseteq Numbers
  BY DEF TypeOK, Snapshot, Call
<1>3. Covered(reads[a], now) \cup call[a].lines \subseteq Numbers
  BY <1>2 DEF Covered
<1>4. [now EXCEPT !.lines = Covered(reads[a], now) \cup call[a].lines] \in Snapshot
  BY <1>1, <1>3 DEF Snapshot
<1> QED
  BY <1>1, <1>4 DEF Kept

\* What holds of a call c of agent a: a text it writes, or read, is there; the check is made of a
\* complete snapshot; what it approved the agent has seen; and the text that the last snapshot
\* is taken for is the file's unless somebody else wrote it.
CallInv(a, c) ==
  /\ c.step \in {"temp", "rename", "stat"} \/ (c.op = "Write" /\ c.step # "idle") => c.text \in Texts
  /\ c.step \in {"check", "checkText", "checkStat", "base", "temp", "rename"} => c.op # "Read"
  /\ c.step = "exists" => c.op = "Write" /\ c.found.text = Absent
  /\ c.step \in {"check", "checkText", "checkStat"} => Complete(reads[a])
  /\ c.step \in {"base", "temp", "rename"} /\ c.found.text # Absent /\ ~strayed[a]
       => LinesOf(c.found.text) \subseteq seen[a]
  /\ c.step = "stat" => /\ c.op = "Read" => c.lines \subseteq DOMAIN c.text
                        /\ IF c.clean THEN c.text = file.text ELSE shown[a] = {}

\* What holds of an agent's snapshot: it covers lines of its text, which the agent has seen; and it
\* covers what the agent was shown since anybody else wrote the file.
ReadsInv(a) ==
  LET r == reads[a] IN
  /\ r.text # Absent => r.lines \subseteq DOMAIN r.text
  /\ r.text # Absent /\ ~strayed[a] => \A i \in r.lines : <<r.text, i>> \in seen[a]
  /\ shown[a] # {} => /\ file.text # Absent /\ SameSnapshot(r, [text |-> file.text, stat |-> StatNow])
                      /\ shown[a] \ {0} \subseteq r.lines

AgentsInv == \A a \in Agents : ReadsInv(a) /\ CallInv(a, call[a])
IInv == TypeOK /\ AgentsInv

\* The variables keep their types.
LEMMA TypeStep ==
  ASSUME IInv, [Next]_vars
  PROVE  TypeOK'
<1> USE DEF bounds, history, IInv
<1>1. ASSUME NEW a \in Agents, BeginRead(a)
      PROVE  TypeOK'
  <2>1. [NoCall EXCEPT !.step = "open"] \in Call
    BY Records DEF Step
  <2>2. call' \in [Agents -> Call] /\ calls' \in 0..MaxCalls
    BY <1>1, <2>1, ContinueTyped DEF BeginRead, Begin, TypeOK
  <2> QED
    BY <1>1, <2>2 DEF BeginRead, Begin, TypeOK
<1>2. ASSUME NEW a \in Agents, ReadText(a)
      PROVE  TypeOK'
  <2>1. CASE file.text = Absent
    <3>1. call' \in [Agents -> Call]
      BY <1>2, <2>1, Records, ContinueTyped DEF ReadText, End
    <3> QED
      BY <1>2, <3>1 DEF ReadText, TypeOK
  <2>2. CASE file.text # Absent
    <3>1. PICK offset \in 1..(MaxLines + 1), end \in 0..MaxLines :
            /\ IF offset \in DOMAIN file.text THEN end \in offset..Len(file.text)
                                              ELSE end = offset - 1
            /\ Continue(a, [call[a] EXCEPT !.step = "stat", !.text = file.text,
                                           !.lines = offset..end, !.clean = TRUE])
      BY <1>2, <2>2 DEF ReadText
    <3>2. file.text \in Texts /\ offset..end \subseteq Numbers /\ call[a] \in Call
      BY <2>2, <3>1 DEF TypeOK, Numbers
    <3>3. [call[a] EXCEPT !.step = "stat", !.text = file.text,
                          !.lines = offset..end, !.clean = TRUE] \in Call
      BY <3>2 DEF Call, Step
    <3>4. call' \in [Agents -> Call]
      BY <3>1, <3>3, ContinueTyped
    <3> QED
      BY <1>2, <3>4 DEF ReadText, TypeOK
  <2> QED
    BY <2>1, <2>2
<1>3. ASSUME NEW a \in Agents, BeginWrite(a)
      PROVE  TypeOK'
  <2>1. PICK t \in Texts :
          Begin(a, [NoCall EXCEPT !.op = "Write", !.step = "exists", !.text = t])
    BY <1>3 DEF BeginWrite
  <2>2. [NoCall EXCEPT !.op = "Write", !.step = "exists", !.text = t] \in Call
    <3>1. NoCall \in Call
      BY Records
    <3> QED
      BY <3>1 DEF Call, Step
  <2>3. call' \in [Agents -> Call] /\ calls' \in 0..MaxCalls
    BY <2>1, <2>2, ContinueTyped DEF Begin, TypeOK
  <2> QED
    BY <2>1, <2>3 DEF Begin, TypeOK
<1>4. ASSUME NEW a \in Agents, Exists(a)
      PROVE  TypeOK'
  <2>1. call[a] \in Call /\ [call[a] EXCEPT !.step = "temp"] \in Call
    BY Records DEF TypeOK, Step
  <2>2. call' \in [Agents -> Call]
    BY <1>4, <2>1, ContinueTyped, CheckTyped DEF Exists
  <2> QED
    BY <1>4, <2>2 DEF Exists, TypeOK
<1>5. ASSUME NEW a \in Agents, BeginEdit(a)
      PROVE  TypeOK'
  <2>1. PICK old \in Line, new \in Line, all \in BOOLEAN :
          /\ calls < MaxCalls /\ calls' = calls + 1
          /\ Check(a, [NoCall EXCEPT !.op = "Edit", !.old = old, !.new = new, !.all = all])
          /\ UNCHANGED <<file, clock, reads, history, outside>>
    BY <1>5 DEF BeginEdit
  <2>2. [NoCall EXCEPT !.op = "Edit", !.old = old, !.new = new, !.all = all] \in Call
    BY Records DEF Call
  <2>3. call' \in [Agents -> Call] /\ calls' \in 0..MaxCalls
    BY <2>1, <2>2, CheckTyped DEF TypeOK
  <2> QED
    BY <2>1, <2>3 DEF TypeOK
<1>6. ASSUME NEW a \in Agents, CheckStat(a)
      PROVE  TypeOK'
  <2> DEFINE c == [call[a] EXCEPT !.found.stat = StatNow]
  <2>1. CASE file.text = Absent
    BY <1>6, <2>1, Records, ContinueTyped DEF CheckStat, End, TypeOK
  <2>2. CASE file.text # Absent
    <3>1. c \in Call
      BY <2>2, StatTyped, Records DEF TypeOK
    <3>2. [c EXCEPT !.step = "checkText"] \in Call
      BY <3>1, Records DEF Step
    <3> HIDE DEF c
    <3>3. Continue(a, [c EXCEPT !.step = "checkText"]) \/ Compared(a, c)
      BY <1>6, <2>2 DEF CheckStat, c
    <3>4. call' \in [Agents -> Call]
      BY <3>1, <3>2, <3>3, ContinueTyped, ComparedTyped
    <3> QED
      BY <1>6, <3>4 DEF CheckStat, TypeOK
  <2> QED
    BY <2>1, <2>2
<1>7. ASSUME NEW a \in Agents, CheckText(a)
      PROVE  TypeOK'
  <2> DEFINE c == [call[a] EXCEPT !.found.text = file.text]
  <2>1. CASE file.text = Absent
    BY <1>7, <2>1, Records, ContinueTyped DEF CheckText, End, TypeOK
  <2>2. CASE file.text # Absent
    <3>1. c \in Call
      BY <2>2, StatTyped, Records DEF TypeOK
    <3>2. [c EXCEPT !.step = "checkStat"] \in Call
      BY <3>1, Records DEF Step
    <3> HIDE DEF c
    <3>3. Continue(a, [c EXCEPT !.step = "checkStat"]) \/ Compared(a, c)
      BY <1>7, <2>2 DEF CheckText, c
    <3>4. call' \in [Agents -> Call]
      BY <3>1, <3>2, <3>3, ContinueTyped, ComparedTyped
    <3> QED
      BY <1>7, <3>4 DEF CheckText, TypeOK
  <2> QED
    BY <2>1, <2>2
<1>8. ASSUME NEW a \in Agents, EditText(a)
      PROVE  TypeOK'
  <2>1. call[a] \in Call
    BY DEF TypeOK
  <2>2. CASE End(a)
    BY <1>8, <2>2, Records, ContinueTyped DEF EditText, End, TypeOK
  <2>3. CASE ~End(a)
    <3>1. PICK b \in BOOLEAN :
            /\ file.text # Absent
            /\ Continue(a, [call[a] EXCEPT !.step = "temp", !.text = Replaced(file.text, call[a]),
                                           !.literal = b])
      BY <1>8, <2>3 DEF EditText
    <3>2. Replaced(file.text, call[a]) \in Texts
      BY <2>1, <3>1, StatTyped, ReplacedText
    <3>3. [call[a] EXCEPT !.step = "temp", !.text = Replaced(file.text, call[a]),
                          !.literal = b] \in Call
      BY <2>1, <3>2 DEF Call, Step
    <3> QED
      BY <1>8, <3>1, <3>3, ContinueTyped DEF EditText, TypeOK
  <2> QED
    BY <2>2, <2>3
<1>9. ASSUME NEW a \in Agents, WriteTemp(a)
      PROVE  TypeOK'
  <2>1. [call[a] EXCEPT !.step = "rename", !.mtime = clock] \in Call
    <3>1. call[a] \in Call /\ clock \in 0..MaxClock
      BY DEF TypeOK
    <3> QED
      BY <3>1 DEF Call, Step
  <2> QED
    BY <1>9, <2>1, ContinueTyped DEF WriteTemp, TypeOK
<1>10. ASSUME NEW a \in Agents, Rename(a)
       PROVE  TypeOK'
  <2>1. file' \in [text : Texts \cup {Absent}, mtime : 0..MaxClock]
    BY <1>10 DEF Rename, TypeOK, Call
  <2>2. call' \in [Agents -> Call]
    <3>1. \A c \in Call : [c EXCEPT !.step = "stat", !.clean = TRUE] \in Call
      BY DEF Call, Step
    <3>2. \A b \in Agents : [call[b] EXCEPT !.clean = FALSE] \in Call
      BY Records DEF TypeOK
    <3> QED
      BY <1>10, <3>1, <3>2 DEF Rename, Touched, TypeOK
  <2>3. shown' \in [Agents -> SUBSET (0..MaxLines)]
    BY <1>10 DEF Rename, Touched
  <2> QED
    BY <1>10, <2>1, <2>2, <2>3 DEF Rename, TypeOK
<1>11. ASSUME NEW a \in Agents, Finish(a)
       PROVE  TypeOK'
  <2> DEFINE c == call[a]
             lines == IF c.op = "Read" THEN c.lines ELSE DOMAIN c.text
  <2>1. StatNow \in Stat /\ c \in Call /\ c.text \in Texts
    BY <1>11, StatTyped DEF Finish, TypeOK, AgentsInv, CallInv
  <2>2. reads' \in [Agents -> Snapshot]
    BY <1>11, <2>1, KeptTyped DEF Finish, TypeOK
  <2>3. call' \in [Agents -> Call]
    BY <1>11, Records, ContinueTyped DEF Finish, End
  <2>4. lines \subseteq Numbers /\ Numbers \subseteq 0..MaxLines /\ 0 \in 0..MaxLines
    BY <2>1, TextFacts DEF Call, Numbers
  <2>5. {<<c.text, i>> : i \in lines} \subseteq Texts \X Numbers
    BY <2>1, <2>4
  <2> HIDE DEF c, lines
  <2>6. /\ strayed' = [strayed EXCEPT ![a] = @ \/ ~c.literal]
        /\ seen' = [seen EXCEPT ![a] = IF c.literal THEN @ \cup {<<c.text, i>> : i \in lines} ELSE @]
        /\ shown' = [shown EXCEPT ![a] = IF c.clean THEN @ \cup {0} \cup lines ELSE @]
    BY <1>11 DEF Finish, c, lines
  <2>7. seen' \in [Agents -> SUBSET (Texts \X Numbers)]
    BY <2>5, <2>6 DEF TypeOK
  <2>8. shown' \in [Agents -> SUBSET (0..MaxLines)]
    BY <2>4, <2>6 DEF TypeOK
  <2>9. strayed' \in [Agents -> BOOLEAN]
    BY <2>6 DEF TypeOK
  <2> QED
    BY <1>11, <2>2, <2>3, <2>7, <2>8, <2>9 DEF Finish, TypeOK
<1>12. ASSUME NEW a \in Agents, Fail(a)
       PROVE  TypeOK'
  BY <1>12, Records, ContinueTyped DEF Fail, End, TypeOK
<1>13. ASSUME NEW a \in Agents, NewRuntime(a)
       PROVE  TypeOK'
  <2>1. call' \in [Agents -> Call] /\ reads' \in [Agents -> Snapshot]
    BY <1>13, Records, ContinueTyped DEF NewRuntime, End, TypeOK
  <2>2. shown' \in [Agents -> SUBSET (0..MaxLines)] /\ strayed' \in [Agents -> BOOLEAN]
    BY <1>13 DEF NewRuntime, TypeOK
  <2> QED
    BY <1>13, <2>1, <2>2 DEF NewRuntime, TypeOK
<1>14. CASE Outside
  <2>1. call' \in [Agents -> Call]
    BY <1>14, Records DEF Outside, TypeOK
  <2>2. file' \in [text : Texts \cup {Absent}, mtime : 0..MaxClock]
    BY <1>14 DEF Outside, TypeOK
  <2>3. shown' \in [Agents -> SUBSET (0..MaxLines)] /\ outside' \in 0..MaxOutside
    BY <1>14 DEF Outside, TypeOK
  <2> QED
    BY <1>14, <2>1, <2>2, <2>3 DEF Outside, TypeOK
<1>15. CASE Tick
  <2>1. file' \in [text : Texts \cup {Absent}, mtime : 0..MaxClock] /\ clock' \in 0..MaxClock
    BY <1>15 DEF Tick, TypeOK
  <2> QED
    BY <1>15, <2>1 DEF Tick, TypeOK
<1>16. CASE UNCHANGED vars
  BY <1>16 DEF vars, TypeOK
<1> QED
  BY <1>1, <1>2, <1>3, <1>4, <1>5, <1>6, <1>7, <1>8, <1>9, <1>10, <1>11, <1>12, <1>13, <1>14,
     <1>15, <1>16 DEF Next

-----------------------------------------------------------------------------
\* The invariant

\* A step of a that changes only its call.
LEMMA OwnCallStep ==
  ASSUME IInv, NEW a \in Agents, NEW c, Continue(a, c), CallInv(a, c),
         UNCHANGED <<file, reads, history>>
  PROVE  AgentsInv'
<1> USE DEF history
<1>1. call' = [call EXCEPT ![a] = c] /\ call \in [Agents -> Call]
  BY DEF Continue, IInv, TypeOK
<1> SUFFICES ASSUME NEW b \in Agents
             PROVE  ReadsInv(b)' /\ CallInv(b, call[b])'
  BY DEF AgentsInv
<1>2. ReadsInv(b) /\ CallInv(b, call[b])
  BY DEF IInv, AgentsInv
<1>3. ReadsInv(b)'
  BY <1>2 DEF ReadsInv, StatNow, SameSnapshot
<1>4. CASE b = a
  <2>1. call'[b] = c
    BY <1>1, <1>4
  <2> QED
    BY <1>3, <1>4, <2>1 DEF CallInv, Complete
<1>5. CASE b # a
  <2>1. call'[b] = call[b]
    BY <1>1, <1>5
  <2> QED
    BY <1>2, <1>3, <2>1 DEF CallInv, Complete
<1> QED
  BY <1>4, <1>5

\* A step in which somebody else than b writes the file.
LEMMA ForeignWrite ==
  ASSUME IInv, NEW b \in Agents, call'[b] = [call[b] EXCEPT !.clean = FALSE],
         shown'[b] = {}, UNCHANGED <<reads, seen, strayed>>
  PROVE  ReadsInv(b)' /\ CallInv(b, call[b])'
<1>1. ReadsInv(b) /\ CallInv(b, call[b]) /\ call[b] \in Call
  BY DEF IInv, AgentsInv, TypeOK
<1>2. ReadsInv(b)'
  BY <1>1 DEF ReadsInv
<1>3. \A f \in {"op", "step", "text", "lines", "found"} : call'[b][f] = call[b][f]
  BY <1>1 DEF Call
<1>4. call'[b].clean = FALSE
  BY <1>1 DEF Call
<1> QED
  BY <1>1, <1>2, <1>3, <1>4 DEF CallInv, Complete

LEMMA NoCallInv == ASSUME NEW a \in Agents PROVE CallInv(a, NoCall)
BY DEF CallInv, NoCall

LEMMA CheckInv ==
  ASSUME IInv, NEW a \in Agents, NEW c \in Call, Check(a, c), c.op # "Read",
         c.op = "Write" => c.text \in Texts,
         UNCHANGED <<file, reads, history>>
  PROVE  AgentsInv'
<1>1. CASE Complete(reads[a])
  <2> DEFINE d == [c EXCEPT !.step = "check"]
  <2>1. Continue(a, d)
    BY <1>1 DEF Check
  <2>2. d.step = "check" /\ d.op = c.op /\ d.text = c.text
    BY DEF Call
  <2>3. CallInv(a, d)
    BY <1>1, <2>2 DEF CallInv
  <2> QED
    BY <2>1, <2>3, OwnCallStep
<1>2. CASE ~Complete(reads[a])
  BY <1>2, NoCallInv, OwnCallStep DEF Check
<1> QED
  BY <1>1, <1>2

LEMMA ComparedInv ==
  ASSUME IInv, NEW a \in Agents, NEW c \in Call, Compared(a, c), Complete(reads[a]),
         c.op # "Read", c.op = "Write" => c.text \in Texts,
         UNCHANGED <<file, reads, history>>
  PROVE  AgentsInv'
<1>1. CASE SameSnapshot(reads[a], c.found)
  <2> DEFINE d == [c EXCEPT !.step = IF c.op = "Write" THEN "temp" ELSE "base"]
  <2>1. Continue(a, d)
    BY <1>1 DEF Compared
  <2>2. /\ d.step = IF c.op = "Write" THEN "temp" ELSE "base"
        /\ d.op = c.op /\ d.text = c.text /\ d.found = c.found
    BY DEF Call
  <2>3. ~strayed[a] => LinesOf(c.found.text) \subseteq seen[a]
    <3>1. reads[a].text # Absent /\ reads[a].lines = DOMAIN reads[a].text /\ reads[a].text = c.found.text
      BY <1>1 DEF Complete, SameSnapshot
    <3>2. ~strayed[a] => \A i \in reads[a].lines : <<reads[a].text, i>> \in seen[a]
      BY <3>1 DEF IInv, AgentsInv, ReadsInv
    <3> QED
      BY <3>1, <3>2 DEF LinesOf
  <2> HIDE DEF d
  <2>4. CallInv(a, d)
    BY <2>2, <2>3 DEF CallInv
  <2> QED
    BY <2>1, <2>4, OwnCallStep
<1>2. CASE ~SameSnapshot(reads[a], c.found)
  BY <1>2, NoCallInv, OwnCallStep DEF Compared
<1> QED
  BY <1>1, <1>2

LEMMA InvStep ==
  ASSUME IInv, [Next]_vars
  PROVE  AgentsInv'
<1> USE DEF bounds
<1>1. ASSUME NEW a \in Agents, BeginRead(a)
      PROVE  AgentsInv'
  <2>1. CallInv(a, [NoCall EXCEPT !.step = "open"])
    BY DEF CallInv, NoCall
  <2> QED
    BY <1>1, <2>1, OwnCallStep DEF BeginRead, Begin
<1>2. ASSUME NEW a \in Agents, ReadText(a)
      PROVE  AgentsInv'
  <2>1. CASE file.text = Absent
    BY <1>2, <2>1, NoCallInv, OwnCallStep DEF ReadText, End
  <2>2. CASE file.text # Absent
    <3>1. PICK offset \in 1..(MaxLines + 1), end \in 0..MaxLines :
            /\ IF offset \in DOMAIN file.text THEN end \in offset..Len(file.text)
                                              ELSE end = offset - 1
            /\ Continue(a, [call[a] EXCEPT !.step = "stat", !.text = file.text,
                                           !.lines = offset..end, !.clean = TRUE])
      BY <1>2, <2>2 DEF ReadText
    <3> DEFINE c == [call[a] EXCEPT !.step = "stat", !.text = file.text,
                                    !.lines = offset..end, !.clean = TRUE]
    <3>2. file.text \in Texts /\ call[a] \in Call
      BY <2>2 DEF IInv, TypeOK
    <3>3. offset..end \subseteq DOMAIN file.text
      BY <3>1, <3>2, TextFacts
    <3>4. c.step = "stat" /\ c.text = file.text /\ c.lines = offset..end /\ c.clean = TRUE
      BY <3>2 DEF Call
    <3>5. CallInv(a, c)
      BY <3>2, <3>3, <3>4 DEF CallInv
    <3> QED
      BY <1>2, <3>1, <3>5, OwnCallStep DEF ReadText
  <2> QED
    BY <2>1, <2>2
<1>3. ASSUME NEW a \in Agents, BeginWrite(a)
      PROVE  AgentsInv'
  <2>1. PICK t \in Texts :
          Begin(a, [NoCall EXCEPT !.op = "Write", !.step = "exists", !.text = t])
    BY <1>3 DEF BeginWrite
  <2>2. CallInv(a, [NoCall EXCEPT !.op = "Write", !.step = "exists", !.text = t])
    BY DEF CallInv, NoCall, Unread
  <2> QED
    BY <2>1, <2>2, OwnCallStep DEF Begin
<1>4. ASSUME NEW a \in Agents, Exists(a)
      PROVE  AgentsInv'
  <2>1. call[a] \in Call /\ CallInv(a, call[a]) /\ call[a].step = "exists"
    BY <1>4 DEF IInv, TypeOK, AgentsInv, Exists
  <2>2. CASE file.text = Absent
    <3> DEFINE c == [call[a] EXCEPT !.step = "temp"]
    <3>1. c.step = "temp" /\ c.op = call[a].op /\ c.text = call[a].text /\ c.found = call[a].found
      BY <2>1 DEF Call
    <3>2. Continue(a, c) /\ UNCHANGED <<file, reads, history>>
      BY <1>4, <2>2 DEF Exists
    <3> HIDE DEF c
    <3>3. CallInv(a, c)
      BY <2>1, <3>1 DEF CallInv
    <3> QED
      BY <3>2, <3>3, OwnCallStep
  <2>3. CASE file.text # Absent
    BY <1>4, <2>1, <2>3, CheckInv DEF Exists, CallInv
  <2> QED
    BY <2>2, <2>3
<1>5. ASSUME NEW a \in Agents, BeginEdit(a)
      PROVE  AgentsInv'
  <2>1. PICK old \in Line, new \in Line, all \in BOOLEAN :
          /\ Check(a, [NoCall EXCEPT !.op = "Edit", !.old = old, !.new = new, !.all = all])
          /\ UNCHANGED <<file, reads, history>>
    BY <1>5 DEF BeginEdit
  <2> DEFINE c == [NoCall EXCEPT !.op = "Edit", !.old = old, !.new = new, !.all = all]
  <2>2. c \in Call
    BY Records DEF Call
  <2>3. c.op = "Edit"
    BY DEF NoCall
  <2> QED
    BY <2>1, <2>2, <2>3, CheckInv
<1>6. ASSUME NEW a \in Agents, CheckStat(a)
      PROVE  AgentsInv'
  <2> DEFINE c == [call[a] EXCEPT !.found.stat = StatNow]
             d == [c EXCEPT !.step = "checkText"]
  <2>1. CASE file.text = Absent
    BY <1>6, <2>1, NoCallInv, OwnCallStep DEF CheckStat, End
  <2>2. CASE file.text # Absent
    <3>1. /\ call[a] \in Call /\ CallInv(a, call[a]) /\ call[a].step \in {"check", "checkStat"}
          /\ UNCHANGED <<file, reads, history>>
      BY <1>6 DEF IInv, TypeOK, AgentsInv, CheckStat
    <3>2. c \in Call
      BY <2>2, <3>1, StatTyped, Records DEF IInv
    <3>3. c.op = call[a].op /\ c.text = call[a].text
      BY <3>1 DEF Call
    <3>4. Complete(reads[a]) /\ (c.op = "Write" => c.text \in Texts) /\ c.op # "Read"
      BY <3>1, <3>3 DEF CallInv
    <3> HIDE DEF c
    <3>5. d.step = "checkText" /\ d.op = c.op /\ d.text = c.text
      BY <3>2 DEF Call
    <3>6. Continue(a, d) \/ Compared(a, c)
      BY <1>6, <2>2 DEF CheckStat, c
    <3> HIDE DEF d
    <3>7. CallInv(a, d)
      BY <3>4, <3>5 DEF CallInv
    <3> QED
      BY <3>1, <3>2, <3>4, <3>6, <3>7, OwnCallStep, ComparedInv
  <2> QED
    BY <2>1, <2>2
<1>7. ASSUME NEW a \in Agents, CheckText(a)
      PROVE  AgentsInv'
  <2> DEFINE c == [call[a] EXCEPT !.found.text = file.text]
             d == [c EXCEPT !.step = "checkStat"]
  <2>1. CASE file.text = Absent
    BY <1>7, <2>1, NoCallInv, OwnCallStep DEF CheckText, End
  <2>2. CASE file.text # Absent
    <3>1. /\ call[a] \in Call /\ CallInv(a, call[a]) /\ call[a].step \in {"check", "checkText"}
          /\ UNCHANGED <<file, reads, history>>
      BY <1>7 DEF IInv, TypeOK, AgentsInv, CheckText
    <3>2. c \in Call
      BY <2>2, <3>1, StatTyped, Records DEF IInv
    <3>3. c.op = call[a].op /\ c.text = call[a].text
      BY <3>1 DEF Call
    <3>4. Complete(reads[a]) /\ (c.op = "Write" => c.text \in Texts) /\ c.op # "Read"
      BY <3>1, <3>3 DEF CallInv
    <3> HIDE DEF c
    <3>5. d.step = "checkStat" /\ d.op = c.op /\ d.text = c.text
      BY <3>2 DEF Call
    <3>6. Continue(a, d) \/ Compared(a, c)
      BY <1>7, <2>2 DEF CheckText, c
    <3> HIDE DEF d
    <3>7. CallInv(a, d)
      BY <3>4, <3>5 DEF CallInv
    <3> QED
      BY <3>1, <3>2, <3>4, <3>6, <3>7, OwnCallStep, ComparedInv
  <2> QED
    BY <2>1, <2>2
<1>8. ASSUME NEW a \in Agents, EditText(a)
      PROVE  AgentsInv'
  <2>1. /\ call[a] \in Call /\ CallInv(a, call[a]) /\ call[a].step = "base"
        /\ UNCHANGED <<file, reads, history>>
    BY <1>8 DEF IInv, TypeOK, AgentsInv, EditText
  <2>2. CASE End(a)
    BY <2>1, <2>2, NoCallInv, OwnCallStep DEF End
  <2>3. CASE ~End(a)
    <3>1. PICK b \in BOOLEAN :
            /\ file.text # Absent
            /\ Continue(a, [call[a] EXCEPT !.step = "temp", !.text = Replaced(file.text, call[a]),
                                           !.literal = b])
      BY <1>8, <2>3 DEF EditText
    <3> DEFINE c == [call[a] EXCEPT !.step = "temp", !.text = Replaced(file.text, call[a]),
                                    !.literal = b]
    <3>2. Replaced(file.text, call[a]) \in Texts
      BY <2>1, <3>1, StatTyped, ReplacedText DEF IInv
    <3>3. c.step = "temp" /\ c.text \in Texts /\ c.found = call[a].found
      BY <2>1, <3>2 DEF Call
    <3>4. CallInv(a, c)
      BY <2>1, <3>3 DEF CallInv
    <3> QED
      BY <2>1, <3>1, <3>4, OwnCallStep
  <2> QED
    BY <2>2, <2>3
<1>9. ASSUME NEW a \in Agents, WriteTemp(a)
      PROVE  AgentsInv'
  <2> DEFINE c == [call[a] EXCEPT !.step = "rename", !.mtime = clock]
  <2>1. call[a] \in Call /\ CallInv(a, call[a]) /\ call[a].step = "temp"
    BY <1>9 DEF IInv, TypeOK, AgentsInv, WriteTemp
  <2>2. c.step = "rename" /\ c.op = call[a].op /\ c.text = call[a].text /\ c.found = call[a].found
    BY <2>1 DEF Call
  <2>3. Continue(a, c) /\ UNCHANGED <<file, reads, history>>
    BY <1>9 DEF WriteTemp
  <2> HIDE DEF c
  <2>4. CallInv(a, c)
    BY <2>1, <2>2 DEF CallInv
  <2> QED
    BY <2>3, <2>4, OwnCallStep
<1>10. ASSUME NEW a \in Agents, Rename(a)
       PROVE  AgentsInv'
  <2>1. /\ call[a] \in Call /\ CallInv(a, call[a]) /\ call[a].step = "rename"
        /\ file'.text = call[a].text /\ shown' = [b \in Agents |-> {}]
        /\ call' = [b \in Agents |-> IF b = a THEN [call[b] EXCEPT !.step = "stat", !.clean = TRUE]
                                      ELSE [call[b] EXCEPT !.clean = FALSE]]
        /\ UNCHANGED <<reads, seen, strayed>>
    BY <1>10 DEF IInv, TypeOK, AgentsInv, Rename, Touched
  <2>2. ASSUME NEW b \in Agents, b # a
        PROVE  ReadsInv(b)' /\ CallInv(b, call[b])'
    BY <2>1, <2>2, ForeignWrite
  <2>3. ReadsInv(a)'
    BY <2>1 DEF IInv, AgentsInv, ReadsInv
  <2>4. CallInv(a, call[a])'
    <3>1. /\ call'[a].step = "stat" /\ call'[a].clean = TRUE /\ call'[a].text = call[a].text
          /\ call'[a].op = call[a].op
      BY <2>1 DEF Call
    <3> QED
      BY <2>1, <3>1 DEF CallInv
  <2> QED
    BY <2>2, <2>3, <2>4 DEF AgentsInv
<1>11. ASSUME NEW a \in Agents, Finish(a)
       PROVE  AgentsInv'
  <2> DEFINE c == call[a]
             lines == IF c.op = "Read" THEN c.lines ELSE DOMAIN c.text
             now == [text |-> c.text, stat |-> StatNow, lines |-> DOMAIN c.text]
  <2>1. /\ c \in Call /\ CallInv(a, c) /\ ReadsInv(a) /\ c.step = "stat" /\ file.text # Absent
        /\ file.text \in Texts
    BY <1>11 DEF IInv, TypeOK, AgentsInv, Finish
  <2>2. /\ c.text \in Texts /\ c.text # Absent /\ lines \subseteq DOMAIN c.text
        /\ IF c.clean THEN c.text = file.text ELSE shown[a] = {}
    BY <2>1, TextFacts DEF CallInv
  <2> HIDE DEF c, lines, now
  <2>3. /\ reads' = [reads EXCEPT ![a] = Kept(a)]
        /\ strayed' = [strayed EXCEPT ![a] = @ \/ ~c.literal]
        /\ seen' = [seen EXCEPT ![a] = IF c.literal THEN @ \cup {<<c.text, i>> : i \in lines} ELSE @]
        /\ shown' = [shown EXCEPT ![a] = IF c.clean THEN @ \cup {0} \cup lines ELSE @]
        /\ call' = [call EXCEPT ![a] = NoCall] /\ UNCHANGED file
    BY <1>11 DEF Finish, End, Continue, c, lines
  <2>4. /\ Kept(a).text = c.text /\ Kept(a).stat = StatNow
        /\ Kept(a).lines = IF c.op = "Read" THEN Covered(reads[a], now) \cup lines ELSE lines
    BY DEF Kept, c, lines, now
  <2>5. Kept(a).lines = lines
          \/ (Kept(a).lines = lines \cup reads[a].lines /\ SameSnapshot(reads[a], now))
    <3>1. CASE c.op = "Read" /\ SameSnapshot(reads[a], now)
      BY <2>4, <3>1 DEF Covered
    <3>2. CASE c.op = "Read" /\ ~SameSnapshot(reads[a], now)
      BY <2>4, <3>2 DEF Covered
    <3>3. CASE c.op # "Read"
      BY <2>4, <3>3
    <3> QED
      BY <3>1, <3>2, <3>3
  <2>6. SameSnapshot(reads[a], now) <=> reads[a].text = c.text /\ reads[a].stat = StatNow
    BY DEF SameSnapshot, now
  <2>7. ASSUME NEW b \in Agents, b # a
        PROVE  ReadsInv(b)' /\ CallInv(b, call[b])'
    <3>1. /\ reads'[b] = reads[b] /\ strayed'[b] = strayed[b] /\ seen'[b] = seen[b]
          /\ shown'[b] = shown[b] /\ call'[b] = call[b] /\ UNCHANGED file
      BY <2>3, <2>7 DEF IInv, TypeOK
    <3>2. ReadsInv(b) /\ CallInv(b, call[b])
      BY DEF IInv, AgentsInv
    <3> QED
      BY <3>1, <3>2 DEF ReadsInv, CallInv, SameSnapshot, StatNow, Complete
  <2>8. CallInv(a, call[a])'
    <3>1. call'[a] = NoCall
      BY <2>3 DEF IInv, TypeOK
    <3> QED
      BY <3>1 DEF CallInv, NoCall
  <2>9. ReadsInv(a)'
    <3>1. /\ reads'[a] = Kept(a) /\ strayed'[a] = (strayed[a] \/ ~c.literal)
          /\ seen'[a] = IF c.literal THEN seen[a] \cup {<<c.text, i>> : i \in lines} ELSE seen[a]
          /\ shown'[a] = IF c.clean THEN shown[a] \cup {0} \cup lines ELSE shown[a]
          /\ UNCHANGED file /\ StatNow' = StatNow
      BY <2>3 DEF IInv, TypeOK, StatNow
    <3>2. reads'[a].lines \subseteq DOMAIN reads'[a].text
      BY <2>1, <2>2, <2>4, <2>5, <2>6, <3>1 DEF ReadsInv
    <3>3. ~strayed'[a] => \A i \in reads'[a].lines : <<reads'[a].text, i>> \in seen'[a]
      <4> SUFFICES ASSUME ~strayed'[a], NEW i \in Kept(a).lines
                   PROVE  <<c.text, i>> \in seen'[a]
        BY <2>4, <3>1
      <4>1. c.literal /\ ~strayed[a]
        BY <3>1
      <4>2. CASE i \in lines
        BY <3>1, <4>1, <4>2
      <4>3. CASE i \notin lines
        <5>1. i \in reads[a].lines /\ reads[a].text = c.text
          BY <2>5, <2>6, <4>3
        <5> QED
          BY <2>1, <2>2, <3>1, <4>1, <5>1 DEF ReadsInv
      <4> QED
        BY <4>2, <4>3
    <3>4. shown'[a] # {} => /\ file.text # Absent
                            /\ Kept(a).text = file.text /\ Kept(a).stat = StatNow
                            /\ shown'[a] \ {0} \subseteq Kept(a).lines
      <4> SUFFICES ASSUME shown'[a] # {}
                   PROVE  /\ Kept(a).text = file.text
                          /\ shown'[a] \ {0} \subseteq Kept(a).lines
        BY <2>1, <2>4
      <4>1. c.clean /\ c.text = file.text /\ shown'[a] = shown[a] \cup {0} \cup lines
        BY <2>2, <3>1
      <4>2. shown[a] # {} => /\ reads[a].text = c.text /\ reads[a].stat = StatNow
                             /\ shown[a] \ {0} \subseteq reads[a].lines
        BY <2>1, <4>1 DEF ReadsInv, SameSnapshot
      <4>3. shown[a] \ {0} \subseteq Kept(a).lines
        <5>1. CASE shown[a] = {}
          BY <5>1
        <5>2. CASE shown[a] # {} /\ c.op = "Read"
          BY <2>4, <2>6, <4>2, <5>2 DEF Covered
        <5>3. CASE shown[a] # {} /\ c.op # "Read"
          <6>1. lines = DOMAIN c.text
            BY <5>3 DEF lines
          <6>2. reads[a].lines \subseteq DOMAIN c.text
            BY <2>1, <2>2, <4>2, <5>3 DEF ReadsInv
          <6> QED
            BY <2>4, <4>2, <5>3, <6>1, <6>2
        <5> QED
          BY <5>1, <5>2, <5>3
      <4> QED
        BY <2>4, <2>5, <4>1, <4>3
    <3> QED
      BY <3>1, <3>2, <3>3, <3>4 DEF ReadsInv, SameSnapshot
  <2> QED
    BY <2>7, <2>8, <2>9 DEF AgentsInv
<1>12. ASSUME NEW a \in Agents, Fail(a)
       PROVE  AgentsInv'
  BY <1>12, NoCallInv, OwnCallStep DEF Fail, End
<1>13. ASSUME NEW a \in Agents, NewRuntime(a)
       PROVE  AgentsInv'
  <2>1. ASSUME NEW b \in Agents, b # a
        PROVE  ReadsInv(b)' /\ CallInv(b, call[b])'
    <3>1. /\ reads'[b] = reads[b] /\ strayed'[b] = strayed[b] /\ seen'[b] = seen[b]
          /\ shown'[b] = shown[b] /\ call'[b] = call[b] /\ UNCHANGED file
      BY <1>13, <2>1 DEF NewRuntime, End, Continue, IInv, TypeOK
    <3>2. ReadsInv(b) /\ CallInv(b, call[b])
      BY DEF IInv, AgentsInv
    <3> QED
      BY <3>1, <3>2 DEF ReadsInv, CallInv, SameSnapshot, StatNow, Complete
  <2>2. reads'[a] = Unread /\ shown'[a] = {} /\ call'[a] = NoCall
    BY <1>13 DEF NewRuntime, End, Continue, IInv, TypeOK
  <2>3. ReadsInv(a)' /\ CallInv(a, call[a])'
    BY <2>2 DEF ReadsInv, CallInv, Unread, NoCall
  <2> QED
    BY <2>1, <2>3 DEF AgentsInv
<1>14. CASE Outside
  <2>1. ASSUME NEW b \in Agents
        PROVE  ReadsInv(b)' /\ CallInv(b, call[b])'
    BY <1>14, ForeignWrite DEF Outside
  <2> QED
    BY <2>1 DEF AgentsInv
<1>15. CASE Tick \/ UNCHANGED vars
  <2>1. UNCHANGED <<file, reads, call, seen, shown, strayed>>
    BY <1>15 DEF Tick, vars, history
  <2> QED
    BY <2>1 DEF IInv, AgentsInv, ReadsInv, CallInv, SameSnapshot, StatNow, Complete
<1> QED
  BY <1>1, <1>2, <1>3, <1>4, <1>5, <1>6, <1>7, <1>8, <1>9, <1>10, <1>11, <1>12, <1>13, <1>14,
     <1>15 DEF Next

LEMMA InvInit == Init => IInv
<1> SUFFICES ASSUME Init
             PROVE  IInv
  OBVIOUS
<1>1. TypeOK
  BY Records DEF Init, TypeOK
<1>2. AgentsInv
  BY DEF Init, AgentsInv, ReadsInv, CallInv, Unread, NoCall
<1> QED
  BY <1>1, <1>2 DEF IInv

LEMMA Invariance == Spec => []IInv
<1>1. IInv /\ [Next]_vars => IInv'
  BY TypeStep, InvStep DEF IInv
<1> QED
  BY <1>1, InvInit, PTL DEF Spec

-----------------------------------------------------------------------------
\* The results

\* The variables keep their types.
THEOREM TypeCorrect == Spec => []TypeOK
BY Invariance, PTL DEF IInv

\* assertFreshReadableCoverage: what a tool replaces, its agent has seen.
THEOREM SeenBeforeReplaced == Spec => OnlySeenIsReplaced
<1>1. IInv => \A a \in Agents :
                call[a].step = "rename" /\ file.text # Absent /\ file.text = call[a].found.text
                  /\ ~strayed[a]
                => LinesOf(file.text) \subseteq seen[a]
  BY DEF IInv, AgentsInv, CallInv
<1>2. IInv /\ [Next]_vars =>
        [\A a \in Agents :
           /\ call[a].step = "rename" /\ call'[a].step = "stat"
           /\ file.text # Absent /\ file.text = call[a].found.text /\ ~strayed[a]
           => LinesOf(file.text) \subseteq seen[a]]_vars
  BY <1>1
<1> QED
  BY <1>2, Invariance, PTL DEF Spec, OnlySeenIsReplaced

\* The snapshots of Read, Write and Edit: who has seen the whole file may replace it.
THEOREM SeenIsWritable == Spec => []SeenMayBeReplaced
<1>1. IInv => SeenMayBeReplaced
  <2> SUFFICES ASSUME IInv, NEW a \in Agents, file.text # Absent,
                      {0} \cup DOMAIN file.text \subseteq shown[a]
               PROVE  Complete(reads[a])
                      /\ SameSnapshot(reads[a], [text |-> file.text, stat |-> StatNow])
    BY DEF SeenMayBeReplaced
  <2>1. /\ reads[a].text = file.text /\ reads[a].stat = StatNow
        /\ shown[a] \ {0} \subseteq reads[a].lines /\ reads[a].lines \subseteq DOMAIN file.text
    BY DEF IInv, AgentsInv, ReadsInv, SameSnapshot
  <2>2. 0 \notin DOMAIN file.text
    <3>1. file.text \in Texts
      BY DEF IInv, TypeOK
    <3> QED
      BY <3>1, TextFacts
  <2> QED
    BY <2>1, <2>2 DEF Complete, SameSnapshot
<1> QED
  BY <1>1, Invariance, PTL

-----------------------------------------------------------------------------
(* Background tasks *)

USE TaskDeliveryAssumption DEF Shut

\* A call is made in a turn, of a task that exists but for the call that starts it; a
\* shell command is polled by the runtime that started it; while a call waits for a
\* subagent of its runtime no notice of it is in the conversation, but an unrecorded one.
ToolOK ==
  tool # NoTool =>
    /\ turn \in {"tools", "cancelled"}
    /\ tool.step = "begin" <=> life[tool.task] = "none"
    /\ tool.step = "settle" => tool.task \in Bash /\ life[tool.task] = "ended"
    /\ tool.step # "begin" /\ tool.task \in Bash => owner[tool.task] = runtime
    /\ tool.step = "wait" /\ tool.task \in Subagents /\ owner[tool.task] = runtime
         => tool.task \in unrecorded \/ ~Visible(tool.task)

\* What the tool of runtime r has told and delivered of t
DeliveryOK(t) ==
  /\ owner[t] <= runtime
  /\ \A r \in Runtimes :
       /\ <<r, t>> \in returned => /\ life[t] # "none" /\ owner[t] <= r /\ r <= runtime
                                   /\ t \in Bash => r = owner[t]
       /\ delivery[<<r, t>>] # "none" => <<r, t>> \in returned
       /\ delivery[<<r, t>>] = "running" => t \in Bash /\ life[t] = "ended"

\* A notice is there only if one was posted or is unrecorded; where a result is, the task is
\* over, no notice is under way and none is there but an unrecorded one.
ReportsOK(t) ==
  /\ Visible(t) => t \in unrecorded \/ \E r \in Runtimes : delivery[<<r, t>>] = "posted"
  /\ <<"result", t>> \in path =>
       /\ life[t] = "ended"
       /\ t \in Bash => delivery[<<owner[t], t>>] # "running"
       /\ t \in Bash \/ owner[t] = runtime => t \in unrecorded \/ ~Visible(t)

TaskInv ==
  /\ TaskTypeOK /\ ToolOK /\ ShutdownStopsPresent
  /\ \A t \in Tasks : DeliveryOK(t) /\ ReportsOK(t)

-----------------------------------------------------------------------------
(* Steps that change nothing of a task *)

LEMMA Quietly ==
  ASSUME TaskInv, TaskTypeOK', ToolOK', UNCHANGED <<tasks, runtime, detached>>,
         \A t \in Tasks : Visible(t)' => Visible(t),
         \A t \in Tasks : <<"result", t>> \in path' => <<"result", t>> \in path
  PROVE  TaskInv'
<1>1. UNCHANGED <<life, owner, returned, delivery, unrecorded, runtime, detached>>
  BY DEF tasks
<1>2. ShutdownStopsPresent'
  BY <1>1 DEF TaskInv, ShutdownStopsPresent
<1>3. ASSUME NEW t \in Tasks
      PROVE  DeliveryOK(t)' /\ ReportsOK(t)'
  BY <1>1, <1>3 DEF TaskInv, DeliveryOK, ReportsOK
<1> QED
  BY <1>2, <1>3 DEF TaskInv

\* A node of the turn's own takes the branch off the notices.
LEMMA OwnWritten ==
  ASSUME TaskInv, NEW reports \in SUBSET Report, WriteOwn(reports)
  PROVE  /\ path' \subseteq Report /\ log' \subseteq Report /\ side' = {}
         /\ \A t \in Tasks : <<"notice", t>> \notin reports => (Visible(t)' => Visible(t))
         /\ \A x : x \in path' <=> x \in path \/ x \in reports
  BY DEF TaskInv, TaskTypeOK, WriteOwn, Visible

LEMMA NothingWritten ==
  ASSUME TaskInv, WriteOwn({})
  PROVE  /\ path' = path /\ log' = log /\ side' = {}
         /\ \A t \in Tasks : Visible(t)' => Visible(t)
  BY DEF WriteOwn, Visible

LEMMA StartTurnInv ==
  ASSUME TaskInv, StartTurn
  PROVE  TaskInv'
<1> USE DEF StartTurn, tasks, host
<1>1. path' = path /\ log' = log /\ side' = {} /\ \A t \in Tasks : Visible(t)' => Visible(t)
  BY NothingWritten
<1>2. tool = NoTool
  BY DEF TaskInv, TaskTypeOK
<1>3. TaskTypeOK'
  BY <1>1 DEF TaskInv, TaskTypeOK
<1>4. ToolOK'
  BY <1>2 DEF ToolOK
<1> QED
  BY <1>1, <1>3, <1>4, Quietly

LEMMA ToolCallsInv ==
  ASSUME TaskInv, ToolCalls
  PROVE  TaskInv'
<1> USE DEF ToolCalls, tasks
<1>1. path' = path /\ log' = log /\ side' = {} /\ \A t \in Tasks : Visible(t)' => Visible(t)
  BY NothingWritten
<1>2. tool = NoTool
  BY DEF TaskInv, ToolOK
<1>3. TaskTypeOK'
  BY <1>1, <1>2 DEF TaskInv, TaskTypeOK
<1>4. ToolOK'
  BY <1>2 DEF ToolOK
<1> QED
  BY <1>1, <1>3, <1>4, Quietly

LEMMA NextModelCallInv ==
  ASSUME TaskInv, NextModelCall
  PROVE  TaskInv'
<1> USE DEF NextModelCall, tasks, host
<1>1. TaskTypeOK'
  BY DEF TaskInv, TaskTypeOK
<1>2. ToolOK'
  BY DEF ToolOK
<1> QED
  BY <1>1, <1>2, Quietly DEF Visible

LEMMA CancelTurnInv ==
  ASSUME TaskInv, CancelTurn
  PROVE  TaskInv'
<1> USE DEF CancelTurn, tasks, host
<1>1. TaskTypeOK'
  BY DEF TaskInv, TaskTypeOK
<1>2. ToolOK'
  BY DEF TaskInv, ToolOK, Visible
<1> QED
  BY <1>1, <1>2, Quietly DEF Visible

LEMMA EndTurnInv ==
  ASSUME TaskInv, EndTurn
  PROVE  TaskInv'
<1> USE DEF EndTurn, tasks, host
<1>1. ToolOK'
  BY DEF ToolOK
<1>2. CASE WriteOwn({})
  <2>1. path' = path /\ log' = log /\ side' = {} /\ \A t \in Tasks : Visible(t)' => Visible(t)
    BY <1>2, NothingWritten
  <2>2. TaskTypeOK'
    BY <2>1 DEF TaskInv, TaskTypeOK
  <2> QED
    BY <1>1, <2>1, <2>2, Quietly
<1>3. CASE path' = path \cup side /\ side' = {} /\ UNCHANGED log
  <2>1. TaskTypeOK'
    BY <1>3 DEF TaskInv, TaskTypeOK, Report
  <2>2. \A t \in Tasks : /\ Visible(t)' => Visible(t)
                         /\ <<"result", t>> \in path' => <<"result", t>> \in path
    BY <1>3 DEF TaskInv, TaskTypeOK, Visible
  <2> QED
    BY <1>1, <2>1, <2>2, Quietly
<1> QED
  BY <1>2, <1>3

LEMMA ForgetInv ==
  ASSUME TaskInv, Forget
  PROVE  TaskInv'
<1> USE DEF Forget, tasks, host
<1>1. TaskTypeOK'
  BY DEF TaskInv, TaskTypeOK
<1>2. ToolOK'
  BY DEF ToolOK
<1>3. \A t \in Tasks : /\ Visible(t)' => Visible(t)
                       /\ <<"result", t>> \in path' => <<"result", t>> \in path
  BY DEF Visible
<1> QED
  BY <1>1, <1>2, <1>3, Quietly

LEMMA BeginStartInv ==
  ASSUME TaskInv, NEW t \in Tasks, BeginStart(t)
  PROVE  TaskInv'
<1> USE DEF BeginStart, tasks, host, lane
<1>1. TaskTypeOK'
  BY DEF TaskInv, TaskTypeOK, Tool
<1>2. ToolOK'
  BY DEF ToolOK
<1> QED
  BY <1>1, <1>2, Quietly DEF Visible

LEMMA RefuseSpawnInv ==
  ASSUME TaskInv, RefuseSpawn
  PROVE  TaskInv'
<1> USE DEF RefuseSpawn, tasks, host
<1>1. path' = path /\ log' = log /\ side' = {} /\ \A t \in Tasks : Visible(t)' => Visible(t)
  BY NothingWritten
<1>2. TaskTypeOK'
  BY <1>1 DEF TaskInv, TaskTypeOK
<1>3. ToolOK'
  BY DEF ToolOK
<1> QED
  BY <1>1, <1>2, <1>3, Quietly

\* Of a task whose tool has delivered nothing no notice is there, but an unrecorded one.
LEMMA NothingPosted ==
  ASSUME TaskInv, NEW t \in Tasks, owner[t] = runtime, delivery[<<runtime, t>>] # "posted"
  PROVE  t \in unrecorded \/ ~Visible(t)
<1>1. ASSUME NEW r \in Runtimes, delivery[<<r, t>>] = "posted"
      PROVE  r = runtime
  <2>1. r \in Nat /\ runtime \in Nat /\ owner[t] <= r /\ r <= runtime
    BY <1>1 DEF TaskInv, TaskTypeOK, DeliveryOK, Runtimes
  <2> QED
    BY <2>1
<1> QED
  BY <1>1 DEF TaskInv, ReportsOK

LEMMA PollInv ==
  ASSUME TaskInv, NEW t \in Tasks, Poll(t)
  PROVE  TaskInv'
<1> USE DEF Poll, tasks, host
<1>1. polls' \in 0..MaxPolls
  BY DEF TaskInv, TaskTypeOK, TaskDeliveryAssumption
<1>2. CASE WriteOwn({<<"delivered", t>>}) /\ UNCHANGED <<tool, turn>>
  <2> PICK reports \in SUBSET Report : reports = {<<"delivered", t>>}
    BY DEF Report
  <2>0. \A s \in Tasks : <<"notice", s>> \notin reports /\ <<"result", s>> \notin reports
    OBVIOUS
  <2>1. /\ path' \subseteq Report /\ log' \subseteq Report /\ side' = {}
        /\ \A s \in Tasks : Visible(s)' => Visible(s)
        /\ \A x : x \in path' <=> x \in path \/ x \in reports
    <3> HIDE DEF Poll
    <3> QED
      BY <1>2, <2>0, OwnWritten
  <2>2. TaskTypeOK'
    BY <1>1, <1>2, <2>1 DEF TaskInv, TaskTypeOK
  <2>3. ToolOK'
    BY <1>2 DEF ToolOK
  <2> QED
    BY <2>0, <2>1, <2>2, <2>3, Quietly
<1>3. CASE /\ ~(t \in Subagents /\ delivery[<<runtime, t>>] \in {"running", "posted", "dropped"}
                /\ Visible(t))
           /\ tool' = [op |-> "poll", task |-> t, step |-> "wait"] /\ UNCHANGED lane
  <2>1. TaskTypeOK'
    BY <1>1, <1>3 DEF TaskInv, TaskTypeOK, Tool, lane
  <2>2. t \in Subagents /\ owner[t] = runtime => t \in unrecorded \/ ~Visible(t)
    BY <1>3, NothingPosted
  <2>3. ToolOK'
    BY <1>3, <2>2 DEF ToolOK, lane, Visible
  <2> QED
    BY <1>3, <2>1, <2>3, Quietly DEF lane, Visible
<1> QED
  BY <1>2, <1>3

LEMMA ReleaseInv ==
  ASSUME TaskInv, Release
  PROVE  TaskInv'
<1> USE DEF Release, tasks, host, lane
<1>1. /\ tool \in Tool /\ tool' \in Tool /\ tool'.task = tool.task /\ tool'.step = "settle"
  BY DEF TaskInv, TaskTypeOK, Tool, NoTool
<1>2. TaskTypeOK'
  BY <1>1 DEF TaskInv, TaskTypeOK
<1>3. ToolOK'
  BY <1>1 DEF TaskInv, ToolOK
<1> QED
  BY <1>2, <1>3, Quietly DEF Visible

-----------------------------------------------------------------------------
(* Steps of the tasks *)

LEMMA SpawnInv ==
  ASSUME TaskInv, Spawn
  PROVE  TaskInv'
<1> USE DEF Spawn, lane
<1> PICK t : t = tool.task
  OBVIOUS
<1>1. /\ tool \in Tool /\ t \in Tasks /\ life[t] = "none" /\ turn \in {"tools", "cancelled"}
      /\ tool' = [op |-> tool.op, task |-> t, step |-> "wait"]
      /\ tool' \in Tool /\ tool'.task = t /\ tool'.step = "wait"
  BY DEF TaskInv, TaskTypeOK, ToolOK, Tool, NoTool
<1>2. /\ life' = [life EXCEPT ![t] = "running"] /\ life'[t] = "running"
      /\ owner' = [owner EXCEPT ![t] = runtime] /\ owner'[t] = runtime
      /\ \A s \in Tasks : s # t => life'[s] = life[s] /\ owner'[s] = owner[s]
  BY <1>1 DEF TaskInv, TaskTypeOK
<1>3. TaskTypeOK'
  BY <1>1, <1>2 DEF TaskInv, TaskTypeOK
<1>4. /\ Visible(t) => t \in unrecorded
      /\ <<"result", t>> \notin path
      /\ \A r \in Runtimes : <<r, t>> \notin returned
  BY <1>1 DEF TaskInv, DeliveryOK, ReportsOK
<1>5. ToolOK'
  BY <1>1, <1>2, <1>4 DEF ToolOK, Visible
<1>6. ShutdownStopsPresent'
  BY <1>1, <1>2 DEF TaskInv, ShutdownStopsPresent, Tasks
<1>7. ASSUME NEW s \in Tasks
      PROVE  DeliveryOK(s)' /\ ReportsOK(s)'
  <2>1. CASE s = t
    <3>1. owner'[t] <= runtime'
      BY <1>2 DEF TaskInv, TaskTypeOK, Runtimes
    <3>2. \A r \in Runtimes : <<r, t>> \notin returned' /\ delivery'[<<r, t>>] = "none"
      BY <1>1, <1>4 DEF TaskInv, DeliveryOK
    <3>3. (Visible(t)' => t \in unrecorded') /\ <<"result", t>> \notin path'
      BY <1>4 DEF Visible
    <3> QED
      BY <2>1, <3>1, <3>2, <3>3 DEF DeliveryOK, ReportsOK
  <2>2. CASE s # t
    BY <1>2, <1>7, <2>2 DEF TaskInv, DeliveryOK, ReportsOK, Visible
  <2> QED
    BY <2>1, <2>2
<1> QED
  BY <1>3, <1>5, <1>6, <1>7 DEF TaskInv

LEMMA StillRunningInv ==
  ASSUME TaskInv, StillRunning
  PROVE  TaskInv'
<1> USE DEF StillRunning, host
<1> PICK t : t = tool.task
  OBVIOUS
<1>1. tool \in Tool /\ t \in Tasks /\ life[t] = "running" /\ (t \in Bash => owner[t] = runtime)
  BY DEF TaskInv, TaskTypeOK, ToolOK, Tool, NoTool
<1>2. path' = path /\ log' = log /\ side' = {} /\ \A s \in Tasks : Visible(s)' => Visible(s)
  BY NothingWritten
<1>3. TaskTypeOK'
  BY <1>1, <1>2 DEF TaskInv, TaskTypeOK
<1>4. ToolOK'
  BY DEF ToolOK
<1>5. ShutdownStopsPresent'
  BY DEF TaskInv, ShutdownStopsPresent
<1>6. ASSUME NEW s \in Tasks
      PROVE  DeliveryOK(s)' /\ ReportsOK(s)'
  <2>1. runtime \in Nat /\ owner[s] <= runtime
    BY <1>6 DEF TaskInv, TaskTypeOK, Runtimes, DeliveryOK
  <2>2. DeliveryOK(s)'
    BY <1>1, <1>6, <2>1 DEF TaskInv, DeliveryOK
  <2>3. ReportsOK(s)'
    BY <1>2, <1>6 DEF TaskInv, ReportsOK
  <2> QED
    BY <2>2, <2>3
<1> QED
  BY <1>3, <1>4, <1>5, <1>6 DEF TaskInv

LEMMA AnswerInv ==
  ASSUME TaskInv, Answer
  PROVE  TaskInv'
<1> USE DEF Answer, tasks, host
<1> PICK t : t = tool.task
  OBVIOUS
<1>1. /\ tool \in Tool /\ t \in Bash /\ t \in Tasks /\ life[t] = "ended" /\ owner[t] = runtime
      /\ turn \in {"tools", "cancelled"}
  BY DEF TaskInv, TaskTypeOK, ToolOK, Tool, NoTool
<1> PICK k \in {"delivered", "result"} :
      k = IF delivery[<<runtime, t>>] = "posted" /\ Visible(t) THEN "delivered" ELSE "result"
  OBVIOUS
<1> PICK reports \in SUBSET Report : reports = {<<k, t>>}
  BY <1>1 DEF Report
<1>2. \A s \in Tasks : /\ <<"notice", s>> \notin reports
                       /\ <<"result", s>> \in reports => s = t /\ k = "result"
  OBVIOUS
<1>3. /\ path' \subseteq Report /\ log' \subseteq Report /\ side' = {}
      /\ \A s \in Tasks : Visible(s)' => Visible(s)
      /\ \A x : x \in path' <=> x \in path \/ x \in reports
  BY <1>2, OwnWritten
<1>4. k = "result" => t \in unrecorded \/ ~Visible(t)
  BY <1>1, NothingPosted
<1>5. TaskTypeOK'
  BY <1>1, <1>3 DEF TaskInv, TaskTypeOK
<1>6. ToolOK'
  BY DEF ToolOK
<1>7. ShutdownStopsPresent'
  BY DEF TaskInv, ShutdownStopsPresent
<1>8. ASSUME NEW s \in Tasks
      PROVE  DeliveryOK(s)' /\ ReportsOK(s)'
  <2>1. DeliveryOK(s)'
    BY <1>8 DEF TaskInv, DeliveryOK
  <2>2. CASE s = t
    <3>1. delivery[<<runtime, t>>] # "running"
      BY DEF Settled
    <3> HIDE DEF Answer
    <3> QED
      BY <1>1, <1>2, <1>3, <1>4, <1>8, <2>1, <2>2, <3>1 DEF TaskInv, ReportsOK, Answer
  <2>3. CASE s # t
    BY <1>2, <1>3, <1>8, <2>1, <2>3 DEF TaskInv, ReportsOK
  <2> QED
    BY <2>2, <2>3
<1> QED
  BY <1>5, <1>6, <1>7, <1>8 DEF TaskInv

LEMMA SelectModelInv ==
  ASSUME TaskInv, SelectModel
  PROVE  TaskInv'
<1> USE DEF SelectModel, tasks, host
<1>1. TaskTypeOK'
  BY DEF TaskInv, TaskTypeOK
<1>2. ToolOK'
  BY DEF TaskInv, TaskTypeOK, ToolOK
<1> QED
  BY <1>1, <1>2, Quietly DEF Visible

LEMMA RuntimeSelectedInv ==
  ASSUME TaskInv, RuntimeSelected
  PROVE  TaskInv'
<1> USE DEF RuntimeSelected, tasks
<1>1. CASE runtime' = runtime
  <2>1. TaskTypeOK'
    BY <1>1 DEF TaskInv, TaskTypeOK
  <2>2. ToolOK'
    BY DEF TaskInv, TaskTypeOK, ToolOK
  <2> QED
    BY <1>1, <2>1, <2>2, Quietly DEF Visible
<1>2. CASE runtime' = runtime + 1
  <2>1. /\ runtime \in Runtimes /\ runtime \in Nat /\ runtime' \in Runtimes
        /\ detached \in 0..runtime'
    BY <1>2 DEF TaskInv, TaskTypeOK, Runtimes
  <2>2. TaskTypeOK'
    BY <2>1 DEF TaskInv, TaskTypeOK
  <2>3. ToolOK'
    BY DEF TaskInv, TaskTypeOK, ToolOK
  <2>4. ShutdownStopsPresent'
    BY DEF TaskInv, ShutdownStopsPresent
  <2>5. ASSUME NEW s \in Tasks
        PROVE  DeliveryOK(s)' /\ ReportsOK(s)'
    <3>1. owner[s] \in Nat /\ owner[s] <= runtime /\ \A r \in Runtimes : r \in Nat
      BY <2>5 DEF TaskInv, TaskTypeOK, DeliveryOK, Runtimes
    <3>2. DeliveryOK(s)'
      <4>1. owner[s] <= runtime' /\ \A r \in Runtimes : r <= runtime => r <= runtime'
        BY <1>2, <2>1, <3>1
      <4>2. UNCHANGED <<life, owner, returned, delivery>>
        OBVIOUS
      <4> HIDE DEF RuntimeSelected
      <4> QED
        BY <2>5, <4>1, <4>2 DEF TaskInv, DeliveryOK
    <3>3. owner[s] # runtime'
      BY <1>2, <2>1, <3>1
    <3>4. ReportsOK(s)'
      BY <2>5, <3>3 DEF TaskInv, ReportsOK, Visible
    <3> QED
      BY <3>2, <3>4
  <2> QED
    BY <2>2, <2>3, <2>4, <2>5 DEF TaskInv
<1> QED
  BY <1>1, <1>2

LEMMA ShutdownInv ==
  ASSUME TaskInv, Shutdown
  PROVE  TaskInv'
<1> USE DEF Shutdown, lane
<1>1. \A t \in Tasks :
        life'[t] = IF t \in Killed /\ life[t] = "running" THEN "ended" ELSE life[t]
  OBVIOUS
<1>2. /\ life' \in [Tasks -> {"none", "running", "ended"}]
      /\ \A t \in Tasks : /\ life'[t] = "none" <=> life[t] = "none"
                          /\ life[t] = "ended" => life'[t] = "ended"
                          /\ life'[t] = "running" => life[t] = "running" /\ t \notin Killed
  BY DEF TaskInv, TaskTypeOK
<1>3. TaskTypeOK'
  <2>1. detached' \in 0..runtime'
    BY DEF TaskInv, TaskTypeOK, Runtimes
  <2> QED
    BY <1>2, <2>1 DEF TaskInv, TaskTypeOK
<1>4. ToolOK'
  <2>1. tool # NoTool => tool.task \in Tasks
    BY DEF TaskInv, TaskTypeOK, Tool
  <2> QED
    BY <1>2, <2>1 DEF TaskInv, ToolOK, Visible
<1>5. ShutdownStopsPresent'
  <2> SUFFICES ASSUME NEW t \in Bash, life'[t] = "running"
               PROVE  owner'[t] # detached'
    BY DEF ShutdownStopsPresent
  <2>1. t \in Tasks /\ t \notin Killed
    BY <1>2 DEF Tasks
  <2> QED
    BY <2>1 DEF Killed
<1>6. ASSUME NEW s \in Tasks
      PROVE  DeliveryOK(s)' /\ ReportsOK(s)'
  BY <1>2, <1>6 DEF TaskInv, DeliveryOK, ReportsOK, Visible
<1> QED
  BY <1>3, <1>4, <1>5, <1>6 DEF TaskInv

-----------------------------------------------------------------------------
(* Notices *)

\* The notice of task t, of the tool of runtime r, is posted, dropped or fails; what its
\* step changes besides is t's life.
LEMMA CompletedInv ==
  ASSUME TaskInv, NEW r \in Runtimes, NEW t \in Tasks,
         <<r, t>> \in returned, OnComplete(r, t), life'[t] = "ended",
         life' \in [Tasks -> {"none", "running", "ended"}],
         \A s \in Tasks : s # t => life'[s] = life[s],
         life[t] = "running" \/ delivery[<<r, t>>] = "running", delivery[<<r, t>>] # "posted",
         t \in Subagents => ~(r = runtime /\ tool # NoTool /\ tool.task = t /\ tool.step = "wait"),
         UNCHANGED <<owner, returned, tool, host, polls>>
  PROVE  TaskInv'
<1> USE DEF host
<1>1. PICK outcome \in {"posted", "dropped", "failed"} :
         /\ delivery' = [delivery EXCEPT ![<<r, t>>] = outcome]
         /\ failures' \in 0..MaxFailures
         /\ \/ outcome = "posted" /\ WriteNotice(t) /\ UNCHANGED unrecorded
            \/ WriteNotice(t) /\ unrecorded' = unrecorded \cup {t}
            \/ outcome # "posted" /\ UNCHANGED <<lane, unrecorded>>
  <2>1. \A outcome : Settle(r, t, outcome) => failures' \in 0..MaxFailures
    BY DEF TaskInv, TaskTypeOK, Settle
  <2> QED
    BY <2>1 DEF OnComplete, Settle
<1>2. /\ <<r, t>> \in Runtimes \X Tasks /\ delivery' \in [Runtimes \X Tasks ->
                                  {"none", "running", "posted", "dropped", "failed"}]
      /\ delivery'[<<r, t>>] = outcome
      /\ \A q \in Runtimes, s \in Tasks :
           q # r \/ s # t => delivery'[<<q, s>>] = delivery[<<q, s>>]
  BY <1>1 DEF TaskInv, TaskTypeOK
<1>3. /\ turn' = turn /\ path' \subseteq Report /\ side' \subseteq {"notice"} \X Tasks
      /\ log' \subseteq Report /\ (turn \in {"idle", "select"} => side' = {})
      /\ unrecorded \subseteq unrecorded' /\ unrecorded' \subseteq Tasks
      /\ \A s \in Tasks : /\ \/ s # t
                             \/ outcome # "posted" /\ t \notin unrecorded'
                             => (Visible(s)' => Visible(s))
                          /\ <<"result", s>> \in path' <=> <<"result", s>> \in path
  BY <1>1 DEF TaskInv, TaskTypeOK, WriteNotice, lane, Visible, Report
<1>4. TaskTypeOK'
  BY <1>1, <1>2, <1>3 DEF TaskInv, TaskTypeOK
<1>5. <<"result", t>> \notin path
  BY DEF TaskInv, DeliveryOK, ReportsOK
<1>6. /\ life[t] # "none" /\ owner[t] <= r /\ r <= runtime
      /\ r \in Nat /\ runtime \in Nat /\ owner[t] \in Nat
  BY DEF TaskInv, TaskTypeOK, DeliveryOK, Runtimes
<1>7. ToolOK'
  <2> SUFFICES ASSUME tool # NoTool
               PROVE  ToolOK'
    BY DEF ToolOK
  <2>1. tool \in Tool /\ tool.task \in Tasks
    BY DEF TaskInv, TaskTypeOK, Tool
  <2>2. CASE tool.task = t
    <3>1. ~(t \in Subagents /\ owner[t] = runtime /\ tool.step = "wait")
      BY <1>6, <2>2
    <3> QED
      BY <1>3, <1>6, <2>2, <3>1 DEF TaskInv, ToolOK
  <2>3. CASE tool.task # t
    BY <1>3, <2>1, <2>3 DEF TaskInv, ToolOK
  <2> QED
    BY <2>2, <2>3
<1>8. ShutdownStopsPresent'
  BY DEF TaskInv, ShutdownStopsPresent, Tasks
<1>9. ASSUME NEW s \in Tasks
      PROVE  DeliveryOK(s)' /\ ReportsOK(s)'
  <2>1. CASE s = t
    <3>1. DeliveryOK(t)'
      BY <1>2, <1>6 DEF TaskInv, DeliveryOK
    <3>2. Visible(t)' => t \in unrecorded' \/ \E q \in Runtimes : delivery'[<<q, t>>] = "posted"
      <4> SUFFICES ASSUME Visible(t)', t \notin unrecorded', outcome # "posted"
                   PROVE  \E q \in Runtimes : delivery'[<<q, t>>] = "posted"
        BY <1>2
      <4> PICK q \in Runtimes : delivery[<<q, t>>] = "posted"
        BY <1>3 DEF TaskInv, ReportsOK
      <4> QED
        BY <1>2
    <3> QED
      BY <1>3, <1>5, <2>1, <3>1, <3>2 DEF ReportsOK
  <2>2. CASE s # t
    <3>1. owner[s] \in Runtimes
      BY <1>9 DEF TaskInv, TaskTypeOK
    <3>2. \A q \in Runtimes : delivery'[<<q, s>>] = delivery[<<q, s>>]
      BY <1>2, <1>9, <2>2
    <3>3. UNCHANGED <<owner[s], life[s], runtime, returned>>
      BY <1>9, <2>2 DEF host
    <3>4. DeliveryOK(s)'
      BY <1>9, <3>2, <3>3 DEF TaskInv, DeliveryOK
    <3>5. ReportsOK(s)'
      BY <1>3, <1>9, <2>2, <3>1, <3>2, <3>3 DEF TaskInv, ReportsOK
    <3> QED
      BY <3>4, <3>5
  <2> QED
    BY <2>1, <2>2
<1> QED
  BY <1>4, <1>7, <1>8, <1>9 DEF TaskInv

LEMMA TaskEndInv ==
  ASSUME TaskInv, NEW t \in Tasks, TaskEnd(t)
  PROVE  TaskInv'
<1> PICK r \in Runtimes : r = owner[t]
  BY DEF TaskInv, TaskTypeOK
<1>1. /\ life[t] = "running" /\ life' = [life EXCEPT ![t] = "ended"]
      /\ UNCHANGED <<owner, returned, tool, host, polls>>
      /\ \/ UNCHANGED <<delivery, lane, unrecorded, failures>>
         \/ /\ Deliverable(r, t, Waiting(r, t)) /\ t \in Bash
            /\ delivery' = [delivery EXCEPT ![<<r, t>>] = "running"]
            /\ UNCHANGED <<lane, unrecorded, failures>>
         \/ Deliverable(r, t, Waiting(r, t)) /\ OnComplete(r, t)
  BY DEF TaskEnd
<1>2. /\ life' \in [Tasks -> {"none", "running", "ended"}] /\ life'[t] = "ended"
      /\ \A s \in Tasks : s # t => life'[s] = life[s]
  BY <1>1 DEF TaskInv, TaskTypeOK
<1>3. CASE Deliverable(r, t, Waiting(r, t)) /\ OnComplete(r, t)
  BY <1>1, <1>2, <1>3, CompletedInv DEF Deliverable, Waiting
<1>4. CASE UNCHANGED <<lane, unrecorded, failures>> /\ (UNCHANGED delivery \/
             (/\ Deliverable(r, t, Waiting(r, t)) /\ t \in Bash
              /\ delivery' = [delivery EXCEPT ![<<r, t>>] = "running"]))
  <2> USE DEF lane, host
  <2>1. /\ delivery' \in [Runtimes \X Tasks -> {"none", "running", "posted", "dropped", "failed"}]
        /\ \A q \in Runtimes, s \in Tasks :
             \/ delivery'[<<q, s>>] = delivery[<<q, s>>]
             \/ /\ q = r /\ s = t /\ t \in Bash /\ delivery'[<<q, s>>] = "running"
                /\ <<r, t>> \in returned /\ delivery[<<q, s>>] # "posted"
    BY <1>4 DEF TaskInv, TaskTypeOK, Deliverable
  <2>2. TaskTypeOK'
    BY <1>1, <1>2, <1>4, <2>1 DEF TaskInv, TaskTypeOK
  <2>3. ToolOK'
    <3>1. tool # NoTool => tool.task \in Tasks
      BY DEF TaskInv, TaskTypeOK, Tool
    <3> QED
      BY <1>1, <1>2, <1>4, <3>1 DEF TaskInv, ToolOK, Visible
  <2>4. ShutdownStopsPresent'
    BY <1>1, <1>2 DEF TaskInv, ShutdownStopsPresent, Tasks
  <2>5. ASSUME NEW s \in Tasks
        PROVE  DeliveryOK(s)' /\ ReportsOK(s)'
    <3>1. DeliveryOK(s)'
      BY <1>1, <1>2, <2>1, <2>5 DEF TaskInv, DeliveryOK
    <3>2. Visible(s)' <=> Visible(s)
      BY <1>4 DEF Visible
    <3>3. Visible(s) => s \in unrecorded' \/ \E q \in Runtimes : delivery'[<<q, s>>] = "posted"
      <4> SUFFICES ASSUME Visible(s), s \notin unrecorded
                   PROVE  \E q \in Runtimes : delivery'[<<q, s>>] = "posted"
        BY <1>4
      <4> PICK q \in Runtimes : delivery[<<q, s>>] = "posted"
        BY <2>5 DEF TaskInv, ReportsOK
      <4> QED
        BY <2>1, <2>5
    <3>4. owner[s] \in Runtimes
      BY <2>5 DEF TaskInv, TaskTypeOK
    <3>5. <<"result", s>> \in path => s # t /\ life'[s] = "ended"
      BY <1>1, <1>2, <2>5 DEF TaskInv, ReportsOK
    <3>6. s \in Bash /\ s # t => (delivery'[<<owner[s], s>>] = delivery[<<owner[s], s>>])
      BY <2>1, <2>5, <3>4
    <3> QED
      BY <1>1, <1>4, <2>5, <3>1, <3>2, <3>3, <3>5, <3>6 DEF TaskInv, ReportsOK
  <2> QED
    BY <2>2, <2>3, <2>4, <2>5 DEF TaskInv
<1> QED
  BY <1>1, <1>3, <1>4

LEMMA PostInv ==
  ASSUME TaskInv, NEW r \in Runtimes, NEW t \in Tasks, Post(r, t)
  PROVE  TaskInv'
<1>1. <<r, t>> \in returned /\ t \in Bash /\ life[t] = "ended"
  BY DEF TaskInv, DeliveryOK, Post
<1>2. t \notin Subagents
  BY <1>1 DEF TaskDeliveryAssumption
<1>3. /\ life' = life /\ life' \in [Tasks -> {"none", "running", "ended"}]
  BY DEF TaskInv, TaskTypeOK, Post
<1> QED
  BY <1>1, <1>2, <1>3, CompletedInv DEF Post

\* A wait for subagent t is over; with its result, if it has ended, or without.
LEMMA ReleasedInv ==
  ASSUME TaskInv, NEW t \in Subagents, NEW reports \in SUBSET Report,
         tool # NoTool, tool.step = "wait", tool.task = t, tool' = NoTool,
         UNCHANGED turn, ReleaseSubagent(t, reports),
         reports = {} \/ (reports = {<<"result", t>>} /\ life[t] = "ended"),
         UNCHANGED <<life, owner, returned, host, polls>>
  PROVE  TaskInv'
<1> USE DEF host
<1>1. t \in Tasks /\ t \notin Bash /\ runtime \in Runtimes
  BY DEF Tasks, TaskInv, TaskTypeOK
<1>2. /\ path' = path \cup reports /\ side' = {} /\ log' \subseteq Report
      /\ failures' \in 0..MaxFailures
      /\ unrecorded \subseteq unrecorded' /\ unrecorded' \subseteq Tasks
      /\ \A s \in Tasks : s # t => (s \in unrecorded' <=> s \in unrecorded)
      /\ \/ delivery' = delivery
         \/ /\ <<runtime, t>> \in returned /\ delivery[<<runtime, t>>] \in {"none", "failed"}
            /\ \E outcome \in {"posted", "dropped", "failed"} :
                 delivery' = [delivery EXCEPT ![<<runtime, t>>] = outcome]
  <2>1. \A outcome : Settle(runtime, t, outcome) => failures' \in 0..MaxFailures
    BY DEF TaskInv, TaskTypeOK, Settle
  <2>2. log \subseteq Report /\ <<"notice", t>> \in Report /\ failures \in 0..MaxFailures
    BY <1>1 DEF TaskInv, TaskTypeOK, Report
  <2>3. /\ path' = path \cup reports /\ side' = {} /\ log' \subseteq Report
    BY <2>2 DEF ReleaseSubagent, WriteOwn
  <2>4. unrecorded' \in {unrecorded, unrecorded \cup {t}}
    BY DEF ReleaseSubagent
  <2>5. unrecorded \subseteq Tasks
    BY DEF TaskInv, TaskTypeOK
  <2>6. \/ delivery' = delivery /\ failures' = failures
        \/ /\ Deliverable(runtime, t, FALSE)
           /\ \E outcome \in {"posted", "dropped", "failed"} : Settle(runtime, t, outcome)
    BY DEF ReleaseSubagent
  <2> QED
    BY <1>1, <2>1, <2>2, <2>3, <2>4, <2>5, <2>6 DEF Deliverable, Settle
<1>3. /\ delivery' \in [Runtimes \X Tasks -> {"none", "running", "posted", "dropped", "failed"}]
      /\ \A q \in Runtimes, s \in Tasks :
           \/ delivery'[<<q, s>>] = delivery[<<q, s>>]
           \/ /\ q = runtime /\ s = t /\ delivery'[<<q, s>>] \in {"posted", "dropped", "failed"}
              /\ <<q, s>> \in returned /\ delivery[<<q, s>>] # "posted"
  BY <1>1, <1>2 DEF TaskInv, TaskTypeOK
<1>4. \A s \in Tasks : /\ Visible(s)' => Visible(s)
                       /\ <<"result", s>> \in path' => <<"result", s>> \in path
                                                        \/ (s = t /\ life[t] = "ended")
  <2>1. \A s : /\ <<"notice", s>> \notin reports
               /\ <<"result", s>> \in reports => s = t /\ life[t] = "ended"
    OBVIOUS
  <2> QED
    BY <1>2, <2>1 DEF Visible
<1>5. TaskTypeOK'
  BY <1>2, <1>3 DEF TaskInv, TaskTypeOK
<1>6. ToolOK'
  BY DEF ToolOK
<1>7. ShutdownStopsPresent'
  BY DEF TaskInv, ShutdownStopsPresent
<1>8. ASSUME NEW s \in Tasks
      PROVE  DeliveryOK(s)' /\ ReportsOK(s)'
  <2>1. DeliveryOK(s)'
    BY <1>3, <1>8 DEF TaskInv, DeliveryOK
  <2>2. Visible(s)' => s \in unrecorded' \/ \E q \in Runtimes : delivery'[<<q, s>>] = "posted"
    <3> SUFFICES ASSUME Visible(s), s \notin unrecorded'
                 PROVE  \E q \in Runtimes : delivery'[<<q, s>>] = "posted"
      BY <1>4, <1>8
    <3> PICK q \in Runtimes : delivery[<<q, s>>] = "posted"
      BY <1>2, <1>8 DEF TaskInv, ReportsOK
    <3> QED
      BY <1>3, <1>8
  <2>3. owner[s] \in Runtimes
    BY <1>8 DEF TaskInv, TaskTypeOK
  <2>4. CASE s = t
    <3>1. owner[t] = runtime => t \in unrecorded' \/ ~Visible(t)
      BY <1>2 DEF TaskInv, ToolOK
    <3> QED
      BY <1>1, <1>2, <1>4, <1>8, <2>2, <2>4, <2>1, <3>1 DEF TaskInv, ReportsOK
  <2>5. CASE s # t
    <3>1. s \in Bash => (delivery'[<<owner[s], s>>] = delivery[<<owner[s], s>>])
      BY <1>3, <1>8, <2>3, <2>5
    <3> QED
      BY <1>2, <1>4, <1>8, <2>1, <2>2, <2>5, <3>1 DEF TaskInv, ReportsOK
  <2> QED
    BY <2>4, <2>5
<1> QED
  BY <1>5, <1>6, <1>7, <1>8 DEF TaskInv

LEMMA AnswerSubagentInv ==
  ASSUME TaskInv, AnswerSubagent
  PROVE  TaskInv'
<1> PICK t : t = tool.task
  OBVIOUS
<1>1. t \in Subagents /\ t \in Tasks
  BY DEF AnswerSubagent, Tasks
<1>2. {<<"result", t>>} \in SUBSET Report
  BY <1>1 DEF Report
<1> PICK reports \in SUBSET Report : reports = {<<"result", t>>}
  BY <1>2
<1> QED
  BY <1>1, ReleasedInv DEF AnswerSubagent

LEMMA AbortWaitInv ==
  ASSUME TaskInv, AbortWait
  PROVE  TaskInv'
<1> PICK t : t = tool.task
  OBVIOUS
<1> PICK reports \in SUBSET Report : reports = {}
  OBVIOUS
<1> QED
  BY ReleasedInv DEF AbortWait

-----------------------------------------------------------------------------
LEMMA TaskInvInit == TaskInit => TaskInv
<1> SUFFICES ASSUME TaskInit
             PROVE  TaskInv
  OBVIOUS
<1> USE DEF TaskInit
<1>1. TaskTypeOK
  <2>1. 1 \in Runtimes /\ 0 \in 0..MaxPolls /\ 0 \in 0..MaxFailures
    BY DEF Runtimes, TaskDeliveryAssumption
  <2> QED
    BY <2>1 DEF TaskTypeOK
<1>2. ToolOK /\ ShutdownStopsPresent
  BY DEF ToolOK, ShutdownStopsPresent
<1>3. ASSUME NEW t \in Tasks
      PROVE  DeliveryOK(t) /\ ReportsOK(t)
  BY <1>3 DEF DeliveryOK, ReportsOK, Visible
<1> QED
  BY <1>1, <1>2, <1>3 DEF TaskInv

LEMMA TaskInvStep == TaskInv /\ [TaskNext]_taskVars => TaskInv'
<1> SUFFICES ASSUME TaskInv, [TaskNext]_taskVars
             PROVE  TaskInv'
  OBVIOUS
<1>1. CASE UNCHANGED taskVars
  <2>1. TaskTypeOK' /\ ToolOK' /\ UNCHANGED <<tasks, runtime, detached>> /\ UNCHANGED <<path, side>>
    BY <1>1 DEF taskVars, TaskInv, TaskTypeOK, ToolOK, Visible, tasks
  <2> QED
    BY <2>1, Quietly DEF Visible
<1>2. CASE TaskNext
  BY <1>2, StartTurnInv, ToolCallsInv, NextModelCallInv, CancelTurnInv, EndTurnInv, ForgetInv, BeginStartInv,
     PollInv, TaskEndInv, PostInv, SpawnInv, RefuseSpawnInv, StillRunningInv, ReleaseInv,
     AnswerInv, AnswerSubagentInv, AbortWaitInv, SelectModelInv,
     RuntimeSelectedInv, ShutdownInv, Zenon DEF TaskNext, CallStep
<1> QED
  BY <1>1, <1>2

LEMMA TaskInvariant == TaskSpec => []TaskInv
  BY TaskInvInit, TaskInvStep, PTL DEF TaskSpec

LEMMA TaskInvDelivered == TaskInv => DeliveredOnce
<1> SUFFICES ASSUME TaskInv, NEW t \in Tasks, {<<"notice", t>>, <<"result", t>>} \subseteq path,
                    t \notin unrecorded
             PROVE  t \in Subagents /\ owner[t] < runtime
  BY DEF DeliveredOnce
<1>1. Visible(t) /\ t \notin Bash /\ owner[t] # runtime
  BY DEF TaskInv, ReportsOK, Visible
<1>2. owner[t] <= runtime /\ owner[t] \in Nat /\ runtime \in Nat
  BY DEF TaskInv, TaskTypeOK, DeliveryOK, Runtimes
<1> QED
  BY <1>1, <1>2 DEF Tasks

-----------------------------------------------------------------------------
\* The results

\* The variables keep their types.
THEOREM TaskTypeCorrect == TaskSpec => []TaskTypeOK
  BY TaskInvariant, PTL DEF TaskInv

\* maybeDeliver, project: the result of a task is not pushed and pulled, but for a notice
\* written without its diagnostic and a subagent that outlives its runtime.
THEOREM ResultsReachTheModelOnce == TaskSpec => []DeliveredOnce
  BY TaskInvariant, TaskInvDelivered, PTL

\* shutdown, detach: then no shell command of the runtime the lane had runs, and none is
\* spawned with it, though turns go on and the lane may be given another runtime.
THEOREM ShutdownStopsItsCommands == TaskSpec => []ShutdownStopsPresent
<1>1. TaskInv => ShutdownStopsPresent
  BY DEF TaskInv
<1> QED
  BY <1>1, TaskInvariant, PTL
=============================================================================
