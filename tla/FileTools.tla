------------------------------ MODULE FileTools ------------------------------
(***************************************************************************)
(* The Read, Write and Edit tools of core/src/tools/coding-tools.ts on one *)
(* file of a workspace.  Each agent (the runtime of a session, or of a      *)
(* subagent) has tools with a state of their own: the snapshot of the file  *)
(* and the lines its Reads covered.  Write and Edit replace an existing     *)
(* file only if the snapshot is complete and the file is still what it      *)
(* says.  Other agents, commands and people write the file between any two  *)
(* awaits of a call.                                                        *)
(*                                                                         *)
(* Abstracted: characters (Edit replaces whole lines), directories, paths  *)
(* that escape the workspace, binary files, the arithmetic of token        *)
(* budgets (a Read returns some complete lines, or fails).                 *)
(***************************************************************************)
EXTENDS Integers, Sequences, FiniteSets

CONSTANTS
  Agents,
  Line,        \* what a line may say
  Pattern,     \* the line "$&", which String.replace reads as a pattern
  Absent,      \* no file; nothing read
  MaxLines,    \* bound: lines of the file
  MaxCalls,    \* bound: tool calls
  MaxOutside,  \* bound: writes by somebody else, and runtimes made anew
  MaxClock     \* bound: ticks of the clock of mtimes

Texts == UNION {[1..n -> Line] : n \in 0..MaxLines}

ASSUME FileAssumption ==
  /\ Pattern \in Line /\ Absent \notin Texts
  /\ {MaxLines, MaxCalls, MaxOutside, MaxClock} \subseteq Nat

VARIABLES
  file,     \* its text and mtimeMs
  clock,    \* the time that mtimes show; writes may happen at the same time
  reads,    \* state.reads of each agent's tools
  call,     \* the call each agent's runtime runs: one at a time
  seen,     \* history: <<text, line>> that the agent was shown, or wrote itself
  shown,    \* history: of those, the lines since anybody else wrote the file; 0: it was opened
  strayed,  \* history: an Edit of the agent wrote another text than it was told
  calls, outside

history == <<seen, shown, strayed>>
bounds == <<calls, outside>>
vars == <<file, clock, reads, call, history, bounds>>

Numbers == 1..MaxLines
\* stat: mtimeMs and size
Stat == [mtime : 0..MaxClock, size : 0..MaxLines]
\* FileReadSnapshot; the text stands for content, hash and totalLines, lines for the ranges
Snapshot == [text : Texts \cup {Absent}, stat : Stat, lines : SUBSET Numbers]
NoStat == [mtime |-> 0, size |-> 0]
Unread == [text |-> Absent, stat |-> NoStat, lines |-> {}]

\* What a call awaits.  "open": readFile of a Read; "exists": stat of a Write; "check": snapshotFile
\* in assertFreshReadableCoverage, "checkText" when its stat has come, "checkStat" when its text has;
\* "base": readFile of an Edit; "temp", "rename": those of atomicWriteFile; "stat": of the last
\* snapshotFile
Step == {"idle", "open", "exists", "check", "checkText", "checkStat", "base", "temp", "rename", "stat"}
\* text: what was read, or is to be written; lines: of it, the selected; found: what the check
\* found; mtime: of the temporary file; clean: history, nobody else wrote the file since the
\* text was read or renamed; literal: history, an Edit's text is the checked one with new for old
Call == [op : {"Read", "Write", "Edit"}, step : Step, text : Texts \cup {Absent},
         lines : SUBSET Numbers, old : Line, new : Line, all : BOOLEAN, found : Snapshot,
         mtime : 0..MaxClock, clean : BOOLEAN, literal : BOOLEAN]
NoCall == [op |-> "Read", step |-> "idle", text |-> Absent, lines |-> {}, old |-> Pattern,
           new |-> Pattern, all |-> FALSE, found |-> Unread, mtime |-> 0, clean |-> FALSE,
           literal |-> TRUE]

Init ==
  /\ \E t \in Texts \cup {Absent} : file = [text |-> t, mtime |-> 0]
  /\ clock = 0
  /\ reads = [a \in Agents |-> Unread] /\ call = [a \in Agents |-> NoCall]
  /\ seen = [a \in Agents |-> {}] /\ shown = [a \in Agents |-> {}]
  /\ strayed = [a \in Agents |-> FALSE]
  /\ calls = 0 /\ outside = 0

-----------------------------------------------------------------------------
\* Snapshots

StatNow == [mtime |-> file.mtime, size |-> Len(file.text)]
LinesOf(t) == {<<t, i>> : i \in DOMAIN t}

\* hasCompleteCoverage
Complete(r) == r.text # Absent /\ r.lines = DOMAIN r.text

SameSnapshot(r, s) == r.text = s.text /\ r.stat = s.stat

\* Mutant: what was covered of an earlier text counts for the present one.
CoveredIgnoringText(previous, current) == previous.lines \cap DOMAIN current.text

\* previousRanges
Covered(previous, current) == IF SameSnapshot(previous, current) THEN previous.lines ELSE {}

-----------------------------------------------------------------------------
\* A call goes on, or ends with an error and no further effect.

Continue(a, c) == call' = [call EXCEPT ![a] = c]
End(a) == Continue(a, NoCall)

Begin(a, c) ==
  /\ call[a].step = "idle" /\ calls < MaxCalls
  /\ calls' = calls + 1 /\ Continue(a, c)
  /\ UNCHANGED <<file, clock, reads, history, outside>>

\* Any await may fail.  A failure of the last stat leaves the file written.
Fail(a) ==
  /\ call[a].step # "idle" /\ End(a)
  /\ UNCHANGED <<file, clock, reads, history, bounds>>

\* The file is a's work: what the others saw is out of date.
Touched(a) ==
  /\ shown' = [b \in Agents |-> {}]
  /\ call' = [b \in Agents |-> IF b = a THEN [call[b] EXCEPT !.step = "stat", !.clean = TRUE]
                                ELSE [call[b] EXCEPT !.clean = FALSE]]

-----------------------------------------------------------------------------
\* Read

BeginRead(a) == Begin(a, [NoCall EXCEPT !.step = "open"])

\* The lines from `offset` on, as many as the limit and the budget allow; a file that is shorter
\* gives none.
ReadText(a) ==
  /\ call[a].step = "open"
  /\ IF file.text = Absent THEN End(a)
     ELSE \E offset \in 1..(MaxLines + 1), end \in 0..MaxLines :
            /\ IF offset \in DOMAIN file.text THEN end \in offset..Len(file.text)
                                              ELSE end = offset - 1
            /\ Continue(a, [call[a] EXCEPT !.step = "stat", !.text = file.text,
                                           !.lines = offset..end, !.clean = TRUE])
  /\ UNCHANGED <<file, clock, reads, history, bounds>>

-----------------------------------------------------------------------------
\* Write and Edit: assertFreshReadableCoverage

\* Before the first await: refused when the file was not read, or not all of it.
Check(a, c) == Continue(a, IF Complete(reads[a]) THEN [c EXCEPT !.step = "check"] ELSE NoCall)

\* Both have come: refused when the file changed since the last Read.
Compared(a, c) ==
  Continue(a, IF SameSnapshot(reads[a], c.found)
              THEN [c EXCEPT !.step = IF c.op = "Write" THEN "temp" ELSE "base"] ELSE NoCall)

CheckStat(a) ==
  /\ call[a].step \in {"check", "checkStat"}
  /\ LET c == [call[a] EXCEPT !.found.stat = StatNow]
     IN  IF file.text = Absent THEN End(a)
         ELSE IF call[a].step = "check" THEN Continue(a, [c EXCEPT !.step = "checkText"])
         ELSE Compared(a, c)
  /\ UNCHANGED <<file, clock, reads, history, bounds>>

CheckText(a) ==
  /\ call[a].step \in {"check", "checkText"}
  /\ LET c == [call[a] EXCEPT !.found.text = file.text]
     IN  IF file.text = Absent THEN End(a)
         ELSE IF call[a].step = "check" THEN Continue(a, [c EXCEPT !.step = "checkStat"])
         ELSE Compared(a, c)
  /\ UNCHANGED <<file, clock, reads, history, bounds>>

BeginWrite(a) ==
  \E t \in Texts : Begin(a, [NoCall EXCEPT !.op = "Write", !.step = "exists", !.text = t])

\* A file that is not there is written without a check.
Exists(a) ==
  /\ call[a].step = "exists"
  /\ IF file.text = Absent THEN Continue(a, [call[a] EXCEPT !.step = "temp"]) ELSE Check(a, call[a])
  /\ UNCHANGED <<file, clock, reads, history, bounds>>

BeginEdit(a) ==
  \E old, new \in Line, all \in BOOLEAN :
    LET c == [NoCall EXCEPT !.op = "Edit", !.old = old, !.new = new, !.all = all]
    IN  /\ old # new
        /\ call[a].step = "idle" /\ calls < MaxCalls /\ calls' = calls + 1
        /\ Check(a, c)
        /\ UNCHANGED <<file, clock, reads, history, outside>>

Occurrences(t, old) == {i \in DOMAIN t : t[i] = old}
Substitute(t, at, new) == [i \in DOMAIN t |-> IF i \in at THEN new ELSE t[i]]

\* What the tool writes: String.replace puts the matched text for the pattern.
Replaced(t, c) ==
  Substitute(t, Occurrences(t, c.old), IF c.new = Pattern /\ ~c.all THEN c.old ELSE c.new)

\* The file is read again, and may be another one by now.
EditText(a) ==
  /\ call[a].step = "base"
  /\ LET c == call[a]
         at == Occurrences(file.text, c.old)
     IN  IF file.text = Absent \/ at = {} \/ (Cardinality(at) > 1 /\ ~c.all)
         THEN End(a)
         ELSE Continue(a, [c EXCEPT !.step = "temp", !.text = Replaced(file.text, c),
                !.literal = /\ file.text = c.found.text
                            /\ Replaced(file.text, c) = Substitute(file.text, at, c.new)])
  /\ UNCHANGED <<file, clock, reads, history, bounds>>

-----------------------------------------------------------------------------
\* atomicWriteFile, and the snapshot that ends every call

WriteTemp(a) ==
  /\ call[a].step = "temp"
  /\ Continue(a, [call[a] EXCEPT !.step = "rename", !.mtime = clock])
  /\ UNCHANGED <<file, clock, reads, history, bounds>>

Rename(a) ==
  /\ call[a].step = "rename"
  /\ file' = [text |-> call[a].text, mtime |-> call[a].mtime]
  /\ Touched(a)
  /\ UNCHANGED <<clock, reads, seen, strayed, bounds>>

\* Mutant: a Write or an Edit does not renew the snapshot.
KeptAfterWrite(a) ==
  IF call[a].op = "Read"
  THEN [text |-> call[a].text, stat |-> StatNow,
        lines |-> Covered(reads[a], [text |-> call[a].text, stat |-> StatNow]) \cup call[a].lines]
  ELSE reads[a]

\* The snapshot a call ends with.
Kept(a) ==
  LET now == [text |-> call[a].text, stat |-> StatNow, lines |-> DOMAIN call[a].text]
  IN  IF call[a].op = "Read"
      THEN [now EXCEPT !.lines = Covered(reads[a], now) \cup call[a].lines]
      ELSE now

Finish(a) ==
  /\ call[a].step = "stat" /\ file.text # Absent
  /\ LET c == call[a]
         lines == IF c.op = "Read" THEN c.lines ELSE DOMAIN c.text
     IN  /\ reads' = [reads EXCEPT ![a] = Kept(a)]
         /\ strayed' = [strayed EXCEPT ![a] = @ \/ ~c.literal]
         /\ seen' = [seen EXCEPT ![a] = IF c.literal THEN @ \cup {<<c.text, i>> : i \in lines} ELSE @]
         /\ shown' = [shown EXCEPT ![a] = IF c.clean THEN @ \cup {0} \cup lines ELSE @]
  /\ End(a)
  /\ UNCHANGED <<file, clock, bounds>>

-----------------------------------------------------------------------------
\* Everybody else

\* A command, an editor: another text at any time that is not in the future, or no file.
Outside ==
  /\ outside < MaxOutside /\ outside' = outside + 1
  /\ \E t \in Texts \cup {Absent}, m \in 0..clock : file' = [text |-> t, mtime |-> m]
  /\ shown' = [a \in Agents |-> {}]
  /\ call' = [a \in Agents |-> [call[a] EXCEPT !.clean = FALSE]]
  /\ UNCHANGED <<clock, reads, seen, strayed, calls>>

Tick == /\ clock < MaxClock /\ clock' = clock + 1
        /\ UNCHANGED <<file, reads, call, history, bounds>>

\* The agent gets a runtime with tools of its own: another model, or the host starts again.
NewRuntime(a) ==
  /\ outside < MaxOutside /\ outside' = outside + 1
  /\ reads' = [reads EXCEPT ![a] = Unread] /\ End(a)
  /\ shown' = [shown EXCEPT ![a] = {}] /\ strayed' = [strayed EXCEPT ![a] = FALSE]
  /\ UNCHANGED <<file, clock, seen, calls>>

Next ==
  \/ \E a \in Agents :
       \/ BeginRead(a) \/ ReadText(a)
       \/ BeginWrite(a) \/ Exists(a) \/ BeginEdit(a) \/ CheckStat(a) \/ CheckText(a) \/ EditText(a)
       \/ WriteTemp(a) \/ Rename(a) \/ Finish(a) \/ Fail(a) \/ NewRuntime(a)
  \/ Outside \/ Tick

Spec == Init /\ [][Next]_vars

-----------------------------------------------------------------------------
\* Properties

\* The variables keep their types.
TypeOK ==
  /\ file \in [text : Texts \cup {Absent}, mtime : 0..MaxClock] /\ clock \in 0..MaxClock
  /\ reads \in [Agents -> Snapshot] /\ call \in [Agents -> Call]
  /\ seen \in [Agents -> SUBSET (Texts \X Numbers)]
  /\ shown \in [Agents -> SUBSET (0..MaxLines)] /\ strayed \in [Agents -> BOOLEAN]
  /\ calls \in 0..MaxCalls /\ outside \in 0..MaxOutside

\* assertFreshReadableCoverage, and the coverage that several partial Reads, Writes and Edits
\* accumulate: a tool replaces no line of the file that its agent was not shown, or wrote,
\* whoever else wrote the file before.  Apart are what comes between the check and the rename, and what
\* follows an Edit that wrote another text than it was told (`strayed`).
OnlySeenIsReplaced ==
  [][\A a \in Agents :
       /\ call[a].step = "rename" /\ call'[a].step = "stat"
       /\ file.text # Absent /\ file.text = call[a].found.text /\ ~strayed[a]
       => LinesOf(file.text) \subseteq seen[a]]_vars

\* The snapshots that Read, Write and Edit keep: an agent that was shown all of the file, in
\* however many Reads, or wrote it, is not refused while nobody else writes it.
SeenMayBeReplaced ==
  \A a \in Agents :
    file.text # Absent /\ {0} \cup DOMAIN file.text \subseteq shown[a]
    => Complete(reads[a]) /\ SameSnapshot(reads[a], [text |-> file.text, stat |-> StatNow])
=============================================================================
