----------------------------- MODULE HostSessions ----------------------------
(***************************************************************************)
(* What a host keeps across its sessions: the registry of projects         *)
(* (packages/daemon/src/projects/registry.ts), the map of loaded lanes and  *)
(* the bindings of IM conversations to sessions                             *)
(* (packages/daemon/src/index.ts).                                          *)
(*                                                                         *)
(* Handlers run concurrently: between two steps of a request any other may  *)
(* step.  A step goes from one await to the next, and every await of a file *)
(* may fail.  The registry's mutations queue behind one another; reads of   *)
(* the registry do not.  projects.json is replaced by a rename,             *)
(* im-bindings.json is truncated and written.                               *)
(*                                                                         *)
(* Abstracted: what a session holds beyond its header's project, models,    *)
(* diagnostics, subagent sessions.  A directory is its canonical path.      *)
(***************************************************************************)
EXTENDS Integers, Sequences, FiniteSets

CONSTANTS
  Requests,      \* places for requests under way
  Dirs,          \* directories
  Workspace,     \* the default workspace's directory
  Sessions,      \* identities of sessions
  Conversations, \* external conversations of an IM extension
  None,
  MaxProjects,   \* bound: projects ever registered
  MaxAsked,      \* bound: requests
  MaxCrashes     \* bound: times the host stops

\* What clients ask of the host, and an extension
Ops == {"register", "remove", "create", "use", "message"}

ASSUME HostAssumption ==
  /\ Workspace \in Dirs /\ None \notin Dirs \cup Sessions \cup Conversations \cup Ops
  /\ IsFiniteSet(Conversations) /\ {MaxProjects, MaxAsked, MaxCrashes} \subseteq Nat

VARIABLES
  projects,     \* projects.json
  header,       \* events.jsonl of each session: Absent, Empty, or its header's project
  stored,       \* im-bindings.json: its text, or None when JSON.parse rejects it, and its size
  up,           \* the host runs
  lane,         \* #sessions: the lane of each session, 0 when not loaded
  lanes,        \* lanes made
  bindings,     \* #imBindings
  chain,        \* #mutation: the requests whose mutation waits or runs, in order
  req,          \* the requests
  made,         \* projects registered, ever
  registered,   \* history: projects acknowledged and not removed
  acked,        \* history: sessions acknowledged to the client that asked for them
  asked, crashes

disk == <<projects, header, stored>>
history == <<registered, acked, asked, crashes>>
vars == <<disk, up, lane, lanes, bindings, chain, req, made, history>>

ProjectIds == 1..MaxProjects
Project == [id : ProjectIds, dir : Dirs]
Absent == -1
Empty == 0
Header == {Absent, Empty} \cup ProjectIds
Bindings == [Conversations -> Sessions \cup {None}]
NoBindings == [c \in Conversations |-> None]
Size(b) == Cardinality({c \in Conversations : b[c] # None})

\* Where a request awaits; "turn": its lane was found and it works there.
InRegistry == {"queued", "listing", "scanning", "writing"}
Awaits == InRegistry \cup {"require", "load", "project", "reload", "open", "header", "runtime",
                           "save", "truncate", "rewrite"}

\* given: the client chose the session's id; exists: its file was there (EEXIST)
Request ==
  [op : Ops \cup {None}, pc : Awaits \cup {"idle", "turn"}, project : 0..MaxProjects,
   dir : Dirs \cup {None}, session : Sessions \cup {None}, conversation : Conversations \cup {None},
   given : BOOLEAN, exists : BOOLEAN, lane : Nat,
   file : SUBSET Project,      \* what its mutation read, and changed
   todo : SUBSET Sessions,     \* sessions sessionReferencesProject has yet to look at
   known : SUBSET Sessions,    \* history: sessions of the project acknowledged when it asked
   text : Bindings]            \* the bindings it writes
Idle ==
  [op |-> None, pc |-> "idle", project |-> 0, dir |-> None, session |-> None,
   conversation |-> None, given |-> FALSE, exists |-> FALSE, lane |-> 0, file |-> {},
   todo |-> {}, known |-> {}, text |-> NoBindings]

Init ==
  /\ projects = {} /\ header = [s \in Sessions |-> Absent]
  /\ stored = [text |-> NoBindings, size |-> 0]
  /\ up = TRUE /\ lane = [s \in Sessions |-> 0] /\ lanes = 0 /\ bindings = NoBindings
  /\ chain = <<>> /\ req = [r \in Requests |-> Idle] /\ made = 0
  /\ registered = {} /\ acked = {} /\ asked = 0 /\ crashes = 0

At(r, pc) == up /\ req[r].pc = pc
Becomes(r, q) == req' = [req EXCEPT ![r] = q]
Goto(r, pc) == Becomes(r, [req[r] EXCEPT !.pc = pc])
Answer(r) == Becomes(r, Idle)

\* Nobody has, or is about to have, a session of this id.
Unused(s) == header[s] = Absent /\ \A r \in Requests : req[r].session # s

-----------------------------------------------------------------------------
\* Requests arrive

Ask(r, new) ==
  /\ At(r, "idle") /\ asked < MaxAsked /\ asked' = asked + 1
  /\ Becomes(r, new)
  /\ UNCHANGED <<disk, up, lane, lanes, bindings, made, registered, acked, crashes>>

Register(r, d) ==
  /\ Ask(r, [Idle EXCEPT !.op = "register", !.pc = "queued", !.dir = d])
  /\ chain' = Append(chain, r)

Remove(r, p) ==
  /\ Ask(r, [Idle EXCEPT !.op = "remove", !.pc = "require", !.project = p,
                         !.known = {s \in acked : header[s] = p}])
  /\ UNCHANGED chain

Create(r, s, p, given) ==
  /\ given \/ Unused(s)
  /\ Ask(r, [Idle EXCEPT !.op = "create", !.pc = "require", !.session = s, !.project = p,
                         !.given = given])
  /\ UNCHANGED chain

\* A request about a session starts with getLane.
Use(r, s) ==
  /\ Ask(r, [Idle EXCEPT !.op = "use", !.session = s, !.lane = lane[s],
                         !.pc = IF lane[s] # 0 THEN "turn" ELSE "load"])
  /\ UNCHANGED chain

\* handleImMessage: ensureImBinding up to its first await
Message(r, c) ==
  IF bindings[c] # None
  THEN /\ Ask(r, [Idle EXCEPT !.op = "message", !.pc = "save", !.conversation = c,
                              !.session = bindings[c]])
       /\ UNCHANGED chain
  ELSE /\ Ask(r, [Idle EXCEPT !.op = "message", !.pc = "queued", !.conversation = c,
                              !.dir = Workspace])
       /\ chain' = Append(chain, r)

-----------------------------------------------------------------------------
\* The registry

\* Mutant: a mutation does not wait for those before it.
RunsAtOnce(r) == \E i \in DOMAIN chain : chain[i] = r

\* #mutate: the mutations run one at a time.
Runs(r) == chain # <<>> /\ Head(chain) = r

\* The mutation that ran is over; a request without one changes nothing.
Leave(r) == chain' = IF chain # <<>> /\ Head(chain) = r THEN Tail(chain) ELSE chain

\* register's answer; ensureDefaultWorkspaceProject goes on to createLane
Registered(r, project) ==
  /\ registered' = registered \cup {project}
  /\ \/ req[r].op = "register" /\ Answer(r)
     \/ /\ req[r].op = "message"
        /\ \E s \in Sessions :
             /\ Unused(s)
             /\ Becomes(r, [req[r] EXCEPT !.pc = "open", !.session = s, !.project = project.id])

\* The mutation reads projects.json.
RegisterRead(r) ==
  /\ At(r, "queued") /\ Runs(r) /\ req[r].op \in {"register", "message"}
  /\ IF \E project \in projects : project.dir = req[r].dir
     THEN /\ \E project \in projects : project.dir = req[r].dir /\ Registered(r, project)
          /\ Leave(r) /\ UNCHANGED made
     ELSE /\ made < MaxProjects /\ made' = made + 1
          /\ Becomes(r, [req[r] EXCEPT !.pc = "writing", !.project = made',
                       !.file = projects \cup {[id |-> made', dir |-> req[r].dir]}])
          /\ UNCHANGED <<chain, registered>>
  /\ UNCHANGED <<disk, up, lane, lanes, bindings, acked, asked, crashes>>

RemoveRead(r) ==
  /\ At(r, "queued") /\ Runs(r) /\ req[r].op = "remove"
  /\ IF \E project \in projects : project.id = req[r].project
     THEN /\ Becomes(r, [req[r] EXCEPT !.pc = "listing",
                       !.file = {project \in projects : project.id # req[r].project}])
          /\ UNCHANGED chain
     ELSE Answer(r) /\ Leave(r)
  /\ UNCHANGED <<disk, up, lane, lanes, bindings, made, history>>

\* sessionReferencesProject lists the directory, then reads one file at a time.
List(r) ==
  /\ At(r, "listing")
  /\ LET found == {s \in Sessions : header[s] # Absent}
     IN  Becomes(r, [req[r] EXCEPT !.todo = found,
                                   !.pc = IF found = {} THEN "writing" ELSE "scanning"])
  /\ UNCHANGED <<disk, up, lane, lanes, bindings, chain, made, history>>

\* Mutant: the first file decides.
ScanOne(r, s) ==
  /\ At(r, "scanning") /\ s \in req[r].todo
  /\ IF header[s] = req[r].project THEN Answer(r) /\ Leave(r)
     ELSE Goto(r, "writing") /\ UNCHANGED chain
  /\ UNCHANGED <<disk, up, lane, lanes, bindings, made, history>>

Scan(r, s) ==
  /\ At(r, "scanning") /\ s \in req[r].todo
  /\ IF header[s] = req[r].project THEN Answer(r) /\ Leave(r)
     ELSE /\ Becomes(r, [req[r] EXCEPT !.todo = @ \ {s},
                            !.pc = IF req[r].todo = {s} THEN "writing" ELSE "scanning"])
          /\ UNCHANGED chain
  /\ UNCHANGED <<disk, up, lane, lanes, bindings, made, history>>

\* #write's rename
Write(r) ==
  /\ At(r, "writing") /\ projects' = req[r].file /\ Leave(r)
  /\ IF req[r].op = "remove"
     THEN Answer(r) /\ registered' = {project \in registered : project.id # req[r].project}
     ELSE \E project \in req[r].file : project.id = req[r].project /\ Registered(r, project)
  /\ UNCHANGED <<header, stored, up, lane, lanes, bindings, made, acked, asked, crashes>>

\* Mutant: a failed mutation keeps those behind it waiting.
FailInPlace(r) ==
  /\ up /\ req[r].pc \in Awaits /\ (req[r].pc = "queued" => Runs(r))
  /\ Answer(r) /\ UNCHANGED chain
  /\ UNCHANGED <<disk, up, lane, lanes, bindings, made, history>>

\* A file operation fails: the request is answered with the error, the mutations behind it run.
Fail(r) ==
  /\ up /\ req[r].pc \in Awaits /\ (req[r].pc = "queued" => Runs(r))
  /\ Answer(r) /\ Leave(r)
  /\ UNCHANGED <<disk, up, lane, lanes, bindings, made, history>>

-----------------------------------------------------------------------------
\* Lanes

\* What a request does with its lane l.  One that creates a session is answered: with "conflict"
\* when it found the session loaded and of another project; a session whose file appeared under
\* it (EEXIST) is taken as it is.
Got(r, l) ==
  IF req[r].op = "create"
  THEN /\ Answer(r)
       /\ acked' = IF req[r].exists \/ header[req[r].session] = req[r].project
                   THEN acked \cup {req[r].session} ELSE acked
  ELSE Becomes(r, [req[r] EXCEPT !.pc = "turn", !.lane = l]) /\ UNCHANGED acked

\* getLane up to its first await
GetLane(r) ==
  IF lane[req[r].session] # 0 THEN Got(r, lane[req[r].session])
  ELSE Goto(r, "load") /\ UNCHANGED acked

\* resolveProject, of a request to create or remove
Require(r) ==
  /\ At(r, "require")
  /\ IF \A project \in projects : project.id # req[r].project
     THEN Answer(r) /\ UNCHANGED <<chain, acked>>
     ELSE \/ req[r].op = "remove" /\ Goto(r, "queued") /\ chain' = Append(chain, r) /\ UNCHANGED acked
          \/ req[r].given /\ GetLane(r) /\ UNCHANGED chain
          \/ req[r].op = "create" /\ ~req[r].given /\ Goto(r, "open") /\ UNCHANGED <<chain, acked>>
  /\ UNCHANGED <<disk, up, lane, lanes, bindings, made, registered, asked, crashes>>

\* loadSession reads the file; a header that was not written yet is an error.
Load(r) ==
  /\ At(r, "load")
  /\ LET found == header[req[r].session]
     IN  \/ found \in ProjectIds /\ Goto(r, "project")
         \/ found = Absent /\ req[r].op = "create" /\ Goto(r, "open")
         \/ found = Absent /\ req[r].op # "create" /\ Answer(r)
         \/ found = Empty /\ Answer(r)
  /\ UNCHANGED <<disk, up, lane, lanes, bindings, chain, made, history>>

\* resolveProject of getLane; createRuntime follows
LoadProject(r) ==
  /\ At(r, "project")
  /\ IF \E project \in projects : project.id = header[req[r].session]
     THEN Goto(r, "reload") ELSE Answer(r)
  /\ UNCHANGED <<disk, up, lane, lanes, bindings, chain, made, history>>

\* getLane's lane: it replaces one that another request set meanwhile.
Loaded(r) ==
  /\ At(r, "reload") /\ lanes' = lanes + 1
  /\ lane' = [lane EXCEPT ![req[r].session] = lanes'] /\ Got(r, lanes')
  /\ UNCHANGED <<disk, up, bindings, chain, made, registered, asked, crashes>>

\* Mutant: a conversation is bound before its session is there.
OpenBound(r) ==
  /\ At(r, "open") /\ header[req[r].session] = Absent
  /\ header' = [header EXCEPT ![req[r].session] = Empty] /\ Goto(r, "header")
  /\ bindings' = IF req[r].op = "message"
                 THEN [bindings EXCEPT ![req[r].conversation] = req[r].session] ELSE bindings
  /\ UNCHANGED <<projects, stored, up, lane, lanes, chain, made, history>>

\* createSession makes the file (flag "wx") ...
OpenFile(r) ==
  /\ At(r, "open") /\ header[req[r].session] = Absent
  /\ header' = [header EXCEPT ![req[r].session] = Empty] /\ Goto(r, "header")
  /\ UNCHANGED <<projects, stored, up, lane, lanes, bindings, chain, made, history>>

FileExists(r) ==
  /\ At(r, "open") /\ header[req[r].session] # Absent
  /\ IF lane[req[r].session] # 0
     THEN Answer(r) /\ acked' = acked \cup {req[r].session}
     ELSE Becomes(r, [req[r] EXCEPT !.pc = "load", !.exists = TRUE]) /\ UNCHANGED acked
  /\ UNCHANGED <<disk, up, lane, lanes, bindings, chain, made, registered, asked, crashes>>

\* ... and writes its header; createRuntime follows.
WriteHeader(r) ==
  /\ At(r, "header") /\ header' = [header EXCEPT ![req[r].session] = req[r].project]
  /\ Goto(r, "runtime")
  /\ UNCHANGED <<projects, stored, up, lane, lanes, bindings, chain, made, history>>

\* createLane returned: the lane is set, and a conversation is bound.
Created(r) ==
  /\ At(r, "runtime") /\ lanes' = lanes + 1
  /\ lane' = [lane EXCEPT ![req[r].session] = lanes']
  /\ IF req[r].op = "create" THEN Got(r, lanes') /\ UNCHANGED bindings
     ELSE /\ bindings' = [bindings EXCEPT ![req[r].conversation] = req[r].session]
          /\ Goto(r, "save") /\ UNCHANGED acked
  /\ UNCHANGED <<disk, up, chain, made, registered, asked, crashes>>

\* The turn, or whatever the request is, ends.
EndTurn(r) ==
  /\ At(r, "turn") /\ Answer(r)
  /\ UNCHANGED <<disk, up, lane, lanes, bindings, chain, made, history>>

-----------------------------------------------------------------------------
\* The bindings

\* saveImBindings: the text is taken, ...
Save(r) ==
  /\ At(r, "save") /\ Becomes(r, [req[r] EXCEPT !.pc = "truncate", !.text = bindings])
  /\ UNCHANGED <<disk, up, lane, lanes, bindings, chain, made, history>>

\* ... the file truncated ...
Truncate(r) ==
  /\ At(r, "truncate") /\ Goto(r, "rewrite")
  /\ stored' = [text |-> None, size |-> 0]
  /\ UNCHANGED <<projects, header, up, lane, lanes, bindings, chain, made, history>>

\* ... and written from its start: over a longer text, the rest of that stays.  handleImMessage
\* takes the lane.
Rewrite(r) ==
  /\ At(r, "rewrite")
  /\ LET size == Size(req[r].text)
     IN  stored' = IF size < stored.size THEN [stored EXCEPT !.text = None]
                   ELSE [text |-> req[r].text, size |-> size]
  /\ GetLane(r)
  /\ UNCHANGED <<projects, header, up, lane, lanes, bindings, chain, made, registered, asked, crashes>>

-----------------------------------------------------------------------------
\* The host stops and starts

Crash ==
  /\ up /\ crashes < MaxCrashes /\ crashes' = crashes + 1 /\ up' = FALSE
  /\ lane' = [s \in Sessions |-> 0] /\ bindings' = NoBindings
  /\ chain' = <<>> /\ req' = [r \in Requests |-> Idle]
  /\ UNCHANGED <<disk, lanes, made, registered, acked, asked>>

\* start fails when im-bindings.json cannot be parsed.
Start ==
  /\ ~up /\ stored.text # None /\ up' = TRUE /\ bindings' = stored.text
  /\ UNCHANGED <<disk, lane, lanes, chain, req, made, history>>

-----------------------------------------------------------------------------
Continue(r) ==
  \/ RegisterRead(r) \/ RemoveRead(r) \/ List(r) \/ (\E s \in Sessions : Scan(r, s)) \/ Write(r)
  \/ Require(r) \/ Load(r) \/ LoadProject(r) \/ Loaded(r)
  \/ OpenFile(r) \/ FileExists(r) \/ WriteHeader(r) \/ Created(r)
  \/ Save(r) \/ Truncate(r) \/ Rewrite(r) \/ Fail(r)

Next ==
  \/ \E r \in Requests :
       \/ \E d \in Dirs : Register(r, d)
       \/ \E p \in ProjectIds : Remove(r, p)
       \/ \E s \in Sessions, p \in ProjectIds, given \in BOOLEAN : Create(r, s, p, given)
       \/ \E s \in Sessions : Use(r, s)
       \/ \E c \in Conversations : Message(r, c)
       \/ Continue(r) \/ EndTurn(r)
  \/ Crash \/ Start

\* Every file operation succeeds or fails.  A turn need not end.
Fairness == \A r \in Requests : WF_vars(Continue(r))

Spec == Init /\ [][Next]_vars /\ Fairness

-----------------------------------------------------------------------------
\* Every variable has its type; the chain holds the mutations under way, each once.
TypeOK ==
  /\ projects \subseteq Project /\ header \in [Sessions -> Header]
  /\ stored \in [text : Bindings \cup {None}, size : Nat] /\ up \in BOOLEAN
  /\ lane \in [Sessions -> 0..lanes] /\ lanes \in Nat /\ bindings \in Bindings
  /\ chain \in Seq(Requests) /\ req \in [Requests -> Request] /\ made \in 0..MaxProjects
  /\ \A r \in Requests :
       req[r].pc \in InRegistry <=> \E i \in DOMAIN chain : chain[i] = r
  /\ \A i, j \in DOMAIN chain : chain[i] = chain[j] => i = j
  /\ registered \subseteq Project /\ acked \subseteq Sessions
  /\ asked \in 0..MaxAsked /\ crashes \in 0..MaxCrashes

\* However registrations and removals cross, fail and stop with the host, the registry holds a
\* directory once, and every project that a client was told of and nobody removed (#mutate).
RegistryKeeps ==
  /\ \A p, q \in projects : p.dir = q.dir => p = q
  /\ registered \subseteq projects

\* A project is not removed once a session of it was acknowledged before the client asked for
\* the removal (remove, sessionReferencesProject).
AckedSessionKeepsProject ==
  \A r \in Requests : At(r, "writing") /\ req[r].op = "remove" => req[r].known = {}

\* A conversation is bound, in memory and on disk, only to a session whose file has its header,
\* so that the next message, also after a stop, finds a session to load (ensureImBinding).
BoundSessionExists ==
  LET texts == {bindings} \cup {stored.text}
  IN  \A b \in texts \ {None}, c \in Conversations : b[c] # None => header[b[c]] \in ProjectIds

\* Every request gets its lane or its answer, whichever mutations before it fail (#mutate), or
\* the host stops.
RequestsAnswered == \A r \in Requests : req[r].pc \in Awaits ~> req[r].pc \notin Awaits

\* A session has one runtime at a time ("at most one Runtime for an active session", daemon.md).
OneRuntimePerSession ==
  \A q, r \in Requests :
    req[q].pc = "turn" /\ req[r].pc = "turn" /\ req[q].session = req[r].session =>
      req[q].lane = req[r].lane
=============================================================================
