--------------------------- MODULE HostSessionsProofs ------------------------
(***************************************************************************)
(* Theorems about HostSessions, for any number of requests, directories,   *)
(* sessions, conversations, failures and stops of the host.                *)
(***************************************************************************)
EXTENDS HostSessions, FiniteSetTheorems, TLAPS

\* What the assumption says of each bound.
LEMMA Bounds ==
  /\ MaxProjects \in Nat /\ MaxAsked \in Nat /\ MaxCrashes \in Nat
  /\ None \notin Dirs /\ None \notin Sessions /\ None \notin Conversations /\ None \notin Ops
  /\ Workspace \in Dirs
BY HostAssumption

-----------------------------------------------------------------------------
\* TypeOK without the chain
DataOK ==
  /\ projects \subseteq Project /\ header \in [Sessions -> Header]
  /\ stored \in [text : Bindings \cup {None}, size : Nat] /\ up \in BOOLEAN
  /\ lane \in [Sessions -> 0..lanes] /\ lanes \in Nat /\ bindings \in Bindings
  /\ req \in [Requests -> Request] /\ made \in 0..MaxProjects
  /\ registered \subseteq Project /\ acked \subseteq Sessions
  /\ asked \in 0..MaxAsked /\ crashes \in 0..MaxCrashes

\* A request under way has what its next steps need.
Fits(q) ==
  /\ q.pc \in {"queued", "listing", "scanning", "writing"} =>
       q.op \in {"register", "remove", "message"}
  /\ q.pc \in {"listing", "scanning"} => q.op = "remove"
  /\ q.pc = "require" => q.op \in {"create", "remove"}
  /\ q.pc \in {"open", "header", "runtime"} => q.op \in {"create", "message"}
  /\ q.pc \in {"require", "open", "header", "writing"} \/ q.op \in {"remove", "create"} =>
       q.project \in ProjectIds
  /\ q.given => q.op = "create"
  /\ \/ q.op = "create"
     \/ q.pc \in {"load", "project", "reload", "open", "header", "runtime", "save", "truncate",
                  "rewrite"}
     => q.session \in Sessions
  /\ q.op = "message" => q.conversation \in Conversations
  /\ q.op \in {"register", "message"} /\ q.pc \in {"queued", "writing"} => q.dir \in Dirs
AllFit == \A r \in Requests : Fits(req[r])

\* Where a request is.
Places == Awaits \cup {"idle", "turn"}

\* r is the only request that changes.
Alone(r) == req' \in [Requests -> Request] /\ \A q \in Requests \ {r} : req'[q] = req[q]

\* What no step changes of a request before it is answered.
Given(r) ==
  /\ req'[r].op = req[r].op /\ req'[r].dir = req[r].dir /\ req'[r].known = req[r].known
  /\ req'[r].conversation = req[r].conversation /\ req'[r].given = req[r].given

(* The places, as a set *)
LEMMA PlaceNames ==
  {"queued", "listing", "scanning", "writing", "require", "load", "project", "reload", "open",
   "header", "runtime", "save", "truncate", "rewrite", "idle", "turn"} = Places
BY DEF Places, Awaits, InRegistry

(* No request *)
LEMMA IdleType ==
  /\ Idle \in Request /\ Idle.op = None /\ Idle.pc = "idle" /\ Idle.text = NoBindings
  /\ Idle.known = {} /\ Idle.given = FALSE
BY Bounds DEF Idle, Request, Bindings, NoBindings, Awaits, InRegistry, Ops

(* What one request becomes *)
LEMMA Becoming ==
  ASSUME req \in [Requests -> Request], NEW r \in Requests, NEW q \in Request, Becomes(r, q)
  PROVE  Alone(r) /\ req'[r] = q
BY DEF Becomes, Alone

(* A request is answered, *)
LEMMA Answering ==
  ASSUME req \in [Requests -> Request], NEW r \in Requests, Answer(r)
  PROVE  Alone(r) /\ req'[r] = Idle
BY Becoming, IdleType DEF Answer

(* or moves on, *)
LEMMA Going ==
  ASSUME req \in [Requests -> Request], NEW r \in Requests, NEW pc \in Places, Goto(r, pc)
  PROVE  /\ Alone(r) /\ Given(r) /\ req'[r].pc = pc
         /\ req'[r].session = req[r].session /\ req'[r].project = req[r].project
         /\ req'[r].file = req[r].file /\ req'[r].todo = req[r].todo /\ req'[r].text = req[r].text
<1> DEFINE q == [req[r] EXCEPT !.pc = pc]
<1>1. q \in Request
  BY DEF Request, Places
<1>2. /\ q.pc = pc /\ q.op = req[r].op /\ q.dir = req[r].dir /\ q.known = req[r].known
      /\ q.conversation = req[r].conversation /\ q.given = req[r].given
      /\ q.session = req[r].session
      /\ q.project = req[r].project /\ q.file = req[r].file /\ q.todo = req[r].todo
      /\ q.text = req[r].text
  BY DEF Request
<1>3. Alone(r) /\ req'[r] = q
  BY <1>1, Becoming DEF Goto
<1> QED
  BY <1>2, <1>3 DEF Given

(* goes on to create the session of a message, *)
LEMMA GoingOn ==
  ASSUME req \in [Requests -> Request], NEW r \in Requests, NEW s \in Sessions,
         NEW p \in ProjectIds,
         Becomes(r, [req[r] EXCEPT !.pc = "open", !.session = s, !.project = p])
  PROVE  /\ Alone(r) /\ Given(r) /\ req'[r].pc = "open" /\ req'[r].session = s
         /\ req'[r].project = p /\ req'[r].file = req[r].file /\ req'[r].todo = req[r].todo
         /\ req'[r].text = req[r].text
<1> DEFINE q == [req[r] EXCEPT !.pc = "open", !.session = s, !.project = p]
<1>0. "open" \in Places /\ p \in 0..MaxProjects
  BY PlaceNames, Bounds DEF ProjectIds
<1>1. q \in Request
  BY <1>0, ZenonT(60) DEF Request, Places
<1>2. /\ q.op = req[r].op /\ q.dir = req[r].dir /\ q.known = req[r].known
      /\ q.conversation = req[r].conversation /\ q.given = req[r].given /\ q.pc = "open"
      /\ q.session = s /\ q.project = p /\ q.file = req[r].file /\ q.todo = req[r].todo
      /\ q.text = req[r].text
  BY DEF Request
<1>3. Alone(r) /\ req'[r] = q
  BY <1>1, Becoming
<1> QED
  BY <1>2, <1>3 DEF Given

(* to write the registry with a project added, *)
LEMMA GoingToWrite ==
  ASSUME req \in [Requests -> Request], NEW r \in Requests, NEW p \in ProjectIds,
         NEW file \in SUBSET Project,
         Becomes(r, [req[r] EXCEPT !.pc = "writing", !.project = p, !.file = file])
  PROVE  /\ Alone(r) /\ Given(r) /\ req'[r].pc = "writing" /\ req'[r].project = p
         /\ req'[r].file = file /\ req'[r].session = req[r].session /\ req'[r].todo = req[r].todo
         /\ req'[r].text = req[r].text
<1> DEFINE q == [req[r] EXCEPT !.pc = "writing", !.project = p, !.file = file]
<1>0. "writing" \in Places /\ p \in 0..MaxProjects
  BY PlaceNames, Bounds DEF ProjectIds
<1>1. q \in Request
  BY <1>0, ZenonT(60) DEF Request, Places
<1>2. /\ q.op = req[r].op /\ q.dir = req[r].dir /\ q.known = req[r].known
      /\ q.conversation = req[r].conversation /\ q.given = req[r].given /\ q.pc = "writing"
      /\ q.project = p /\ q.file = file /\ q.session = req[r].session /\ q.todo = req[r].todo
      /\ q.text = req[r].text
  BY DEF Request
<1>3. Alone(r) /\ req'[r] = q
  BY <1>1, Becoming
<1> QED
  BY <1>2, <1>3 DEF Given

(* to look for sessions before it leaves one out, *)
LEMMA GoingToList ==
  ASSUME req \in [Requests -> Request], NEW r \in Requests, NEW file \in SUBSET Project,
         Becomes(r, [req[r] EXCEPT !.pc = "listing", !.file = file])
  PROVE  /\ Alone(r) /\ Given(r) /\ req'[r].pc = "listing" /\ req'[r].file = file
         /\ req'[r].session = req[r].session /\ req'[r].project = req[r].project
         /\ req'[r].todo = req[r].todo /\ req'[r].text = req[r].text
<1> DEFINE q == [req[r] EXCEPT !.pc = "listing", !.file = file]
<1>0. "listing" \in Places
  BY PlaceNames, Bounds
<1>1. q \in Request
  BY <1>0, ZenonT(60) DEF Request, Places
<1>2. /\ q.op = req[r].op /\ q.dir = req[r].dir /\ q.known = req[r].known
      /\ q.conversation = req[r].conversation /\ q.given = req[r].given /\ q.pc = "listing"
      /\ q.file = file /\ q.session = req[r].session /\ q.project = req[r].project
      /\ q.todo = req[r].todo /\ q.text = req[r].text
  BY DEF Request
<1>3. Alone(r) /\ req'[r] = q
  BY <1>1, Becoming
<1> QED
  BY <1>2, <1>3 DEF Given

\* It has todo still to look at, and stands at pc.
Scans(r, todo, pc) == Becomes(r, [req[r] EXCEPT !.todo = todo, !.pc = pc])

(* to look at those sessions, *)
LEMMA Scanning ==
  ASSUME req \in [Requests -> Request], NEW r \in Requests, NEW todo \in SUBSET Sessions,
         NEW pc \in Places,
         Scans(r, todo, pc)
  PROVE  /\ Alone(r) /\ Given(r) /\ req'[r].pc = pc /\ req'[r].todo = todo
         /\ req'[r].session = req[r].session /\ req'[r].project = req[r].project
         /\ req'[r].file = req[r].file /\ req'[r].text = req[r].text
<1> DEFINE q == [req[r] EXCEPT !.todo = todo, !.pc = pc]
<1>0. pc \in Places
  BY PlaceNames, Bounds
<1>1. q \in Request
  BY <1>0, ZenonT(60) DEF Request, Places
<1>2. /\ q.op = req[r].op /\ q.dir = req[r].dir /\ q.known = req[r].known
      /\ q.conversation = req[r].conversation /\ q.given = req[r].given /\ q.pc = pc
      /\ q.todo = todo /\ q.session = req[r].session /\ q.project = req[r].project
      /\ q.file = req[r].file /\ q.text = req[r].text
  BY DEF Request
<1>3. Alone(r) /\ req'[r] = q
  BY <1>1, Becoming DEF Scans
<1> QED
  BY <1>2, <1>3 DEF Given

(* to work on its lane, *)
LEMMA GoingToWork ==
  ASSUME req \in [Requests -> Request], NEW r \in Requests, NEW l \in Nat,
         Becomes(r, [req[r] EXCEPT !.pc = "turn", !.lane = l])
  PROVE  /\ Alone(r) /\ Given(r) /\ req'[r].pc = "turn" /\ req'[r].session = req[r].session
         /\ req'[r].project = req[r].project /\ req'[r].file = req[r].file
         /\ req'[r].todo = req[r].todo /\ req'[r].text = req[r].text
<1> DEFINE q == [req[r] EXCEPT !.pc = "turn", !.lane = l]
<1>0. "turn" \in Places
  BY PlaceNames, Bounds
<1>1. q \in Request
  BY <1>0, ZenonT(60) DEF Request, Places
<1>2. /\ q.op = req[r].op /\ q.dir = req[r].dir /\ q.known = req[r].known
      /\ q.conversation = req[r].conversation /\ q.given = req[r].given /\ q.pc = "turn"
      /\ q.session = req[r].session /\ q.project = req[r].project /\ q.file = req[r].file
      /\ q.todo = req[r].todo /\ q.text = req[r].text
  BY DEF Request
<1>3. Alone(r) /\ req'[r] = q
  BY <1>1, Becoming
<1> QED
  BY <1>2, <1>3 DEF Given

(* to load what it wanted to create, *)
LEMMA GoingToLoad ==
  ASSUME req \in [Requests -> Request], NEW r \in Requests,
         Becomes(r, [req[r] EXCEPT !.pc = "load", !.exists = TRUE])
  PROVE  /\ Alone(r) /\ Given(r) /\ req'[r].pc = "load" /\ req'[r].session = req[r].session
         /\ req'[r].project = req[r].project /\ req'[r].file = req[r].file
         /\ req'[r].todo = req[r].todo /\ req'[r].text = req[r].text
<1> DEFINE q == [req[r] EXCEPT !.pc = "load", !.exists = TRUE]
<1>0. "load" \in Places
  BY PlaceNames, Bounds
<1>1. q \in Request
  BY <1>0, ZenonT(60) DEF Request, Places
<1>2. /\ q.op = req[r].op /\ q.dir = req[r].dir /\ q.known = req[r].known
      /\ q.conversation = req[r].conversation /\ q.given = req[r].given /\ q.pc = "load"
      /\ q.session = req[r].session /\ q.project = req[r].project /\ q.file = req[r].file
      /\ q.todo = req[r].todo /\ q.text = req[r].text
  BY DEF Request
<1>3. Alone(r) /\ req'[r] = q
  BY <1>1, Becoming
<1> QED
  BY <1>2, <1>3 DEF Given

(* or to write the bindings. *)
LEMMA GoingToSave ==
  ASSUME req \in [Requests -> Request], NEW r \in Requests, NEW text \in Bindings,
         Becomes(r, [req[r] EXCEPT !.pc = "truncate", !.text = text])
  PROVE  /\ Alone(r) /\ Given(r) /\ req'[r].pc = "truncate" /\ req'[r].text = text
         /\ req'[r].session = req[r].session /\ req'[r].project = req[r].project
         /\ req'[r].file = req[r].file /\ req'[r].todo = req[r].todo
<1> DEFINE q == [req[r] EXCEPT !.pc = "truncate", !.text = text]
<1>0. "truncate" \in Places
  BY PlaceNames, Bounds
<1>1. q \in Request
  BY <1>0, ZenonT(60) DEF Request, Places
<1>2. /\ q.op = req[r].op /\ q.dir = req[r].dir /\ q.known = req[r].known
      /\ q.conversation = req[r].conversation /\ q.given = req[r].given /\ q.pc = "truncate"
      /\ q.text = text /\ q.session = req[r].session /\ q.project = req[r].project
      /\ q.file = req[r].file /\ q.todo = req[r].todo
  BY DEF Request
<1>3. Alone(r) /\ req'[r] = q
  BY <1>1, Becoming
<1> QED
  BY <1>2, <1>3 DEF Given

-----------------------------------------------------------------------------
(* A client asks to register a directory, *)
LEMMA Registering ==
  ASSUME req \in [Requests -> Request], NEW r \in Requests, NEW d \in Dirs,
         Becomes(r, [Idle EXCEPT !.op = "register", !.pc = "queued", !.dir = d])
  PROVE  /\ Alone(r) /\ req'[r].op = "register" /\ req'[r].pc = "queued" /\ req'[r].project = 0
         /\ req'[r].dir = d /\ req'[r].session = None /\ req'[r].conversation = None
         /\ req'[r].known = {} /\ req'[r].text = NoBindings /\ req'[r].given = FALSE
<1> DEFINE q == [Idle EXCEPT !.op = "register", !.pc = "queued", !.dir = d]
<1>0. "queued" \in Places /\ "register" \in Ops
  BY PlaceNames, Bounds DEF Ops, ProjectIds
<1>1. Idle \in Request
  BY IdleType
<1>2. q \in Request
  BY <1>0, <1>1, Bounds DEF Request, Places
<1>3. /\ q.op = "register" /\ q.pc = "queued" /\ q.project = 0 /\ q.dir = d /\ q.session = None
      /\ q.conversation = None /\ q.known = {} /\ q.text = NoBindings /\ q.given = FALSE
  BY DEF Idle
<1>4. Alone(r) /\ req'[r] = q
  BY <1>2, Becoming
<1> QED
  BY <1>3, <1>4

(* to remove a project, *)
LEMMA Removing ==
  ASSUME req \in [Requests -> Request], NEW r \in Requests, NEW p \in ProjectIds,
         NEW known \in SUBSET Sessions,
         Becomes(r, [Idle EXCEPT !.op = "remove", !.pc = "require", !.project = p, !.known = known])
  PROVE  /\ Alone(r) /\ req'[r].op = "remove" /\ req'[r].pc = "require" /\ req'[r].project = p
         /\ req'[r].dir = None /\ req'[r].session = None /\ req'[r].conversation = None
         /\ req'[r].known = known /\ req'[r].text = NoBindings /\ req'[r].given = FALSE
<1> DEFINE q == [Idle EXCEPT !.op = "remove", !.pc = "require", !.project = p, !.known = known]
<1>0. "require" \in Places /\ "remove" \in Ops /\ p \in 0..MaxProjects
  BY PlaceNames, Bounds DEF Ops, ProjectIds
<1>1. Idle \in Request
  BY IdleType
<1>2. q \in Request
  BY <1>0, <1>1, Bounds DEF Request, Places
<1>3. /\ q.op = "remove" /\ q.pc = "require" /\ q.project = p /\ q.dir = None /\ q.session = None
      /\ q.conversation = None /\ q.known = known /\ q.text = NoBindings /\ q.given = FALSE
  BY DEF Idle
<1>4. Alone(r) /\ req'[r] = q
  BY <1>2, Becoming
<1> QED
  BY <1>3, <1>4

(* to create a session, *)
LEMMA Creating ==
  ASSUME req \in [Requests -> Request], NEW r \in Requests, NEW p \in ProjectIds,
         NEW s \in Sessions, NEW given \in BOOLEAN,
         Becomes(r, [Idle EXCEPT !.op = "create", !.pc = "require", !.session = s, !.project = p,
                                       !.given = given])
  PROVE  /\ Alone(r) /\ req'[r].op = "create" /\ req'[r].pc = "require" /\ req'[r].project = p
         /\ req'[r].dir = None /\ req'[r].session = s /\ req'[r].conversation = None
         /\ req'[r].known = {} /\ req'[r].text = NoBindings /\ req'[r].given = given
<1> DEFINE q == [Idle EXCEPT !.op = "create", !.pc = "require", !.session = s, !.project = p,
                                       !.given = given]
<1>0. "require" \in Places /\ "create" \in Ops /\ p \in 0..MaxProjects
  BY PlaceNames, Bounds DEF Ops, ProjectIds
<1>1. Idle \in Request
  BY IdleType
<1>2. q \in Request
  BY <1>0, <1>1, Bounds DEF Request, Places
<1>3. /\ q.op = "create" /\ q.pc = "require" /\ q.project = p /\ q.dir = None /\ q.session = s
      /\ q.conversation = None /\ q.known = {} /\ q.text = NoBindings /\ q.given = given
  BY DEF Idle
<1>4. Alone(r) /\ req'[r] = q
  BY <1>2, Becoming
<1> QED
  BY <1>3, <1>4

(* or to use one; *)
LEMMA Using ==
  ASSUME req \in [Requests -> Request], NEW r \in Requests, NEW s \in Sessions, NEW l \in Nat,
         NEW pc \in Places,
         Becomes(r, [Idle EXCEPT !.op = "use", !.session = s, !.lane = l, !.pc = pc])
  PROVE  /\ Alone(r) /\ req'[r].op = "use" /\ req'[r].pc = pc /\ req'[r].project = 0
         /\ req'[r].dir = None /\ req'[r].session = s /\ req'[r].conversation = None
         /\ req'[r].known = {} /\ req'[r].text = NoBindings /\ req'[r].given = FALSE
<1> DEFINE q == [Idle EXCEPT !.op = "use", !.session = s, !.lane = l, !.pc = pc]
<1>0. "use" \in Ops
  BY PlaceNames, Bounds DEF Ops, ProjectIds
<1>1. Idle \in Request
  BY IdleType
<1>2. q \in Request
  BY <1>0, <1>1, Bounds DEF Request, Places
<1>3. /\ q.op = "use" /\ q.pc = pc /\ q.project = 0 /\ q.dir = None /\ q.session = s
      /\ q.conversation = None /\ q.known = {} /\ q.text = NoBindings /\ q.given = FALSE
  BY DEF Idle
<1>4. Alone(r) /\ req'[r] = q
  BY <1>2, Becoming
<1> QED
  BY <1>3, <1>4

(* a message comes for a conversation that has a session, *)
LEMMA Bound ==
  ASSUME req \in [Requests -> Request], NEW r \in Requests, NEW c \in Conversations,
         NEW s \in Sessions,
         Becomes(r, [Idle EXCEPT !.op = "message", !.pc = "save", !.conversation = c,
                                       !.session = s])
  PROVE  /\ Alone(r) /\ req'[r].op = "message" /\ req'[r].pc = "save" /\ req'[r].project = 0
         /\ req'[r].dir = None /\ req'[r].session = s /\ req'[r].conversation = c
         /\ req'[r].known = {} /\ req'[r].text = NoBindings /\ req'[r].given = FALSE
<1> DEFINE q == [Idle EXCEPT !.op = "message", !.pc = "save", !.conversation = c,
                                       !.session = s]
<1>0. "save" \in Places /\ "message" \in Ops
  BY PlaceNames, Bounds DEF Ops, ProjectIds
<1>1. Idle \in Request
  BY IdleType
<1>2. q \in Request
  BY <1>0, <1>1, Bounds DEF Request, Places
<1>3. /\ q.op = "message" /\ q.pc = "save" /\ q.project = 0 /\ q.dir = None /\ q.session = s
      /\ q.conversation = c /\ q.known = {} /\ q.text = NoBindings /\ q.given = FALSE
  BY DEF Idle
<1>4. Alone(r) /\ req'[r] = q
  BY <1>2, Becoming
<1> QED
  BY <1>3, <1>4

(* or for one that has none. *)
LEMMA Unbound ==
  ASSUME req \in [Requests -> Request], NEW r \in Requests, NEW c \in Conversations,
         Becomes(r, [Idle EXCEPT !.op = "message", !.pc = "queued", !.conversation = c,
                                       !.dir = Workspace])
  PROVE  /\ Alone(r) /\ req'[r].op = "message" /\ req'[r].pc = "queued" /\ req'[r].project = 0
         /\ req'[r].dir = Workspace /\ req'[r].session = None /\ req'[r].conversation = c
         /\ req'[r].known = {} /\ req'[r].text = NoBindings /\ req'[r].given = FALSE
<1> DEFINE q == [Idle EXCEPT !.op = "message", !.pc = "queued", !.conversation = c,
                                       !.dir = Workspace]
<1>0. "queued" \in Places /\ "message" \in Ops
  BY PlaceNames, Bounds DEF Ops, ProjectIds
<1>1. Idle \in Request
  BY IdleType
<1>2. q \in Request
  BY <1>0, <1>1, Bounds DEF Request, Places
<1>3. /\ q.op = "message" /\ q.pc = "queued" /\ q.project = 0 /\ q.dir = Workspace
      /\ q.session = None /\ q.conversation = c /\ q.known = {} /\ q.text = NoBindings
      /\ q.given = FALSE
  BY DEF Idle
<1>4. Alone(r) /\ req'[r] = q
  BY <1>2, Becoming
<1> QED
  BY <1>3, <1>4

-----------------------------------------------------------------------------
(* A request's fields have their types. *)
LEMMA Fields ==
  ASSUME DataOK
  PROVE  /\ \A r \in Requests :
               /\ req[r].project \in 0..MaxProjects /\ req[r].session \in Sessions \cup {None}
               /\ req[r].dir \in Dirs \cup {None} /\ req[r].file \in SUBSET Project
               /\ req[r].todo \in SUBSET Sessions /\ req[r].known \in SUBSET Sessions
               /\ req[r].text \in Bindings /\ req[r].pc \in Places
               /\ req[r].conversation \in Conversations \cup {None}
         /\ req \in [Requests -> Request]
         /\ ProjectIds \subseteq Header /\ 0..MaxProjects \subseteq Header
         /\ Absent \in Header /\ Empty \in Header /\ NoBindings \in Bindings
BY Bounds DEF DataOK, Request, Places, Header, ProjectIds, Empty, Absent, Bindings, NoBindings

\* The places, one by one
LEMMA InPlaces ==
  /\ "queued" \in Places /\ "listing" \in Places /\ "scanning" \in Places /\ "writing" \in Places
  /\ "require" \in Places /\ "load" \in Places /\ "project" \in Places /\ "reload" \in Places
  /\ "open" \in Places /\ "header" \in Places /\ "runtime" \in Places /\ "save" \in Places
  /\ "truncate" \in Places /\ "rewrite" \in Places /\ "turn" \in Places
BY PlaceNames

\* No request has all it needs.
LEMMA IdleFits == Fits(Idle)
BY IdleType, Bounds DEF Fits, Idle, Ops

\* A lane is found, or loaded.
LEMMA LaneMoves ==
  ASSUME DataOK, AllFit, NEW r \in Requests, req[r].session \in Sessions, NEW l \in Nat,
         Got(r, l)
  PROVE  Alone(r) /\ Fits(req'[r])
<1>1. CASE req[r].op = "create"
  <2>1. Answer(r)
    BY <1>1 DEF Got
  <2> QED
    BY <2>1, Answering, Fields, IdleFits
<1>2. CASE req[r].op # "create"
  <2>1. Becomes(r, [req[r] EXCEPT !.pc = "turn", !.lane = l])
    BY <1>2 DEF Got
  <2>2. /\ Alone(r) /\ Given(r) /\ req'[r].pc = "turn" /\ req'[r].session = req[r].session
        /\ req'[r].project = req[r].project
    BY <2>1, GoingToWork, Fields
  <2> QED
    BY <2>2 DEF Fits, Given, AllFit
<1> QED
  BY <1>1, <1>2

\* The steps of one request
Steps(r) ==
  \/ \E d \in Dirs : Register(r, d)
  \/ \E p \in ProjectIds : Remove(r, p)
  \/ \E s \in Sessions, p \in ProjectIds, given \in BOOLEAN : Create(r, s, p, given)
  \/ \E s \in Sessions : Use(r, s)
  \/ \E c \in Conversations : Message(r, c)
  \/ Continue(r) \/ EndTurn(r)

(* Only the request that steps changes, and it has what its next steps need. *)
LEMMA Moves ==
  ASSUME DataOK, AllFit, NEW r \in Requests, Steps(r)
  PROVE  Alone(r) /\ Fits(req'[r])
<1>1. ASSUME NEW d \in Dirs, Register(r, d)
      PROVE  Alone(r) /\ Fits(req'[r])
  <2>1. /\ Alone(r) /\ req'[r].op = "register" /\ req'[r].pc = "queued" /\ req'[r].dir = d
        /\ ~req'[r].given
    BY <1>1, Registering, Fields DEF Register, Ask
  <2> QED
    BY <2>1 DEF Fits
<1>2. ASSUME NEW p \in ProjectIds, Remove(r, p)
      PROVE  Alone(r) /\ Fits(req'[r])
  <2>1. {s \in acked : header[s] = p} \in SUBSET Sessions
    BY DEF DataOK
  <2>2. /\ Alone(r) /\ req'[r].op = "remove" /\ req'[r].pc = "require" /\ req'[r].project = p
        /\ ~req'[r].given
    BY <1>2, <2>1, Removing, Fields DEF Remove, Ask
  <2> QED
    BY <2>2 DEF Fits
<1>3. ASSUME NEW s \in Sessions, NEW p \in ProjectIds, NEW given \in BOOLEAN, Create(r, s, p, given)
      PROVE  Alone(r) /\ Fits(req'[r])
  <2>1. /\ Alone(r) /\ req'[r].op = "create" /\ req'[r].pc = "require" /\ req'[r].project = p
        /\ req'[r].session = s
    BY <1>3, Creating, Fields DEF Create, Ask
  <2> QED
    BY <2>1 DEF Fits
<1>4. ASSUME NEW s \in Sessions, Use(r, s)
      PROVE  Alone(r) /\ Fits(req'[r])
  <2>1. lane[s] \in Nat /\ (IF lane[s] # 0 THEN "turn" ELSE "load") \in Places
    BY InPlaces DEF DataOK
  <2>2. /\ Alone(r) /\ req'[r].op = "use" /\ req'[r].session = s
        /\ ~req'[r].given /\ req'[r].pc = IF lane[s] # 0 THEN "turn" ELSE "load"
    <3> DEFINE l == lane[s]
               pc == IF lane[s] # 0 THEN "turn" ELSE "load"
    <3>1. Becomes(r, [Idle EXCEPT !.op = "use", !.session = s, !.lane = l, !.pc = pc])
      BY <1>4 DEF Use, Ask
    <3>2. l \in Nat /\ pc \in Places /\ req \in [Requests -> Request]
      BY <2>1, Fields
    <3> HIDE DEF l, pc
    <3>3. Alone(r) /\ req'[r].op = "use" /\ req'[r].session = s /\ ~req'[r].given /\ req'[r].pc = pc
      BY <3>1, <3>2, Using
    <3> QED
      BY <3>3 DEF pc
  <2> QED
    BY <2>2 DEF Fits
<1>5. ASSUME NEW c \in Conversations, Message(r, c)
      PROVE  Alone(r) /\ Fits(req'[r])
  <2>1. CASE bindings[c] # None
    <3>1. bindings[c] \in Sessions
      BY <2>1 DEF DataOK, Bindings
    <3>2. /\ Alone(r) /\ req'[r].op = "message" /\ req'[r].pc = "save"
          /\ req'[r].session = bindings[c] /\ req'[r].conversation = c
          /\ ~req'[r].given
      BY <1>5, <2>1, <3>1, Bound, Fields DEF Message, Ask
    <3> QED
      BY <3>1, <3>2 DEF Fits
  <2>2. CASE bindings[c] = None
    <3>1. /\ Alone(r) /\ req'[r].op = "message" /\ req'[r].pc = "queued"
          /\ req'[r].dir = Workspace /\ req'[r].conversation = c
          /\ ~req'[r].given
      BY <1>5, <2>2, Unbound, Fields DEF Message, Ask
    <3> QED
      BY <3>1, Bounds DEF Fits
  <2> QED
    BY <2>1, <2>2
<1>6. CASE RegisterRead(r)
  <2>0. req[r].op \in {"register", "message"} /\ req[r].pc = "queued" /\ Fits(req[r])
    BY <1>6 DEF RegisterRead, At, AllFit
  <2>1. CASE Answer(r)
    BY <2>1, Answering, Fields, IdleFits
  <2>2. ASSUME NEW project \in projects, NEW s \in Sessions, req[r].op = "message",
               Becomes(r, [req[r] EXCEPT !.pc = "open", !.session = s, !.project = project.id])
        PROVE  Alone(r) /\ Fits(req'[r])
    <3>1. project.id \in ProjectIds
      BY DEF DataOK, Project
    <3>2. /\ Alone(r) /\ Given(r) /\ req'[r].pc = "open" /\ req'[r].session = s
          /\ req'[r].project = project.id
      BY <2>2, <3>1, GoingOn, Fields
    <3> QED
      BY <2>0, <2>2, <3>1, <3>2 DEF Fits, Given
  <2>3. ASSUME made < MaxProjects, made' = made + 1,
               Becomes(r, [req[r] EXCEPT !.pc = "writing", !.project = made',
                             !.file = projects \cup {[id |-> made', dir |-> req[r].dir]}])
        PROVE  Alone(r) /\ Fits(req'[r])
    <3>1. made' \in ProjectIds
      BY <2>3, Bounds DEF DataOK, ProjectIds
    <3>2. req[r].dir \in Dirs
      BY <2>0 DEF Fits
    <3>3. projects \cup {[id |-> made', dir |-> req[r].dir]} \in SUBSET Project
      BY <3>1, <3>2 DEF DataOK, Project
    <3>4. Alone(r) /\ Given(r) /\ req'[r].pc = "writing" /\ req'[r].project = made'
      <4> DEFINE p == made'
                 file == projects \cup {[id |-> made', dir |-> req[r].dir]}
      <4>1. p \in ProjectIds /\ file \in SUBSET Project
        BY <3>1, <3>3
      <4>2. Becomes(r, [req[r] EXCEPT !.pc = "writing", !.project = p, !.file = file])
        BY <2>3
      <4>3. req \in [Requests -> Request]
        BY Fields
      <4> HIDE DEF p, file
      <4>4. Alone(r) /\ Given(r) /\ req'[r].pc = "writing" /\ req'[r].project = p
        BY <4>1, <4>2, <4>3, GoingToWrite
      <4> QED
        BY <4>4 DEF p
    <3> QED
      BY <2>0, <3>1, <3>2, <3>4 DEF Fits, Given
  <2>4. CASE \E project \in projects : Registered(r, project)
    <3>1. PICK project \in projects : Registered(r, project)
      BY <2>4
    <3> QED
      BY <2>1, <2>2, <3>1 DEF Registered
  <2> QED
    BY <1>6, <2>3, <2>4 DEF RegisterRead
<1>7. CASE RemoveRead(r)
  <2>0. req[r].op = "remove" /\ req[r].pc = "queued" /\ Fits(req[r])
    BY <1>7 DEF RemoveRead, At, AllFit
  <2>1. CASE Answer(r)
    BY <2>1, Answering, Fields, IdleFits
  <2>2. CASE Becomes(r, [req[r] EXCEPT !.pc = "listing",
                           !.file = {project \in projects : project.id # req[r].project}])
    <3>1. {project \in projects : project.id # req[r].project} \in SUBSET Project
      BY DEF DataOK
    <3>2. Alone(r) /\ Given(r) /\ req'[r].pc = "listing" /\ req'[r].project = req[r].project
      BY <2>2, <3>1, GoingToList, Fields
    <3> QED
      BY <2>0, <3>2 DEF Fits, Given
  <2> QED
    BY <1>7, <2>1, <2>2 DEF RemoveRead
<1>8. CASE List(r)
  <2> DEFINE found == {s \in Sessions : header[s] # Absent}
             pc == IF found = {} THEN "writing" ELSE "scanning"
  <2>1. req[r].op = "remove" /\ req[r].pc = "listing" /\ Fits(req[r])
    BY <1>8 DEF List, At, AllFit, Fits
  <2>2. Becomes(r, [req[r] EXCEPT !.todo = found, !.pc = pc])
    BY <1>8 DEF List
  <2>3. pc \in {"writing", "scanning"} /\ found \in SUBSET Sessions
    OBVIOUS
  <2>4. PICK f \in SUBSET Sessions, c \in {"writing", "scanning"} :
               Scans(r, f, c)
    <3>1. Scans(r, found, pc)
      BY <2>2 DEF Scans
    <3> HIDE DEF found, pc
    <3> QED
      BY <2>3, <3>1, Zenon
  <2>5. c \in Places /\ req \in [Requests -> Request]
    BY <2>4, InPlaces, Fields
  <2>6. Alone(r) /\ Given(r) /\ req'[r].pc = c /\ req'[r].project = req[r].project
    BY <2>4, <2>5, Scanning
  <2> QED
    BY <2>1, <2>4, <2>6 DEF Fits, Given
<1>9. ASSUME NEW s \in Sessions, Scan(r, s)
      PROVE  Alone(r) /\ Fits(req'[r])
  <2> DEFINE pc == IF req[r].todo = {s} THEN "writing" ELSE "scanning"
  <2>0. req[r].op = "remove" /\ req[r].pc = "scanning" /\ Fits(req[r])
    BY <1>9 DEF Scan, At, AllFit, Fits
  <2>1. CASE Answer(r)
    BY <2>1, Answering, Fields, IdleFits
  <2>2. CASE Becomes(r, [req[r] EXCEPT !.todo = @ \ {s}, !.pc = pc])
    <3>1. pc \in {"writing", "scanning"} /\ req[r].todo \ {s} \in SUBSET Sessions
      BY Fields
    <3>2. Becomes(r, [req[r] EXCEPT !.todo = req[r].todo \ {s}, !.pc = pc])
      BY <2>2
    <3>3. PICK f \in SUBSET Sessions, c \in {"writing", "scanning"} :
                 Scans(r, f, c)
      <4>1. Scans(r, req[r].todo \ {s}, pc)
        BY <3>2 DEF Scans
      <4> HIDE DEF pc
      <4> QED
        BY <3>1, <4>1, Zenon
    <3>4. c \in Places /\ req \in [Requests -> Request]
      BY <3>3, InPlaces, Fields
    <3>5. Alone(r) /\ Given(r) /\ req'[r].pc = c /\ req'[r].project = req[r].project
      BY <3>3, <3>4, Scanning
    <3> QED
      BY <2>0, <3>3, <3>5 DEF Fits, Given
  <2> QED
    BY <1>9, <2>1, <2>2 DEF Scan
<1>10. CASE Write(r)
  <2>0. /\ req[r].op \in {"register", "remove", "message"} /\ req[r].pc = "writing"
        /\ Fits(req[r]) /\ req[r].file \in SUBSET Project
    BY <1>10, Fields DEF Write, At, AllFit, Fits
  <2>1. CASE Answer(r)
    BY <2>1, Answering, Fields, IdleFits
  <2>2. ASSUME NEW project \in req[r].file, NEW s \in Sessions, req[r].op = "message",
               Becomes(r, [req[r] EXCEPT !.pc = "open", !.session = s, !.project = project.id])
        PROVE  Alone(r) /\ Fits(req'[r])
    <3>1. project.id \in ProjectIds
      BY <2>0 DEF Project
    <3>2. /\ Alone(r) /\ Given(r) /\ req'[r].pc = "open" /\ req'[r].session = s
          /\ req'[r].project = project.id
      BY <2>2, <3>1, GoingOn, Fields
    <3> QED
      BY <2>0, <2>2, <3>1, <3>2 DEF Fits, Given
  <2>3. CASE \E project \in req[r].file : Registered(r, project)
    <3>1. PICK project \in req[r].file : Registered(r, project)
      BY <2>3
    <3> QED
      BY <2>1, <2>2, <3>1 DEF Registered
  <2> QED
    BY <1>10, <2>1, <2>3 DEF Write
<1>11. CASE Require(r)
  <2>0. req[r].op \in {"create", "remove"} /\ req[r].pc = "require" /\ Fits(req[r])
    BY <1>11 DEF Require, At, AllFit, Fits
  <2>1. CASE Answer(r)
    BY <2>1, Answering, Fields, IdleFits
  <2>2. CASE req[r].op = "remove" /\ Goto(r, "queued")
    BY <2>0, <2>2, Going, Fields, InPlaces DEF Fits, Given
  <2>3. CASE req[r].op = "create" /\ Goto(r, "open")
    BY <2>0, <2>3, Going, Fields, InPlaces DEF Fits, Given
  <2>4. CASE GetLane(r) /\ req[r].op = "create"
    <3>1. req[r].session \in Sessions /\ lane[req[r].session] \in Nat
      BY <2>0, <2>4 DEF Fits, DataOK
    <3>2. CASE Goto(r, "load")
      BY <2>0, <2>4, <3>2, Going, Fields, InPlaces DEF Fits, Given
    <3> QED
      BY <2>4, <3>1, <3>2, LaneMoves DEF GetLane
  <2>5. req[r].given => req[r].op = "create"
    BY <2>0 DEF Fits
  <2> QED
    BY <1>11, <2>1, <2>2, <2>3, <2>4, <2>5, Zenon DEF Require
<1>12. CASE Load(r)
  <2>0. req[r].pc = "load" /\ Fits(req[r])
    BY <1>12 DEF Load, At, AllFit
  <2>1. CASE Answer(r)
    BY <2>1, Answering, Fields, IdleFits
  <2>2. CASE Goto(r, "project")
    BY <2>0, <2>2, Going, Fields, InPlaces DEF Fits, Given
  <2>3. CASE req[r].op = "create" /\ Goto(r, "open")
    BY <2>0, <2>3, Going, Fields, InPlaces DEF Fits, Given
  <2> QED
    BY <1>12, <2>1, <2>2, <2>3 DEF Load
<1>13. CASE LoadProject(r)
  <2>0. req[r].pc = "project" /\ Fits(req[r])
    BY <1>13 DEF LoadProject, At, AllFit
  <2>1. CASE Answer(r)
    BY <2>1, Answering, Fields, IdleFits
  <2>2. CASE Goto(r, "reload")
    BY <2>0, <2>2, Going, Fields, InPlaces DEF Fits, Given
  <2> QED
    BY <1>13, <2>1, <2>2 DEF LoadProject
<1>14. CASE Loaded(r)
  <2>1. /\ req[r].pc = "reload" /\ Fits(req[r]) /\ lanes' = lanes + 1 /\ Got(r, lanes')
        /\ req[r].session \in Sessions
    BY <1>14 DEF Loaded, At, AllFit, Fits
  <2>2. lanes' \in Nat
    BY <2>1 DEF DataOK
  <2> QED
    BY <2>1, <2>2, LaneMoves
<1>15. CASE OpenFile(r)
  <2>0. req[r].pc = "open" /\ Fits(req[r]) /\ Goto(r, "header")
    BY <1>15 DEF OpenFile, At, AllFit
  <2> QED
    BY <2>0, Going, Fields, InPlaces DEF Fits, Given
<1>16. CASE FileExists(r)
  <2>0. req[r].pc = "open" /\ Fits(req[r])
    BY <1>16 DEF FileExists, At, AllFit
  <2>1. CASE Answer(r)
    BY <2>1, Answering, Fields, IdleFits
  <2>2. CASE Becomes(r, [req[r] EXCEPT !.pc = "load", !.exists = TRUE])
    <3>1. /\ Alone(r) /\ Given(r) /\ req'[r].pc = "load" /\ req'[r].session = req[r].session
          /\ req'[r].project = req[r].project
      BY <2>2, GoingToLoad, Fields
    <3> QED
      BY <2>0, <3>1 DEF Fits, Given
  <2> QED
    BY <1>16, <2>1, <2>2 DEF FileExists
<1>17. CASE WriteHeader(r)
  <2>0. req[r].pc = "header" /\ Fits(req[r]) /\ Goto(r, "runtime")
    BY <1>17 DEF WriteHeader, At, AllFit
  <2> QED
    BY <2>0, Going, Fields, InPlaces DEF Fits, Given
<1>18. CASE Created(r)
  <2>0. /\ req[r].pc = "runtime" /\ Fits(req[r]) /\ req[r].op \in {"create", "message"}
        /\ req[r].session \in Sessions /\ lanes' \in Nat
    BY <1>18 DEF Created, At, AllFit, Fits, DataOK
  <2>1. CASE Got(r, lanes')
    BY <2>0, <2>1, LaneMoves
  <2>2. CASE Goto(r, "save")
    BY <2>0, <2>2, Going, Fields, InPlaces DEF Fits, Given
  <2> QED
    BY <1>18, <2>1, <2>2 DEF Created
<1>19. CASE Save(r)
  <2>0. req[r].pc = "save" /\ Fits(req[r]) /\ bindings \in Bindings
    BY <1>19 DEF Save, At, AllFit, DataOK
  <2>1. /\ Alone(r) /\ Given(r) /\ req'[r].pc = "truncate" /\ req'[r].session = req[r].session
        /\ req'[r].project = req[r].project
    BY <1>19, <2>0, GoingToSave, Fields DEF Save
  <2> QED
    BY <2>0, <2>1 DEF Fits, Given
<1>20. CASE Truncate(r)
  <2>0. req[r].pc = "truncate" /\ Fits(req[r]) /\ Goto(r, "rewrite")
    BY <1>20 DEF Truncate, At, AllFit
  <2> QED
    BY <2>0, Going, Fields, InPlaces DEF Fits, Given
<1>21. CASE Rewrite(r)
  <2>0. /\ req[r].pc = "rewrite" /\ Fits(req[r]) /\ req[r].session \in Sessions
        /\ lane[req[r].session] \in Nat
    BY <1>21 DEF Rewrite, At, AllFit, Fits, DataOK
  <2>1. CASE Goto(r, "load")
    BY <2>0, <2>1, Going, Fields, InPlaces DEF Fits, Given
  <2> QED
    BY <1>21, <2>0, <2>1, LaneMoves DEF Rewrite, GetLane
<1>22. CASE Fail(r)
  BY <1>22, Answering, Fields, IdleFits DEF Fail
<1>23. CASE EndTurn(r)
  BY <1>23, Answering, Fields, IdleFits DEF EndTurn
<1> QED
  BY <1>1, <1>2, <1>3, <1>4, <1>5, <1>6, <1>7, <1>8, <1>9, <1>10, <1>11, <1>12, <1>13,
     <1>14, <1>15, <1>16, <1>17, <1>18, <1>19, <1>20, <1>21, <1>22, <1>23 DEF Steps,
     Continue

(* A new lane of a session has its type. *)
LEMMA LaneType ==
  ASSUME DataOK, NEW s \in Sessions
  PROVE  lanes + 1 \in Nat /\ [lane EXCEPT ![s] = lanes + 1] \in [Sessions -> 0..(lanes + 1)]
<1>1. lanes \in Nat /\ lane \in [Sessions -> 0..lanes]
  BY DEF DataOK
<1>2. \A n \in 0..lanes : n \in 0..(lanes + 1)
  BY <1>1
<1>3. lane \in [Sessions -> 0..(lanes + 1)] /\ lanes + 1 \in 0..(lanes + 1)
  BY <1>1, <1>2
<1> QED
  BY <1>1, <1>3

(* No step gives a variable another type. *)
LEMMA DataStep ==
  ASSUME DataOK, AllFit, [Next]_vars
  PROVE  DataOK'
<1> USE DEF disk, history
<1>1. ASSUME NEW r \in Requests,
             \/ RemoveRead(r) \/ List(r) \/ Load(r) \/ LoadProject(r) \/ Save(r) \/ Fail(r)
             \/ EndTurn(r)
             \/ (\E s \in Sessions : Scan(r, s))
      PROVE  DataOK'
  <2>1. req' \in [Requests -> Request]
    BY <1>1, Moves DEF Steps, Continue, Alone
  <2> QED
    BY <1>1, <2>1, ZenonT(60) DEF RemoveRead, List, Scan, Load, LoadProject, Save, Fail, EndTurn, DataOK
<1>2. ASSUME NEW r \in Requests,
             \/ (\E d \in Dirs : Register(r, d))
             \/ (\E p \in ProjectIds : Remove(r, p))
             \/ (\E s \in Sessions, p \in ProjectIds, given \in BOOLEAN : Create(r, s, p, given))
             \/ (\E s \in Sessions : Use(r, s))
             \/ (\E c \in Conversations : Message(r, c))
      PROVE  DataOK'
  <2>1. req' \in [Requests -> Request]
    BY <1>2, Moves DEF Steps, Alone
  <2>2. asked' \in 0..MaxAsked
    <3>1. asked < MaxAsked /\ asked' = asked + 1
      BY <1>2 DEF Register, Remove, Create, Use, Message, Ask
    <3> QED
      BY <3>1, Bounds DEF DataOK
  <2> QED
    BY <1>2, <2>1, <2>2, ZenonT(60) DEF Register, Remove, Create, Use, Message, Ask, DataOK
<1>3. ASSUME NEW r \in Requests,
             \/ OpenFile(r) \/ WriteHeader(r)
      PROVE  DataOK'
  <2>1. header' \in [Sessions -> Header]
    BY <1>3, Fields DEF OpenFile, WriteHeader, DataOK
  <2> QED
    BY <1>3, <2>1, Moves DEF OpenFile, WriteHeader, Alone, Steps, Continue, DataOK
<1>4. ASSUME NEW r \in Requests, RegisterRead(r)
      PROVE  DataOK'
  <2>0. made < MaxProjects => made + 1 \in 0..MaxProjects
    BY Bounds DEF DataOK
  <2>1. made' \in 0..MaxProjects /\ registered' \subseteq Project
    BY <1>4, <2>0 DEF RegisterRead, Registered, DataOK
  <2> QED
    BY <1>4, <2>1, Moves DEF RegisterRead, Alone, Steps, Continue, DataOK
<1>5. ASSUME NEW r \in Requests, Write(r)
      PROVE  DataOK'
  <2>1. req[r].file \in SUBSET Project
    BY Fields
  <2>2. projects' \subseteq Project /\ registered' \subseteq Project
    <3>1. CASE req[r].op = "remove"
      BY <1>5, <2>1, <3>1 DEF Write, DataOK
    <3>2. CASE req[r].op # "remove"
      <4>1. PICK project \in req[r].file : Registered(r, project)
        BY <1>5, <3>2 DEF Write
      <4>2. registered' = registered \cup {project}
        BY <4>1 DEF Registered
      <4>3. projects' = req[r].file
        BY <1>5 DEF Write
      <4> QED
        BY <2>1, <4>1, <4>2, <4>3 DEF DataOK
    <3> QED
      BY <3>1, <3>2
  <2> QED
    BY <1>5, <2>2, Moves DEF Write, Alone, Steps, Continue, DataOK
<1>6. ASSUME NEW r \in Requests, Require(r)
      PROVE  DataOK'
  <2>1. req[r].session \in Sessions \cup {None}
        /\ (req[r].op = "create" => req[r].session \in Sessions)
    BY Fields DEF AllFit, Fits
  <2>2. acked' \subseteq Sessions
    BY <1>6, <2>1 DEF Require, GetLane, Got, DataOK
  <2> QED
    BY <1>6, <2>2, Moves DEF Require, Alone, Steps, Continue, DataOK
<1>7. ASSUME NEW r \in Requests, Loaded(r)
      PROVE  DataOK'
  <2>1. req[r].session \in Sessions
    BY <1>7 DEF Loaded, At, AllFit, Fits
  <2>2. acked' \subseteq Sessions
    BY <1>7, <2>1 DEF Loaded, Got, DataOK
  <2>3. lanes' \in Nat /\ lane' \in [Sessions -> 0..lanes']
    BY <1>7, <2>1, LaneType DEF Loaded
  <2> QED
    BY <1>7, <2>2, <2>3, Moves DEF Loaded, Alone, Steps, Continue, DataOK
<1>8. ASSUME NEW r \in Requests, FileExists(r)
      PROVE  DataOK'
  <2>0. req[r].op \in {"create", "message"} /\ req[r].session \in Sessions
    BY <1>8 DEF FileExists, At, AllFit, Fits
  <2>1. acked' \subseteq Sessions
    BY <1>8, <2>0 DEF FileExists, DataOK
  <2> QED
    BY <1>8, <2>1, Moves DEF FileExists, Alone, Steps, Continue, DataOK
<1>9. ASSUME NEW r \in Requests, Created(r)
      PROVE  DataOK'
  <2>1. req[r].session \in Sessions
    BY <1>9 DEF Created, At, AllFit, Fits
  <2>2. acked' \subseteq Sessions
    BY <1>9, <2>1 DEF Created, Got, DataOK
  <2>3. lanes' \in Nat /\ lane' \in [Sessions -> 0..lanes']
    BY <1>9, <2>1, LaneType DEF Created
  <2>4. bindings' \in Bindings
    BY <1>9, <2>1 DEF Created, DataOK, Bindings
  <2> QED
    BY <1>9, <2>2, <2>3, <2>4, Moves DEF Created, Alone, Steps, Continue, DataOK
<1>10. ASSUME NEW r \in Requests, Truncate(r)
      PROVE  DataOK'
  <2>1. stored' \in [text : Bindings \cup {None}, size : Nat]
    BY <1>10 DEF Truncate
  <2> QED
    BY <1>10, <2>1, Moves DEF Truncate, Alone, Steps, Continue, DataOK
<1>11. ASSUME NEW r \in Requests, Rewrite(r)
      PROVE  DataOK'
  <2>1. req[r].session \in Sessions
    BY <1>11 DEF Rewrite, At, AllFit, Fits
  <2>2. acked' \subseteq Sessions
    BY <1>11, <2>1 DEF Rewrite, GetLane, Got, DataOK
  <2>3. stored' \in [text : Bindings \cup {None}, size : Nat]
    <3>1. Size(req[r].text) \in Nat
      <4>1. IsFiniteSet({c \in Conversations : req[r].text[c] # None})
        BY HostAssumption, FS_Subset
      <4> QED
        BY <4>1, FS_CardinalityType DEF Size
    <3>2. req[r].text \in Bindings
      BY Fields
    <3> QED
      BY <1>11, <3>1, <3>2 DEF Rewrite, DataOK
  <2> QED
    BY <1>11, <2>2, <2>3, Moves DEF Rewrite, Alone, Steps, Continue, DataOK
<1>12. CASE Crash
  <2>1. /\ req' \in [Requests -> Request] /\ lane' \in [Sessions -> 0..lanes']
        /\ bindings' \in Bindings
        /\ crashes' \in 0..MaxCrashes
    <3>1. req' \in [Requests -> Request]
      BY <1>12, IdleType DEF Crash
    <3>2. lane' \in [Sessions -> 0..lanes']
      BY <1>12 DEF Crash, DataOK
    <3>3. crashes' \in 0..MaxCrashes
      BY <1>12, Bounds DEF Crash, DataOK
    <3> QED
      BY <1>12, <3>1, <3>2, <3>3, Fields DEF Crash
  <2> QED
    BY <1>12, <2>1 DEF Crash, DataOK
<1>13. CASE Start
  BY <1>13 DEF Start, DataOK
<1>14. CASE UNCHANGED vars
  BY <1>14 DEF vars, disk, history, DataOK
<1> QED
  BY <1>1, <1>2, <1>3, <1>4, <1>5, <1>6, <1>7, <1>8, <1>9, <1>10, <1>11, <1>12, <1>13, <1>14 DEF
     Next, Continue

(* Every request has, after any step, what its next steps need. *)
LEMMA FitStep ==
  ASSUME DataOK, AllFit, [Next]_vars
  PROVE  AllFit'
<1>1. ASSUME NEW r \in Requests, Steps(r)
      PROVE  AllFit'
  BY <1>1, Moves DEF Alone, AllFit
<1>2. CASE Crash
  BY <1>2, IdleFits DEF Crash, AllFit
<1>3. CASE Start \/ UNCHANGED vars
  BY <1>3 DEF Start, vars, AllFit
<1> QED
  BY <1>1, <1>2, <1>3 DEF Next, Steps

-----------------------------------------------------------------------------
\* The chain holds the requests in the registry, each once, and those that run are first.
ChainOK ==
  /\ chain \in Seq(Requests)
  /\ \A r \in Requests : req[r].pc \in InRegistry <=> \E i \in DOMAIN chain : chain[i] = r
  /\ \A i, j \in DOMAIN chain : chain[i] = chain[j] => i = j
  /\ \A r \in Requests : req[r].pc \in {"listing", "scanning", "writing"} => Runs(r)

(* A request moves on in the registry, or outside, *)
LEMMA ChainKept ==
  ASSUME ChainOK, NEW r \in Requests, Alone(r), chain' = chain,
         req[r].pc \in InRegistry <=> req'[r].pc \in InRegistry,
         req'[r].pc \in {"listing", "scanning", "writing"} => Runs(r)
  PROVE  ChainOK'
BY DEF ChainOK, Alone, Runs

(* one joins the chain, *)
LEMMA ChainJoined ==
  ASSUME ChainOK, NEW r \in Requests, Alone(r), chain' = Append(chain, r),
         req[r].pc \notin InRegistry, req'[r].pc = "queued"
  PROVE  ChainOK'
<1>1. /\ chain \in Seq(Requests) /\ chain' \in Seq(Requests) /\ Len(chain') = Len(chain) + 1
      /\ chain'[Len(chain) + 1] = r /\ \A i \in 1..Len(chain) : chain'[i] = chain[i]
  BY DEF ChainOK
<1>2. DOMAIN chain = 1..Len(chain) /\ DOMAIN chain' = 1..(Len(chain) + 1) /\ Len(chain) \in Nat
  BY <1>1
<1>3. \A i \in 1..Len(chain) : chain[i] # r
  BY <1>2 DEF ChainOK
<1>4. \A i, j \in DOMAIN chain' : chain'[i] = chain'[j] => i = j
  BY <1>1, <1>2, <1>3 DEF ChainOK
<1>5. \A q \in Requests : req'[q].pc \in InRegistry <=> \E i \in DOMAIN chain' : chain'[i] = q
  <2>1. ASSUME NEW q \in Requests, q # r
        PROVE  (\E i \in DOMAIN chain' : chain'[i] = q) <=> \E i \in DOMAIN chain : chain[i] = q
    BY <1>1, <1>2, <2>1
  <2>2. ASSUME NEW q \in Requests, q # r
        PROVE  req'[q].pc \in InRegistry <=> \E i \in DOMAIN chain' : chain'[i] = q
    BY <2>1, <2>2 DEF ChainOK, Alone
  <2>3. req'[r].pc \in InRegistry /\ \E i \in DOMAIN chain' : chain'[i] = r
    BY <1>1, <1>2 DEF InRegistry
  <2> QED
    BY <2>2, <2>3
<1>6. \A q \in Requests : req'[q].pc \in {"listing", "scanning", "writing"} =>
        chain' # <<>> /\ Head(chain') = q
  <2>1. chain # <<>> => chain' # <<>> /\ Head(chain') = Head(chain)
    BY <1>1
  <2> QED
    BY <2>1 DEF ChainOK, Runs, Alone
<1> QED
  BY <1>1, <1>4, <1>5, <1>6 DEF ChainOK, Runs

(* and one leaves it. *)
LEMMA ChainLeft ==
  ASSUME ChainOK, NEW r \in Requests, Alone(r), Leave(r), req'[r].pc \notin InRegistry,
         req[r].pc \in InRegistry => Runs(r)
  PROVE  ChainOK'
<1>1. CASE ~Runs(r)
  <2>1. chain' = chain
    BY <1>1 DEF Leave, Runs
  <2>2. req'[r].pc \notin {"listing", "scanning", "writing"}
    BY DEF InRegistry
  <2> QED
    BY <1>1, <2>1, <2>2, ChainKept
<1>2. CASE Runs(r)
  <2>1. /\ chain \in Seq(Requests) /\ chain # <<>> /\ chain[1] = r /\ chain' = Tail(chain)
        /\ Len(chain) \in Nat /\ Len(chain) > 0
    BY <1>2 DEF Leave, Runs, ChainOK
  <2>2. /\ chain' \in Seq(Requests) /\ Len(chain') = Len(chain) - 1
        /\ \A i \in 1..(Len(chain) - 1) : chain'[i] = chain[i + 1]
    BY <2>1
  <2>3. DOMAIN chain = 1..Len(chain) /\ DOMAIN chain' = 1..(Len(chain) - 1)
    BY <2>1, <2>2
  <2>4. \A i, j \in DOMAIN chain' : chain'[i] = chain'[j] => i = j
    BY <2>1, <2>2, <2>3 DEF ChainOK
  <2>5. \A q \in Requests \ {r} :
          (\E i \in DOMAIN chain' : chain'[i] = q) <=> \E i \in DOMAIN chain : chain[i] = q
    <3> TAKE q \in Requests \ {r}
    <3>1. ASSUME NEW i \in DOMAIN chain, chain[i] = q
          PROVE  \E k \in DOMAIN chain' : chain'[k] = q
      <4>1. i - 1 \in DOMAIN chain' /\ chain'[i - 1] = q
        BY <2>1, <2>2, <2>3, <3>1
      <4> QED
        BY <4>1
    <3>2. ASSUME NEW i \in DOMAIN chain', chain'[i] = q
          PROVE  \E k \in DOMAIN chain : chain[k] = q
      <4>1. i + 1 \in DOMAIN chain /\ chain[i + 1] = q
        BY <2>1, <2>2, <2>3, <3>2
      <4> QED
        BY <4>1
    <3> QED
      BY <3>1, <3>2
  <2>6. \A i \in DOMAIN chain' : chain'[i] # r
    <3> TAKE i \in DOMAIN chain'
    <3>1. i + 1 \in DOMAIN chain /\ i + 1 # 1 /\ chain'[i] = chain[i + 1] /\ 1 \in DOMAIN chain
      BY <2>1, <2>2, <2>3
    <3> QED
      BY <2>1, <3>1 DEF ChainOK
  <2>7. \A q \in Requests : req'[q].pc \in InRegistry <=> \E i \in DOMAIN chain' : chain'[i] = q
    <3>1. ASSUME NEW q \in Requests \ {r}
          PROVE  req'[q].pc \in InRegistry <=> \E i \in DOMAIN chain' : chain'[i] = q
      BY <2>5 DEF ChainOK, Alone
    <3> QED
      BY <2>6, <3>1
  <2>8. \A q \in Requests : req'[q].pc \notin {"listing", "scanning", "writing"}
    BY <1>2 DEF ChainOK, Alone, Runs, InRegistry
  <2> QED
    BY <2>2, <2>4, <2>7, <2>8 DEF ChainOK
<1> QED
  BY <1>1, <1>2

\* A request is answered, or what it carries stays.
Kept(r) ==
  \/ req'[r] = Idle
  \/ /\ Given(r) /\ req'[r].text = req[r].text
     /\ req[r].op = "remove" => req'[r].project = req[r].project

(* A request that got its lane is answered or works on it. *)
LEMMA GotPlace ==
  ASSUME DataOK, NEW r \in Requests, NEW l \in Nat, Got(r, l)
  PROVE  req'[r].pc \in {"idle", "turn"} /\ Kept(r)
<1>1. CASE Answer(r)
  BY <1>1, Answering, IdleType, Fields DEF Kept
<1>2. CASE Becomes(r, [req[r] EXCEPT !.pc = "turn", !.lane = l])
  BY <1>2, GoingToWork, Fields DEF Kept
<1> QED
  BY <1>1, <1>2 DEF Got

(* A registration is answered, or its session is made. *)
LEMMA RegisteredPlace ==
  ASSUME DataOK, NEW r \in Requests, NEW project \in Project, Registered(r, project)
  PROVE  req'[r].pc \in {"idle", "open"} /\ Kept(r)
<1>1. CASE Answer(r)
  BY <1>1, Answering, IdleType, Fields DEF Kept
<1>2. ASSUME NEW s \in Sessions, req[r].op = "message",
             Becomes(r, [req[r] EXCEPT !.pc = "open", !.session = s, !.project = project.id])
      PROVE  req'[r].pc \in {"idle", "open"} /\ Kept(r)
  <2>1. project.id \in ProjectIds
    BY DEF Project
  <2> QED
    BY <1>2, <2>1, GoingOn, Fields DEF Kept
<1> QED
  BY <1>1, <1>2 DEF Registered

(* The lanes' numbers *)
LEMMA LaneNumber ==
  ASSUME DataOK
  PROVE  lanes + 1 \in Nat /\ \A s \in Sessions : lane[s] \in Nat
BY DEF DataOK

(* A mutation read the registry: it adds a project, *)
LEMMA Added ==
  ASSUME DataOK, AllFit, NEW r \in Requests, RegisterRead(r),
         ~\E project \in projects : project.dir = req[r].dir
  PROVE  /\ req'[r].pc = "writing" /\ req'[r].project = made' /\ made' \in ProjectIds /\ Given(r)
         /\ req'[r].file = projects \cup {[id |-> made', dir |-> req[r].dir]}
         /\ req'[r].text = req[r].text /\ req[r].dir \in Dirs /\ registered' = registered
<1> DEFINE p == made'
           file == projects \cup {[id |-> made', dir |-> req[r].dir]}
<1>1. made < MaxProjects /\ made' = made + 1 /\ registered' = registered
  BY DEF RegisterRead
<1>7. Becomes(r, [req[r] EXCEPT !.pc = "writing", !.project = p, !.file = file])
  BY DEF RegisterRead
<1>2. req[r].dir \in Dirs
  BY DEF RegisterRead, At, AllFit, Fits
<1>3. p \in ProjectIds
  BY <1>1, Bounds DEF DataOK, ProjectIds
<1>4. file \in SUBSET Project
  BY <1>2, <1>3 DEF DataOK, Project
<1>5. req \in [Requests -> Request]
  BY Fields
<1> HIDE DEF p, file
<1>6. /\ req'[r].pc = "writing" /\ req'[r].project = p /\ Given(r) /\ req'[r].file = file
      /\ req'[r].text = req[r].text
  <2> DEFINE q == [req[r] EXCEPT !.pc = "writing", !.project = p, !.file = file]
  <2>1. p \in 0..MaxProjects /\ "writing" \in Places /\ req[r] \in Request
    BY <1>3, <1>5, Bounds, InPlaces DEF ProjectIds
  <2>2. q \in Request
    BY <1>4, <2>1 DEF Request, Places
  <2>3. /\ q.pc = "writing" /\ q.project = p /\ q.file = file /\ q.text = req[r].text
        /\ q.op = req[r].op /\ q.dir = req[r].dir /\ q.known = req[r].known
        /\ q.conversation = req[r].conversation /\ q.given = req[r].given
    BY <2>1 DEF Request
  <2>4. req'[r] = q
    BY <1>5, <1>7, <2>2, Becoming
  <2> QED
    BY <2>3, <2>4 DEF Given
<1> QED
  BY <1>1, <1>2, <1>3, <1>6 DEF p, file

(* or lists the sessions *)
LEMMA Listed ==
  ASSUME DataOK, NEW r \in Requests, List(r)
  PROVE  /\ req'[r].pc \in {"writing", "scanning"} /\ Given(r) /\ req'[r].file = req[r].file
         /\ req'[r].project = req[r].project /\ req'[r].text = req[r].text
         /\ req'[r].todo = {s \in Sessions : header[s] # Absent}
         /\ req'[r].pc = "writing" => {s \in Sessions : header[s] # Absent} = {}
<1> DEFINE found == {s \in Sessions : header[s] # Absent}
           pc == IF found = {} THEN "writing" ELSE "scanning"
<1>1. Scans(r, found, pc)
  BY DEF List, Scans
<1>2. pc \in {"writing", "scanning"} /\ pc \in Places /\ found \in SUBSET Sessions
  BY InPlaces
<1>3. pc = "writing" => found = {}
  OBVIOUS
<1> HIDE DEF found, pc
<1>4. /\ Given(r) /\ req'[r].pc = pc /\ req'[r].project = req[r].project /\ req'[r].todo = found
      /\ req'[r].file = req[r].file /\ req'[r].text = req[r].text
  BY <1>1, <1>2, Scanning, Fields
<1> QED
  BY <1>2, <1>3, <1>4 DEF found

(* and looks at one of them. *)
LEMMA Scanned ==
  ASSUME DataOK, NEW r \in Requests, NEW s \in Sessions, Scan(r, s), header[s] # req[r].project
  PROVE  /\ req'[r].pc \in {"writing", "scanning"} /\ Given(r) /\ req'[r].file = req[r].file
         /\ req'[r].project = req[r].project /\ req'[r].text = req[r].text
         /\ req'[r].todo = req[r].todo \ {s} /\ s \in req[r].todo
         /\ req'[r].pc = "writing" => req[r].todo = {s}
<1> DEFINE todo == req[r].todo \ {s}
           pc == IF req[r].todo = {s} THEN "writing" ELSE "scanning"
<1>1. Scans(r, todo, pc) /\ s \in req[r].todo
  BY DEF Scan, Scans
<1>2. pc \in {"writing", "scanning"} /\ pc \in Places /\ todo \in SUBSET Sessions
  BY InPlaces, Fields
<1>3. pc = "writing" => req[r].todo = {s}
  OBVIOUS
<1> HIDE DEF todo, pc
<1>4. /\ Given(r) /\ req'[r].pc = pc /\ req'[r].project = req[r].project /\ req'[r].todo = todo
      /\ req'[r].file = req[r].file /\ req'[r].text = req[r].text
  BY <1>1, <1>2, Scanning, Fields
<1> QED
  BY <1>1, <1>2, <1>3, <1>4 DEF todo

(* Where each step of a request leads *)
LEMMA Goes ==
  ASSUME DataOK, AllFit, NEW r \in Requests
  PROVE  /\ \A d \in Dirs : Register(r, d) => req'[r].pc \in {"queued"}
         /\ \A p \in ProjectIds : Remove(r, p) => req'[r].pc \in {"require"}
         /\ \A s \in Sessions, p \in ProjectIds, given \in BOOLEAN : Create(r, s, p, given) =>
              req'[r].pc \in {"require"}
         /\ \A s \in Sessions : Use(r, s) => req'[r].pc \in {"turn", "load"}
         /\ RegisterRead(r) => req'[r].pc \in {"idle", "open", "writing"} /\ Kept(r)
         /\ RemoveRead(r) => req'[r].pc \in {"idle", "listing"} /\ Kept(r)
         /\ List(r) => req'[r].pc \in {"writing", "scanning"} /\ Kept(r)
         /\ \A s \in Sessions : Scan(r, s) =>
              req'[r].pc \in {"idle", "writing", "scanning"} /\ Kept(r)
         /\ Write(r) => req'[r].pc \in {"idle", "open"} /\ Kept(r)
         /\ Require(r) => req'[r].pc \in {"idle", "queued", "open", "turn", "load"} /\ Kept(r)
         /\ Load(r) => req'[r].pc \in {"idle", "project", "open"} /\ Kept(r)
         /\ LoadProject(r) => req'[r].pc \in {"idle", "reload"} /\ Kept(r)
         /\ Loaded(r) => req'[r].pc \in {"idle", "turn"} /\ Kept(r)
         /\ OpenFile(r) => req'[r].pc \in {"header"} /\ Kept(r)
         /\ FileExists(r) => req'[r].pc \in {"idle", "load"} /\ Kept(r)
         /\ WriteHeader(r) => req'[r].pc \in {"runtime"} /\ Kept(r)
         /\ Created(r) => req'[r].pc \in {"idle", "turn", "save"} /\ Kept(r)
         /\ Save(r) => req'[r].pc \in {"truncate"}
         /\ Truncate(r) => req'[r].pc \in {"rewrite"} /\ Kept(r)
         /\ Rewrite(r) => req'[r].pc \in {"idle", "turn", "load"} /\ Kept(r)
         /\ Fail(r) => req'[r].pc \in {"idle"} /\ Kept(r)
         /\ EndTurn(r) => req'[r].pc \in {"idle"} /\ Kept(r)
<1>1. \A d \in Dirs : Register(r, d) => req'[r].pc \in {"queued"}
  <2>1. SUFFICES ASSUME NEW d \in Dirs, Register(r, d)
                 PROVE  req'[r].pc \in {"queued"}
    OBVIOUS
  <2> QED
    BY <2>1, Registering, Fields DEF Register, Ask
<1>2. \A p \in ProjectIds : Remove(r, p) => req'[r].pc \in {"require"}
  <2>1. SUFFICES ASSUME NEW p \in ProjectIds, Remove(r, p)
                 PROVE  req'[r].pc \in {"require"}
    OBVIOUS
  <2> QED
    <3>1. {s \in acked : header[s] = p} \in SUBSET Sessions
      BY DEF DataOK
    <3> QED
      BY <2>1, <3>1, Removing, Fields DEF Remove, Ask
<1>3. \A s \in Sessions, p \in ProjectIds, given \in BOOLEAN : Create(r, s, p, given) =>
        req'[r].pc \in {"require"}
  <2>1. SUFFICES ASSUME NEW s \in Sessions, NEW p \in ProjectIds, NEW given \in BOOLEAN,
        Create(r, s, p, given)
                 PROVE  req'[r].pc \in {"require"}
    OBVIOUS
  <2> QED
    BY <2>1, Creating, Fields DEF Create, Ask
<1>4. \A s \in Sessions : Use(r, s) => req'[r].pc \in {"turn", "load"}
  <2>1. SUFFICES ASSUME NEW s \in Sessions, Use(r, s)
                 PROVE  req'[r].pc \in {"turn", "load"}
    OBVIOUS
  <2> QED
    <3> DEFINE l == lane[s]
               pc == IF lane[s] # 0 THEN "turn" ELSE "load"
    <3>1. Becomes(r, [Idle EXCEPT !.op = "use", !.session = s, !.lane = l, !.pc = pc])
      BY <2>1 DEF Use, Ask
    <3>2. l \in Nat /\ pc \in Places /\ pc \in {"turn", "load"}
      BY LaneNumber, InPlaces
    <3> HIDE DEF l, pc
    <3> QED
      BY <3>1, <3>2, Using, Fields
<1>5. RegisterRead(r) => req'[r].pc \in {"idle", "open", "writing"} /\ Kept(r)
  <2>1. SUFFICES ASSUME RegisterRead(r)
                 PROVE  req'[r].pc \in {"idle", "open", "writing"} /\ Kept(r)
    OBVIOUS
  <2> QED
    <3>1. CASE \E project \in projects : project.dir = req[r].dir
      <4>1. PICK project \in projects : Registered(r, project)
        BY <2>1, <3>1 DEF RegisterRead
      <4> QED
        BY <4>1, RegisteredPlace DEF DataOK
    <3>2. CASE ~\E project \in projects : project.dir = req[r].dir
      BY <2>1, <3>2, Added DEF RegisterRead, Kept
    <3> QED
      BY <3>1, <3>2
<1>6. RemoveRead(r) => req'[r].pc \in {"idle", "listing"} /\ Kept(r)
  <2>1. SUFFICES ASSUME RemoveRead(r)
                 PROVE  req'[r].pc \in {"idle", "listing"} /\ Kept(r)
    OBVIOUS
  <2> QED
    <3>1. {project \in projects : project.id # req[r].project} \in SUBSET Project
      BY DEF DataOK
    <3> QED
      BY <2>1, <3>1, Answering, IdleType, GoingToList, Fields DEF RemoveRead, Kept
<1>7. List(r) => req'[r].pc \in {"writing", "scanning"} /\ Kept(r)
  <2>1. SUFFICES ASSUME List(r)
                 PROVE  req'[r].pc \in {"writing", "scanning"} /\ Kept(r)
    OBVIOUS
  <2> QED
    BY <2>1, Listed DEF Kept
<1>8. \A s \in Sessions : Scan(r, s) => req'[r].pc \in {"idle", "writing", "scanning"} /\ Kept(r)
  <2>1. SUFFICES ASSUME NEW s \in Sessions, Scan(r, s)
                 PROVE  req'[r].pc \in {"idle", "writing", "scanning"} /\ Kept(r)
    OBVIOUS
  <2> QED
    <3>1. CASE header[s] = req[r].project
      BY <2>1, <3>1, Answering, IdleType, Fields DEF Scan, Kept
    <3>2. CASE header[s] # req[r].project
      BY <2>1, <3>2, Scanned DEF Kept
    <3> QED
      BY <3>1, <3>2
<1>9. Write(r) => req'[r].pc \in {"idle", "open"} /\ Kept(r)
  <2>1. SUFFICES ASSUME Write(r)
                 PROVE  req'[r].pc \in {"idle", "open"} /\ Kept(r)
    OBVIOUS
  <2> QED
    <3>1. CASE req[r].op = "remove"
      BY <2>1, <3>1, Answering, IdleType, Fields DEF Write, Kept
    <3>2. CASE req[r].op # "remove"
      <4>1. PICK project \in req[r].file : Registered(r, project)
        BY <2>1, <3>2 DEF Write
      <4> QED
        BY <4>1, RegisteredPlace, Fields
    <3> QED
      BY <3>1, <3>2
<1>10. Require(r) => req'[r].pc \in {"idle", "queued", "open", "turn", "load"} /\ Kept(r)
  <2>1. SUFFICES ASSUME Require(r)
                 PROVE  req'[r].pc \in {"idle", "queued", "open", "turn", "load"} /\ Kept(r)
    OBVIOUS
  <2> QED
    <3>1. Fits(req[r])
      BY DEF AllFit
    <3>2. CASE Answer(r) \/ Goto(r, "queued") \/ Goto(r, "open")
      BY <3>2, Answering, IdleType, Going, InPlaces, Fields DEF Kept
    <3>3. CASE req[r].given /\ GetLane(r)
      <4>1. req[r].session \in Sessions
        BY <3>1, <3>3 DEF Fits
      <4> QED
        BY <3>3, <4>1, GotPlace, LaneNumber, Going, InPlaces, Fields DEF GetLane, Kept
    <3> QED
      BY <2>1, <3>2, <3>3, Zenon DEF Require
<1>11. Load(r) => req'[r].pc \in {"idle", "project", "open"} /\ Kept(r)
  <2>1. SUFFICES ASSUME Load(r)
                 PROVE  req'[r].pc \in {"idle", "project", "open"} /\ Kept(r)
    OBVIOUS
  <2> QED
    BY <2>1, Going, Answering, IdleType, InPlaces, Fields DEF Load, Kept
<1>12. LoadProject(r) => req'[r].pc \in {"idle", "reload"} /\ Kept(r)
  <2>1. SUFFICES ASSUME LoadProject(r)
                 PROVE  req'[r].pc \in {"idle", "reload"} /\ Kept(r)
    OBVIOUS
  <2> QED
    BY <2>1, Going, Answering, IdleType, InPlaces, Fields DEF LoadProject, Kept
<1>13. Loaded(r) => req'[r].pc \in {"idle", "turn"} /\ Kept(r)
  <2>1. SUFFICES ASSUME Loaded(r)
                 PROVE  req'[r].pc \in {"idle", "turn"} /\ Kept(r)
    OBVIOUS
  <2> QED
    BY <2>1, GotPlace, LaneNumber DEF Loaded
<1>14. OpenFile(r) => req'[r].pc \in {"header"} /\ Kept(r)
  <2>1. SUFFICES ASSUME OpenFile(r)
                 PROVE  req'[r].pc \in {"header"} /\ Kept(r)
    OBVIOUS
  <2> QED
    BY <2>1, Going, InPlaces, Fields DEF OpenFile, Kept
<1>15. FileExists(r) => req'[r].pc \in {"idle", "load"} /\ Kept(r)
  <2>1. SUFFICES ASSUME FileExists(r)
                 PROVE  req'[r].pc \in {"idle", "load"} /\ Kept(r)
    OBVIOUS
  <2> QED
    BY <2>1, GoingToLoad, Answering, IdleType, InPlaces, Fields DEF FileExists, Kept
<1>16. WriteHeader(r) => req'[r].pc \in {"runtime"} /\ Kept(r)
  <2>1. SUFFICES ASSUME WriteHeader(r)
                 PROVE  req'[r].pc \in {"runtime"} /\ Kept(r)
    OBVIOUS
  <2> QED
    BY <2>1, Going, InPlaces, Fields DEF WriteHeader, Kept
<1>17. Created(r) => req'[r].pc \in {"idle", "turn", "save"} /\ Kept(r)
  <2>1. SUFFICES ASSUME Created(r)
                 PROVE  req'[r].pc \in {"idle", "turn", "save"} /\ Kept(r)
    OBVIOUS
  <2> QED
    BY <2>1, GotPlace, LaneNumber, Going, InPlaces, Fields DEF Created, Kept
<1>18. Save(r) => req'[r].pc \in {"truncate"}
  <2>1. SUFFICES ASSUME Save(r)
                 PROVE  req'[r].pc \in {"truncate"}
    OBVIOUS
  <2> QED
    BY <2>1, GoingToSave, Fields DEF Save, DataOK
<1>19. Truncate(r) => req'[r].pc \in {"rewrite"} /\ Kept(r)
  <2>1. SUFFICES ASSUME Truncate(r)
                 PROVE  req'[r].pc \in {"rewrite"} /\ Kept(r)
    OBVIOUS
  <2> QED
    BY <2>1, Going, InPlaces, Fields DEF Truncate, Kept
<1>20. Rewrite(r) => req'[r].pc \in {"idle", "turn", "load"} /\ Kept(r)
  <2>1. SUFFICES ASSUME Rewrite(r)
                 PROVE  req'[r].pc \in {"idle", "turn", "load"} /\ Kept(r)
    OBVIOUS
  <2> QED
    <3>1. req[r].session \in Sessions
      BY <2>1 DEF Rewrite, At, AllFit, Fits
    <3> QED
      BY <2>1, <3>1, GotPlace, LaneNumber, Going, InPlaces, Fields DEF Rewrite, GetLane, Kept
<1>21. Fail(r) => req'[r].pc \in {"idle"} /\ Kept(r)
  <2>1. SUFFICES ASSUME Fail(r)
                 PROVE  req'[r].pc \in {"idle"} /\ Kept(r)
    OBVIOUS
  <2> QED
    BY <2>1, Answering, IdleType, InPlaces, Fields DEF Fail, Kept
<1>22. EndTurn(r) => req'[r].pc \in {"idle"} /\ Kept(r)
  <2>1. SUFFICES ASSUME EndTurn(r)
                 PROVE  req'[r].pc \in {"idle"} /\ Kept(r)
    OBVIOUS
  <2> QED
    BY <2>1, Answering, IdleType, InPlaces, Fields DEF EndTurn, Kept
<1> QED
  BY <1>1, <1>2, <1>3, <1>4, <1>5, <1>6, <1>7, <1>8, <1>9, <1>10, <1>11, <1>12, <1>13,
     <1>14, <1>15, <1>16, <1>17, <1>18, <1>19, <1>20, <1>21, <1>22

(* The chain stays in order: a mutation runs when those before it are over (#mutate). *)
LEMMA ChainStep ==
  ASSUME DataOK, AllFit, ChainOK, [Next]_vars
  PROVE  ChainOK'
<1>1. ASSUME NEW r \in Requests,
             \/ Load(r) \/ LoadProject(r) \/ Loaded(r) \/ OpenFile(r) \/ FileExists(r)
             \/ WriteHeader(r) \/ Created(r) \/ Save(r) \/ Truncate(r) \/ Rewrite(r)
             \/ EndTurn(r)
             \/ (\E p \in ProjectIds : Remove(r, p))
             \/ (\E s \in Sessions, p \in ProjectIds, given \in BOOLEAN : Create(r, s, p, given))
             \/ (\E s \in Sessions : Use(r, s))
      PROVE  ChainOK'
  <2>0. Alone(r)
    BY <1>1, Moves, SMTT(30) DEF Steps, Continue
  <2>1. req[r].pc \notin InRegistry /\ chain' = chain
    BY <1>1 DEF Remove, Create, Use, Load, LoadProject, Loaded, OpenFile, FileExists,
       WriteHeader, Created, Save, Truncate, Rewrite, EndTurn, Ask, At, InRegistry
  <2>2. req'[r].pc \notin InRegistry
    BY <1>1, Goes DEF InRegistry
  <2> QED
    BY <2>0, <2>1, <2>2, ChainKept DEF InRegistry
<1>2. ASSUME NEW r \in Requests, NEW d \in Dirs, Register(r, d)
      PROVE  ChainOK'
  <2>0. Alone(r)
    BY <1>2, Moves DEF Steps, Continue
  <2>1. req[r].pc = "idle" /\ chain' = Append(chain, r)
    BY <1>2 DEF Register, Ask, At
  <2> QED
    BY <1>2, <2>0, <2>1, Goes, ChainJoined DEF InRegistry
<1>3. ASSUME NEW r \in Requests, NEW c \in Conversations, Message(r, c)
      PROVE  ChainOK'
  <2>0. Alone(r)
    BY <1>3, Moves DEF Steps, Continue
  <2>1. CASE bindings[c] # None
    <3>1. req[r].pc = "idle" /\ chain' = chain
      BY <1>3, <2>1 DEF Message, Ask, At
    <3>2. bindings[c] \in Sessions
      BY <2>1 DEF DataOK, Bindings
    <3>3. req'[r].pc = "save"
      BY <1>3, <2>1, <3>2, Bound, Fields DEF Message, Ask
    <3> QED
      BY <2>0, <3>1, <3>3, ChainKept DEF InRegistry
  <2>2. CASE bindings[c] = None
    <3>1. req[r].pc = "idle" /\ chain' = Append(chain, r)
      BY <1>3, <2>2 DEF Message, Ask, At
    <3>2. req'[r].pc = "queued"
      BY <1>3, <2>2, Unbound, Fields DEF Message, Ask
    <3> QED
      BY <2>0, <3>1, <3>2, ChainJoined DEF InRegistry
  <2> QED
    BY <2>1, <2>2
<1>4. ASSUME NEW r \in Requests, RegisterRead(r)
      PROVE  ChainOK'
  <2>0. Alone(r)
    BY <1>4, Moves DEF Steps, Continue
  <2>1. req[r].pc = "queued" /\ Runs(r)
    BY <1>4 DEF RegisterRead, At
  <2>2. CASE \E project \in projects : project.dir = req[r].dir
    <3>1. PICK project \in projects : Registered(r, project)
      BY <1>4, <2>2 DEF RegisterRead
    <3>2. req'[r].pc \in {"idle", "open"}
      BY <3>1, RegisteredPlace DEF DataOK
    <3>3. Leave(r)
      BY <1>4, <2>2 DEF RegisterRead
    <3> QED
      BY <2>0, <2>1, <3>2, <3>3, ChainLeft DEF InRegistry
  <2>3. CASE ~\E project \in projects : project.dir = req[r].dir
    <3>1. req'[r].pc = "writing"
      BY <1>4, <2>3, Added
    <3>2. chain' = chain
      BY <1>4, <2>3 DEF RegisterRead
    <3> QED
      BY <2>0, <2>1, <3>1, <3>2, ChainKept DEF InRegistry
  <2> QED
    BY <2>2, <2>3
<1>5. ASSUME NEW r \in Requests, RemoveRead(r)
      PROVE  ChainOK'
  <2>0. Alone(r)
    BY <1>5, Moves DEF Steps, Continue
  <2>1. req[r].pc = "queued" /\ Runs(r)
    BY <1>5 DEF RemoveRead, At
  <2>2. CASE Answer(r) /\ Leave(r)
    BY <2>0, <2>1, <2>2, Answering, IdleType, Fields, ChainLeft DEF InRegistry
  <2>3. CASE chain' = chain /\ req'[r].pc = "listing"
    BY <2>0, <2>1, <2>3, ChainKept DEF InRegistry
  <2>4. {project \in projects : project.id # req[r].project} \in SUBSET Project
    BY DEF DataOK
  <2> QED
    BY <1>5, <2>2, <2>3, <2>4, GoingToList, Fields DEF RemoveRead
<1>6. ASSUME NEW r \in Requests, List(r)
      PROVE  ChainOK'
  <2>0. Alone(r)
    BY <1>6, Moves DEF Steps, Continue
  <2>1. req[r].pc = "listing" /\ Runs(r) /\ chain' = chain
    BY <1>6 DEF List, At, ChainOK
  <2> QED
    BY <1>6, <2>0, <2>1, Goes, ChainKept DEF InRegistry
<1>7. ASSUME NEW r \in Requests, NEW s \in Sessions, Scan(r, s)
      PROVE  ChainOK'
  <2>0. Alone(r)
    BY <1>7, Moves DEF Steps, Continue
  <2>1. req[r].pc = "scanning" /\ Runs(r)
    BY <1>7 DEF Scan, At, ChainOK
  <2>2. CASE header[s] = req[r].project
    <3>1. Answer(r) /\ Leave(r)
      BY <1>7, <2>2 DEF Scan
    <3> QED
      BY <2>0, <2>1, <3>1, Answering, IdleType, Fields, ChainLeft DEF InRegistry
  <2>3. CASE header[s] # req[r].project
    <3>1. req'[r].pc \in {"writing", "scanning"} /\ chain' = chain
      BY <1>7, <2>3, Scanned DEF Scan
    <3> QED
      BY <2>0, <2>1, <3>1, ChainKept, SMTT(30) DEF InRegistry
  <2> QED
    BY <2>2, <2>3
<1>8. ASSUME NEW r \in Requests, Write(r)
      PROVE  ChainOK'
  <2>0. Alone(r)
    BY <1>8, Moves DEF Steps, Continue
  <2>1. req[r].pc = "writing" /\ Runs(r) /\ Leave(r)
    BY <1>8 DEF Write, At, ChainOK
  <2> QED
    BY <1>8, <2>0, <2>1, Goes, ChainLeft DEF InRegistry
<1>9. ASSUME NEW r \in Requests, Require(r)
      PROVE  ChainOK'
  <2>0. Alone(r)
    BY <1>9, Moves DEF Steps, Continue
  <2>1. req[r].pc = "require" /\ Fits(req[r])
    BY <1>9 DEF Require, At, AllFit
  <2>2. CASE (Answer(r) \/ Goto(r, "open")) /\ chain' = chain
    BY <2>0, <2>1, <2>2, Answering, IdleType, Going, InPlaces, Fields, ChainKept DEF InRegistry
  <2>3. CASE Goto(r, "queued") /\ chain' = Append(chain, r)
    BY <2>0, <2>1, <2>3, Going, InPlaces, Fields, ChainJoined DEF InRegistry
  <2>4. CASE req[r].given /\ GetLane(r) /\ chain' = chain
    <3>1. req[r].session \in Sessions
      BY <2>1, <2>4 DEF Fits
    <3>2. req'[r].pc \in {"idle", "turn", "load"}
      BY <2>4, <3>1, GotPlace, LaneNumber, Going, InPlaces, Fields DEF GetLane
    <3> QED
      BY <2>0, <2>1, <2>4, <3>2, ChainKept DEF InRegistry
  <2> QED
    BY <1>9, <2>2, <2>3, <2>4, Zenon DEF Require
<1>10. ASSUME NEW r \in Requests, Fail(r)
      PROVE  ChainOK'
  <2>0. Alone(r)
    BY <1>10, Moves DEF Steps, Continue
  <2>1. (req[r].pc \in InRegistry => Runs(r)) /\ Leave(r)
    BY <1>10 DEF Fail, ChainOK, InRegistry
  <2> QED
    BY <1>10, <2>0, <2>1, Goes, ChainLeft DEF InRegistry
<1>11. CASE Crash
  BY <1>11, IdleType DEF Crash, ChainOK, InRegistry
<1>12. CASE Start
  BY <1>12 DEF Start, ChainOK, Runs
<1>13. CASE UNCHANGED vars
  BY <1>13 DEF vars, disk, history, ChainOK, Runs
<1> QED
  BY <1>1, <1>2, <1>3, <1>4, <1>5, <1>6, <1>7, <1>8, <1>9, <1>10, <1>11, <1>12, <1>13 DEF Next,
     Continue

-----------------------------------------------------------------------------
\* What a mutation read is what the registry holds still.
Reads(q) ==
  /\ q.pc = "writing" /\ q.op # "remove" =>
       /\ q.file = projects \cup {[id |-> q.project, dir |-> q.dir]}
       /\ \A p \in projects : p.dir # q.dir
  /\ q.pc \in {"listing", "scanning", "writing"} /\ q.op = "remove" =>
       q.file = {p \in projects : p.id # q.project}
RegistryOK == RegistryKeeps /\ \A r \in Requests : Reads(req[r])

(* The registry stays, and clients learn of projects that are there, *)
LEMMA RegistryStays ==
  ASSUME RegistryOK, NEW r \in Requests, Alone(r), projects' = projects,
         registered' \subseteq projects,
         \/ req'[r].pc \notin {"listing", "scanning", "writing"}
         \/ /\ req[r].op = "remove" /\ req[r].pc \in {"listing", "scanning"} /\ Given(r)
            /\ req'[r].file = req[r].file /\ req'[r].project = req[r].project
  PROVE  RegistryOK'
<1>1. RegistryKeeps'
  BY DEF RegistryOK, RegistryKeeps
<1>2. ASSUME NEW q \in Requests
      PROVE  Reads(req[q])'
  <2>1. CASE q # r
    BY <2>1 DEF RegistryOK, Reads, Alone
  <2>2. CASE q = r
    BY <2>2 DEF RegistryOK, Reads, Given
  <2> QED
    BY <2>1, <2>2
<1> QED
  BY <1>1, <1>2 DEF RegistryOK

(* A message is bound, or registers the default workspace. *)
LEMMA MessagePlace ==
  ASSUME DataOK, NEW r \in Requests, NEW c \in Conversations, Message(r, c)
  PROVE  /\ req'[r].pc \in {"save", "queued"} /\ req'[r].op = "message"
         /\ req'[r].text = NoBindings
<1>1. CASE bindings[c] # None
  <2>1. bindings[c] \in Sessions
    BY <1>1 DEF DataOK, Bindings
  <2> QED
    BY <1>1, <2>1, Bound, Fields DEF Message, Ask
<1>2. CASE bindings[c] = None
  BY <1>2, Unbound, Fields DEF Message, Ask
<1> QED
  BY <1>1, <1>2

(* The registry keeps its projects through every step. *)
LEMMA RegistryStep ==
  ASSUME DataOK, AllFit, ChainOK, RegistryOK, [Next]_vars
  PROVE  RegistryOK'
<1>1. ASSUME NEW r \in Requests,
             \/ Require(r) \/ Load(r) \/ LoadProject(r) \/ Loaded(r) \/ OpenFile(r)
             \/ FileExists(r) \/ WriteHeader(r) \/ Created(r) \/ Save(r) \/ Truncate(r)
             \/ Rewrite(r) \/ Fail(r) \/ EndTurn(r)
             \/ (\E p \in ProjectIds : Remove(r, p))
             \/ (\E s \in Sessions, p \in ProjectIds, given \in BOOLEAN : Create(r, s, p, given))
             \/ (\E s \in Sessions : Use(r, s))
             \/ (\E d \in Dirs : Register(r, d))
             \/ (\E c \in Conversations : Message(r, c))
      PROVE  RegistryOK'
  <2>0. Alone(r)
    BY <1>1, Moves, SMTT(30) DEF Steps, Continue
  <2>1. projects' = projects /\ registered' = registered
    BY <1>1 DEF Register, Remove, Create, Use, Message, Require, Load, LoadProject, Loaded,
       OpenFile, FileExists, WriteHeader, Created, Save, Truncate, Rewrite, Fail, EndTurn, Ask,
       disk, history
  <2>2. req'[r].pc \notin {"listing", "scanning", "writing"}
    BY <1>1, Goes, MessagePlace
  <2> QED
    BY <2>0, <2>1, <2>2, RegistryStays DEF RegistryOK, RegistryKeeps
<1>2. ASSUME NEW r \in Requests, RegisterRead(r)
      PROVE  RegistryOK'
  <2>0. Alone(r)
    BY <1>2, Moves DEF Steps, Continue
  <2>1. CASE \E project \in projects : project.dir = req[r].dir
    <3>1. PICK project \in projects : Registered(r, project)
      BY <1>2, <2>1 DEF RegisterRead
    <3>2. req'[r].pc \in {"idle", "open"}
      BY <3>1, RegisteredPlace DEF DataOK
    <3>3. projects' = projects /\ registered' \subseteq projects
      BY <1>2, <3>1 DEF RegisterRead, Registered, disk, RegistryOK, RegistryKeeps
    <3> QED
      BY <2>0, <3>2, <3>3, RegistryStays
  <2>2. CASE ~\E project \in projects : project.dir = req[r].dir
    <3>1. projects' = projects /\ registered' = registered
      BY <1>2, <2>2 DEF RegisterRead, disk
    <3>2. RegistryKeeps'
      BY <3>1 DEF RegistryOK, RegistryKeeps
    <3>3. Reads(req[r])'
      <4>1. req[r].op \in {"register", "message"}
        BY <1>2 DEF RegisterRead
      <4> QED
        BY <1>2, <2>2, <3>1, <4>1, Added DEF Reads, Given
    <3>4. \A q \in Requests \ {r} : Reads(req[q])'
      BY <2>0, <3>1 DEF RegistryOK, Reads, Alone
    <3> QED
      BY <3>2, <3>3, <3>4 DEF RegistryOK
  <2> QED
    BY <2>1, <2>2
<1>3. ASSUME NEW r \in Requests, RemoveRead(r)
      PROVE  RegistryOK'
  <2>0. Alone(r)
    BY <1>3, Moves DEF Steps, Continue
  <2>1. projects' = projects /\ registered' = registered /\ req[r].op = "remove"
    BY <1>3 DEF RemoveRead, disk, history
  <2>2. CASE Answer(r)
    BY <2>0, <2>1, <2>2, Answering, IdleType, Fields, RegistryStays DEF RegistryOK, RegistryKeeps
  <2>3. CASE Becomes(r, [req[r] EXCEPT !.pc = "listing",
                           !.file = {project \in projects : project.id # req[r].project}])
    <3>1. {project \in projects : project.id # req[r].project} \in SUBSET Project
      BY DEF DataOK
    <3>2. /\ req'[r].pc = "listing" /\ Given(r) /\ req'[r].project = req[r].project
          /\ req'[r].file = {project \in projects : project.id # req[r].project}
      BY <2>3, <3>1, GoingToList, Fields
    <3>3. RegistryKeeps'
      BY <2>1 DEF RegistryOK, RegistryKeeps
    <3>4. Reads(req[r])'
      BY <2>1, <3>2 DEF Reads, Given
    <3>5. \A q \in Requests \ {r} : Reads(req[q])'
      BY <2>0, <2>1 DEF RegistryOK, Reads, Alone
    <3> QED
      BY <3>3, <3>4, <3>5 DEF RegistryOK
  <2> QED
    BY <1>3, <2>2, <2>3 DEF RemoveRead
<1>4. ASSUME NEW r \in Requests, List(r)
      PROVE  RegistryOK'
  <2>0. Alone(r)
    BY <1>4, Moves DEF Steps, Continue
  <2>1. /\ projects' = projects /\ registered' = registered /\ req[r].pc = "listing"
        /\ req[r].op = "remove"
    BY <1>4 DEF List, At, disk, history, AllFit, Fits
  <2> QED
    BY <1>4, <2>0, <2>1, Listed, RegistryStays DEF RegistryOK, RegistryKeeps
<1>5. ASSUME NEW r \in Requests, NEW s \in Sessions, Scan(r, s)
      PROVE  RegistryOK'
  <2>0. Alone(r)
    BY <1>5, Moves DEF Steps, Continue
  <2>1. /\ projects' = projects /\ registered' = registered /\ req[r].pc = "scanning"
        /\ req[r].op = "remove"
    BY <1>5 DEF Scan, At, disk, history, AllFit, Fits
  <2>2. CASE header[s] = req[r].project
    <3>1. req'[r].pc = "idle"
      BY <1>5, <2>2, Answering, IdleType, Fields DEF Scan
    <3> QED
      BY <2>0, <2>1, <3>1, RegistryStays DEF RegistryOK, RegistryKeeps
  <2>3. CASE header[s] # req[r].project
    BY <1>5, <2>0, <2>1, <2>3, Scanned, RegistryStays DEF RegistryOK, RegistryKeeps
  <2> QED
    BY <2>2, <2>3
<1>6. ASSUME NEW r \in Requests, Write(r)
      PROVE  RegistryOK'
  <2>0. Alone(r)
    BY <1>6, Moves DEF Steps, Continue
  <2>1. req[r].pc = "writing" /\ Runs(r) /\ projects' = req[r].file /\ Reads(req[r])
    BY <1>6 DEF Write, At, ChainOK, RegistryOK
  <2>2. \A q \in Requests : req'[q].pc \notin {"listing", "scanning", "writing"}
    <3>1. req'[r].pc \in {"idle", "open"}
      BY <1>6, Goes
    <3> QED
      BY <2>0, <2>1, <3>1 DEF ChainOK, Runs, Alone
  <2>3. RegistryKeeps'
    <3>1. CASE req[r].op = "remove"
      <4>1. projects' = {p \in projects : p.id # req[r].project}
        BY <2>1, <3>1 DEF Reads
      <4>2. registered' = {p \in registered : p.id # req[r].project}
        BY <1>6, <3>1 DEF Write
      <4> QED
        BY <4>1, <4>2 DEF RegistryOK, RegistryKeeps
    <3>2. CASE req[r].op # "remove"
      <4> DEFINE new == [id |-> req[r].project, dir |-> req[r].dir]
      <4>1. projects' = projects \cup {new} /\ \A p \in projects : p.dir # new.dir
        BY <2>1, <3>2 DEF Reads
      <4>2. registered' \subseteq registered \cup req[r].file
        BY <1>6, <3>2 DEF Write, Registered
      <4> HIDE DEF new
      <4> QED
        BY <2>1, <4>1, <4>2 DEF RegistryOK, RegistryKeeps
    <3> QED
      BY <3>1, <3>2
  <2> QED
    BY <2>2, <2>3 DEF RegistryOK, Reads
<1>7. CASE Crash
  <2>1. \A r \in Requests : req'[r].pc = "idle"
    BY <1>7, IdleType DEF Crash
  <2> QED
    BY <1>7, <2>1 DEF Crash, RegistryOK, RegistryKeeps, Reads, disk
<1>8. CASE Start
  BY <1>8 DEF Start, RegistryOK, RegistryKeeps, Reads, disk, history
<1>9. CASE UNCHANGED vars
  BY <1>9 DEF vars, disk, history, RegistryOK, RegistryKeeps, Reads
<1> QED
  BY <1>1, <1>2, <1>3, <1>4, <1>5, <1>6, <1>7, <1>8, <1>9 DEF Next, Continue

-----------------------------------------------------------------------------
\* A text binds conversations to sessions that have their headers.
Leads(b) == \A c \in Conversations : b[c] # None => header[b[c]] \in ProjectIds

\* What a request found of sessions is so still.
Holds(q) ==
  /\ q.pc \in {"project", "reload", "runtime"} => header[q.session] \in ProjectIds
  /\ q.pc = "header" => header[q.session] = Empty
  /\ q.op = "remove" => \A s \in q.known : header[s] = q.project
  /\ q.op = "remove" /\ q.pc = "scanning" => q.known \subseteq q.todo
  /\ q.op = "remove" /\ q.pc = "writing" => q.known = {}
  /\ Leads(q.text)

\* Sessions that are loaded or acknowledged have their headers, which one request writes.
LanesOK == \A s \in Sessions : lane[s] # 0 \/ s \in acked => header[s] \in ProjectIds
OneWrites ==
  \A q, r \in Requests :
    req[q].pc = "header" /\ req[r].pc = "header" /\ req[q].session = req[r].session => q = r
TextsOK == Leads(bindings) /\ (stored.text # None => Leads(stored.text))
SessionsOK == LanesOK /\ OneWrites /\ TextsOK /\ \A r \in Requests : Holds(req[r])

(* The codes of a file are no projects. *)
LEMMA NoProject == Absent \notin ProjectIds /\ Empty \notin ProjectIds
BY Bounds DEF Absent, Empty, ProjectIds

(* A session's header is written once. *)
LEMMA HeaderStep ==
  ASSUME DataOK, AllFit, SessionsOK, [Next]_vars
  PROVE  \A t \in Sessions : header[t] \in ProjectIds => header'[t] = header[t]
<1>1. ASSUME NEW r \in Requests,
             \/ RegisterRead(r) \/ RemoveRead(r) \/ List(r) \/ Write(r) \/ Require(r)
             \/ Load(r) \/ LoadProject(r) \/ Loaded(r) \/ FileExists(r) \/ Created(r)
             \/ Save(r) \/ Truncate(r) \/ Rewrite(r) \/ Fail(r) \/ EndTurn(r)
             \/ (\E d \in Dirs : Register(r, d))
             \/ (\E p \in ProjectIds : Remove(r, p))
             \/ (\E s \in Sessions, p \in ProjectIds, given \in BOOLEAN : Create(r, s, p, given))
             \/ (\E s \in Sessions : Use(r, s))
             \/ (\E c \in Conversations : Message(r, c))
             \/ (\E s \in Sessions : Scan(r, s))
      PROVE  \A t \in Sessions : header[t] \in ProjectIds => header'[t] = header[t]
  BY <1>1 DEF Register, Remove, Create, Use, Message, RegisterRead, RemoveRead, List, Scan,
     Write, Require, Load, LoadProject, Loaded, FileExists, Created, Save, Truncate, Rewrite,
     Fail, EndTurn, Ask, disk
<1>2. ASSUME NEW r \in Requests, OpenFile(r)
      PROVE  \A t \in Sessions : header[t] \in ProjectIds => header'[t] = header[t]
  <2>1. header[req[r].session] = Absent
    BY <1>2 DEF OpenFile, At, SessionsOK, Holds
  <2> QED
    BY <1>2, <2>1, NoProject DEF OpenFile, DataOK
<1>3. ASSUME NEW r \in Requests, WriteHeader(r)
      PROVE  \A t \in Sessions : header[t] \in ProjectIds => header'[t] = header[t]
  <2>1. header[req[r].session] = Empty
    BY <1>3 DEF WriteHeader, At, SessionsOK, Holds
  <2> QED
    BY <1>3, <2>1, NoProject DEF WriteHeader, DataOK
<1>4. CASE Crash
  BY <1>4 DEF Crash, disk
<1>5. CASE Start
  BY <1>5 DEF Start, disk
<1>6. CASE UNCHANGED vars
  BY <1>6 DEF vars, disk, history
<1> QED
  BY <1>1, <1>2, <1>3, <1>4, <1>5, <1>6, SMTT(30) DEF Next, Continue

(* A text leads to the sessions it led to. *)
LEMMA LeadsStay ==
  ASSUME SessionsOK, NEW b \in Bindings, Leads(b),
         \A s \in Sessions : header[s] \in ProjectIds => header'[s] = header[s]
  PROVE  \A c \in Conversations : b[c] # None => header'[b[c]] \in ProjectIds
BY DEF Leads, Bindings

(* A session that is loaded or acknowledged has its header, after any step. *)
LEMMA LanesStep ==
  ASSUME DataOK, AllFit, SessionsOK, [Next]_vars
  PROVE  LanesOK'
<1>1. ASSUME NEW r \in Requests,
             \/ RegisterRead(r) \/ RemoveRead(r) \/ List(r) \/ Write(r) \/ Load(r)
             \/ LoadProject(r) \/ OpenFile(r) \/ WriteHeader(r) \/ Save(r) \/ Truncate(r)
             \/ Fail(r) \/ EndTurn(r)
             \/ (\E d \in Dirs : Register(r, d))
             \/ (\E p \in ProjectIds : Remove(r, p))
             \/ (\E s \in Sessions, p \in ProjectIds, given \in BOOLEAN : Create(r, s, p, given))
             \/ (\E s \in Sessions : Use(r, s))
             \/ (\E c \in Conversations : Message(r, c))
             \/ (\E s \in Sessions : Scan(r, s))
      PROVE  LanesOK'
  <2>1. lane' = lane /\ acked' = acked
    BY <1>1 DEF Register, Remove, Create, Use, Message, RegisterRead, RemoveRead, List, Scan,
       Write, Load, LoadProject, OpenFile, WriteHeader, Save, Truncate, Fail, EndTurn, Ask,
       history
  <2> QED
    BY <2>1, HeaderStep, SMTT(30) DEF LanesOK, SessionsOK
<1>2. ASSUME NEW r \in Requests,
             \/ Require(r) \/ FileExists(r) \/ Rewrite(r)
      PROVE  LanesOK'
  <2>1. lane' = lane
    BY <1>2 DEF Require, FileExists, Rewrite
  <2>2. \A t \in acked' : t \in acked \/ lane[t] # 0
    <3>1. CASE acked' = acked
      BY <3>1
    <3>2. CASE lane[req[r].session] # 0 /\ acked' = acked \cup {req[r].session}
      BY <3>2
    <3> QED
      BY <1>2, <3>1, <3>2 DEF Require, FileExists, Rewrite, GetLane, Got
  <2> QED
    BY <2>1, <2>2, HeaderStep DEF LanesOK, SessionsOK
<1>3. ASSUME NEW r \in Requests, Loaded(r)
      PROVE  LanesOK'
  <2>1. req[r].session \in Sessions /\ header[req[r].session] \in ProjectIds
    BY <1>3 DEF Loaded, At, AllFit, Fits, SessionsOK, Holds
  <2>2. acked' \subseteq acked \cup {req[r].session} /\ header' = header
    BY <1>3 DEF Loaded, Got, disk
  <2>3. \A t \in Sessions : t # req[r].session => lane'[t] = lane[t]
    BY <1>3 DEF Loaded, DataOK
  <2> QED
    BY <2>1, <2>2, <2>3 DEF LanesOK, SessionsOK
<1>4. ASSUME NEW r \in Requests, Created(r)
      PROVE  LanesOK'
  <2>1. req[r].session \in Sessions /\ header[req[r].session] \in ProjectIds
    BY <1>4 DEF Created, At, AllFit, Fits, SessionsOK, Holds
  <2>2. acked' \subseteq acked \cup {req[r].session} /\ header' = header
    BY <1>4 DEF Created, Got, disk
  <2>3. \A t \in Sessions : t # req[r].session => lane'[t] = lane[t]
    BY <1>4 DEF Created, DataOK
  <2> QED
    BY <2>1, <2>2, <2>3 DEF LanesOK, SessionsOK
<1>5. CASE Crash
  BY <1>5, HeaderStep DEF Crash, LanesOK, SessionsOK
<1>6. CASE Start
  BY <1>6, HeaderStep DEF Start, history, LanesOK, SessionsOK
<1>7. CASE UNCHANGED vars
  BY <1>7 DEF vars, disk, history, LanesOK, SessionsOK
<1> QED
  BY <1>1, <1>2, <1>3, <1>4, <1>5, <1>6, <1>7 DEF Next, Continue

(* The texts, in memory and on disk *)
LEMMA StoredType ==
  ASSUME DataOK
  PROVE  bindings \in Bindings /\ (stored.text # None => stored.text \in Bindings)
BY DEF DataOK

(* A conversation is bound to sessions that can be loaded, after any step. *)
LEMMA TextsStep ==
  ASSUME DataOK, AllFit, SessionsOK, [Next]_vars
  PROVE  TextsOK'
<1>1. ASSUME NEW r \in Requests,
             \/ RegisterRead(r) \/ RemoveRead(r) \/ List(r) \/ Write(r) \/ Require(r)
             \/ Load(r) \/ LoadProject(r) \/ Loaded(r) \/ OpenFile(r) \/ FileExists(r)
             \/ WriteHeader(r) \/ Save(r) \/ Fail(r) \/ EndTurn(r)
             \/ (\E d \in Dirs : Register(r, d))
             \/ (\E p \in ProjectIds : Remove(r, p))
             \/ (\E s \in Sessions, p \in ProjectIds, given \in BOOLEAN : Create(r, s, p, given))
             \/ (\E s \in Sessions : Use(r, s))
             \/ (\E c \in Conversations : Message(r, c))
             \/ (\E s \in Sessions : Scan(r, s))
      PROVE  TextsOK'
  <2>1. bindings' = bindings /\ stored' = stored
    BY <1>1 DEF Register, Remove, Create, Use, Message, RegisterRead, RemoveRead, List, Scan,
       Write, Require, Load, LoadProject, Loaded, OpenFile, FileExists, WriteHeader, Save, Fail,
       EndTurn, Ask, disk
  <2> QED
    BY <2>1, HeaderStep, LeadsStay, StoredType, SMTT(30) DEF TextsOK, SessionsOK, Leads
<1>2. ASSUME NEW r \in Requests, Created(r)
      PROVE  TextsOK'
  <2>1. req[r].session \in Sessions /\ header[req[r].session] \in ProjectIds
    BY <1>2 DEF Created, At, AllFit, Fits, SessionsOK, Holds
  <2>2. stored' = stored /\ header' = header
    BY <1>2 DEF Created, disk
  <2>3. \A c \in Conversations : bindings'[c] # None => header[bindings'[c]] \in ProjectIds
    BY <1>2, <2>1 DEF Created, DataOK, Bindings, SessionsOK, TextsOK, Leads
  <2> QED
    BY <2>2, <2>3 DEF TextsOK, SessionsOK, Leads
<1>3. ASSUME NEW r \in Requests, Truncate(r)
      PROVE  TextsOK'
  <2>1. bindings' = bindings /\ stored'.text = None
    BY <1>3 DEF Truncate
  <2> QED
    BY <2>1, HeaderStep, LeadsStay, StoredType DEF TextsOK, SessionsOK, Leads
<1>4. ASSUME NEW r \in Requests, Rewrite(r)
      PROVE  TextsOK'
  <2>1. bindings' = bindings /\ header' = header
    BY <1>4 DEF Rewrite
  <2>2. stored'.text = None \/ stored'.text = req[r].text
    BY <1>4 DEF Rewrite, DataOK
  <2> QED
    BY <2>1, <2>2 DEF TextsOK, SessionsOK, Leads, Holds
<1>5. CASE Crash
  <2>1. bindings' = NoBindings /\ stored' = stored /\ header' = header
    BY <1>5 DEF Crash, disk
  <2> QED
    BY <2>1 DEF TextsOK, SessionsOK, Leads, NoBindings
<1>6. CASE Start
  <2>1. bindings' = stored.text /\ stored.text # None /\ stored' = stored /\ header' = header
    BY <1>6 DEF Start, disk
  <2> QED
    BY <2>1 DEF TextsOK, SessionsOK, Leads
<1>7. CASE UNCHANGED vars
  BY <1>7 DEF vars, disk, history, TextsOK, SessionsOK, Leads
<1> QED
  BY <1>1, <1>2, <1>3, <1>4, <1>5, <1>6, <1>7 DEF Next, Continue

(* One request at a time writes the header of a session. *)
LEMMA OneWritesStep ==
  ASSUME DataOK, AllFit, SessionsOK, [Next]_vars
  PROVE  OneWrites'
<1>1. ASSUME NEW r \in Requests,
             \/ RegisterRead(r) \/ RemoveRead(r) \/ List(r) \/ Write(r) \/ Require(r)
             \/ Load(r) \/ LoadProject(r) \/ Loaded(r) \/ FileExists(r) \/ WriteHeader(r)
             \/ Created(r) \/ Save(r) \/ Truncate(r) \/ Rewrite(r) \/ Fail(r) \/ EndTurn(r)
             \/ (\E d \in Dirs : Register(r, d))
             \/ (\E p \in ProjectIds : Remove(r, p))
             \/ (\E s \in Sessions, p \in ProjectIds, given \in BOOLEAN : Create(r, s, p, given))
             \/ (\E s \in Sessions : Use(r, s))
             \/ (\E c \in Conversations : Message(r, c))
             \/ (\E s \in Sessions : Scan(r, s))
      PROVE  OneWrites'
  <2>0. Alone(r)
    BY <1>1, Moves DEF Steps, Continue
  <2>1. req'[r].pc # "header"
    BY <1>1, Goes, MessagePlace
  <2> QED
    BY <2>0, <2>1 DEF OneWrites, SessionsOK, Alone
<1>2. ASSUME NEW r \in Requests, OpenFile(r)
      PROVE  OneWrites'
  <2>0. Alone(r)
    BY <1>2, Moves DEF Steps, Continue
  <2>1. req'[r].session = req[r].session
    BY <1>2, Going, InPlaces, Fields DEF OpenFile
  <2>2. header[req[r].session] = Absent
    BY <1>2 DEF OpenFile
  <2>3. \A q \in Requests : req[q].pc = "header" => req[q].session # req[r].session
    BY <2>2 DEF SessionsOK, Holds, Absent, Empty
  <2> QED
    BY <2>0, <2>1, <2>3 DEF OneWrites, SessionsOK, Alone
<1>3. CASE Crash
  BY <1>3, IdleType DEF Crash, OneWrites
<1>4. CASE Start
  BY <1>4 DEF Start, OneWrites, SessionsOK
<1>5. CASE UNCHANGED vars
  BY <1>5 DEF vars, disk, history, OneWrites, SessionsOK
<1> QED
  BY <1>1, <1>2, <1>3, <1>4, <1>5 DEF Next, Continue

(* What the other requests found of sessions stays so. *)
LEMMA OthersHold ==
  ASSUME DataOK, AllFit, SessionsOK, [Next]_vars, NEW r \in Requests, Alone(r),
         NEW q \in Requests, q # r,
         req[q].pc = "header" => header'[req[q].session] = header[req[q].session]
  PROVE  Holds(req[q])'
<1>1. /\ Holds(req[q]) /\ Fits(req[q]) /\ req'[q] = req[q] /\ req[q].text \in Bindings
      /\ req[q].known \in SUBSET Sessions
  BY Fields DEF SessionsOK, AllFit, Alone
<1>2. Leads(req[q].text)'
  BY <1>1, HeaderStep, LeadsStay DEF Leads, Holds
<1>3. req[q].pc \in {"project", "reload", "runtime"} => header'[req[q].session] \in ProjectIds
  BY <1>1, HeaderStep DEF Holds, Fits
<1>4. req[q].op = "remove" => \A s \in req[q].known : header'[s] = req[q].project
  BY <1>1, HeaderStep DEF Holds, Fits
<1> QED
  BY <1>1, <1>2, <1>3, <1>4 DEF Holds

(* So does what the request that steps found, where the step finds nothing. *)
LEMMA ItHolds ==
  ASSUME DataOK, AllFit, SessionsOK, [Next]_vars, NEW r \in Requests, Kept(r),
         req'[r].pc \notin {"project", "reload", "runtime", "header"},
         req'[r].op = "remove" => req'[r].pc \notin {"scanning", "writing"}
  PROVE  Holds(req[r])'
<1>1. CASE req'[r] = Idle
  BY <1>1, IdleType, Bounds DEF Holds, Leads, NoBindings, Ops
<1>2. CASE /\ Given(r) /\ req'[r].text = req[r].text
           /\ req[r].op = "remove" => req'[r].project = req[r].project
  <2>1. /\ Holds(req[r]) /\ Fits(req[r]) /\ req[r].text \in Bindings
        /\ req[r].known \in SUBSET Sessions
    BY Fields DEF SessionsOK, AllFit
  <2>2. Leads(req[r].text)'
    BY <1>2, <2>1, HeaderStep, LeadsStay DEF Leads, Holds
  <2>3. req'[r].op = "remove" => \A s \in req'[r].known : header'[s] = req'[r].project
    BY <1>2, <2>1, HeaderStep DEF Holds, Fits, Given
  <2> QED
    BY <2>2, <2>3 DEF Holds
<1> QED
  BY <1>1, <1>2 DEF Kept

(* What each request found of sessions is so, after any step. *)
LEMMA HoldsStep ==
  ASSUME DataOK, AllFit, SessionsOK, [Next]_vars
  PROVE  \A q \in Requests : Holds(req[q])'
<1>1. ASSUME NEW r \in Requests,
             \/ RemoveRead(r) \/ Write(r) \/ Require(r) \/ Loaded(r) \/ FileExists(r)
             \/ Created(r) \/ Truncate(r) \/ Rewrite(r) \/ Fail(r) \/ EndTurn(r)
      PROVE  \A q \in Requests : Holds(req[q])'
  <2>0. Alone(r)
    BY <1>1, Moves DEF Steps, Continue
  <2>9. [Next]_vars
    BY <1>1 DEF Next, Continue
  <2>8. \A q \in Requests \ {r} : Holds(req[q])'
    <3>1. header' = header
      BY <1>1 DEF RemoveRead, Write, Require, Loaded, FileExists, Created, Truncate, Rewrite,
         Fail, EndTurn, disk
    <3> QED
      BY <2>0, <2>9, <3>1, OthersHold
  <2>7. Holds(req[r])'
    BY <1>1, <2>9, Goes, ItHolds
  <2> QED
    BY <2>7, <2>8
<1>2. ASSUME NEW r \in Requests, NEW d \in Dirs, Register(r, d)
      PROVE  \A q \in Requests : Holds(req[q])'
  <2>0. Alone(r)
    BY <1>2, Moves DEF Steps, Continue
  <2>9. [Next]_vars
    BY <1>2 DEF Next, Continue
  <2>8. \A q \in Requests \ {r} : Holds(req[q])'
    BY <1>2, <2>0, <2>9, OthersHold DEF Register, Ask, disk
  <2>7. Holds(req[r])'
    <3>1. req'[r].pc = "queued" /\ req'[r].op = "register" /\ req'[r].text = NoBindings
      BY <1>2, Registering, Fields DEF Register, Ask
    <3> QED
      BY <3>1 DEF Holds, Leads, NoBindings
  <2> QED
    BY <2>7, <2>8
<1>3. ASSUME NEW r \in Requests, NEW p \in ProjectIds, Remove(r, p)
      PROVE  \A q \in Requests : Holds(req[q])'
  <2>0. Alone(r)
    BY <1>3, Moves DEF Steps, Continue
  <2>9. [Next]_vars
    BY <1>3 DEF Next, Continue
  <2>8. \A q \in Requests \ {r} : Holds(req[q])'
    BY <1>3, <2>0, <2>9, OthersHold DEF Remove, Ask, disk
  <2>7. Holds(req[r])'
    <3> DEFINE known == {s \in acked : header[s] = p}
    <3>1. known \in SUBSET Sessions /\ \A s \in known : header[s] = p
      BY DEF DataOK
    <3>2. Becomes(r, [Idle EXCEPT !.op = "remove", !.pc = "require", !.project = p,
          !.known = known])
      BY <1>3 DEF Remove, Ask
    <3>3. header' = header
      BY <1>3 DEF Remove, Ask, disk
    <3> HIDE DEF known
    <3>4. /\ req'[r].op = "remove" /\ req'[r].pc = "require" /\ req'[r].project = p
          /\ req'[r].known = known /\ req'[r].text = NoBindings
      BY <3>1, <3>2, Removing, Fields, ZenonT(60)
    <3> QED
      BY <3>1, <3>3, <3>4 DEF Holds, Leads, NoBindings
  <2> QED
    BY <2>7, <2>8
<1>4. ASSUME NEW r \in Requests, NEW s \in Sessions, NEW p \in ProjectIds, NEW given \in BOOLEAN,
             Create(r, s, p, given)
      PROVE  \A q \in Requests : Holds(req[q])'
  <2>0. Alone(r)
    BY <1>4, Moves DEF Steps, Continue
  <2>9. [Next]_vars
    BY <1>4 DEF Next, Continue
  <2>8. \A q \in Requests \ {r} : Holds(req[q])'
    BY <1>4, <2>0, <2>9, OthersHold DEF Create, Ask, disk
  <2>7. Holds(req[r])'
    <3>1. req'[r].pc = "require" /\ req'[r].op = "create" /\ req'[r].text = NoBindings
      BY <1>4, Creating, Fields DEF Create, Ask
    <3> QED
      BY <3>1 DEF Holds, Leads, NoBindings
  <2> QED
    BY <2>7, <2>8
<1>5. ASSUME NEW r \in Requests, NEW s \in Sessions, Use(r, s)
      PROVE  \A q \in Requests : Holds(req[q])'
  <2>0. Alone(r)
    BY <1>5, Moves DEF Steps, Continue
  <2>9. [Next]_vars
    BY <1>5 DEF Next, Continue
  <2>8. \A q \in Requests \ {r} : Holds(req[q])'
    BY <1>5, <2>0, <2>9, OthersHold DEF Use, Ask, disk
  <2>7. Holds(req[r])'
    <3> DEFINE l == lane[s]
               pc == IF lane[s] # 0 THEN "turn" ELSE "load"
    <3>1. Becomes(r, [Idle EXCEPT !.op = "use", !.session = s, !.lane = l, !.pc = pc])
      BY <1>5 DEF Use, Ask
    <3>2. l \in Nat /\ pc \in Places /\ pc \in {"turn", "load"}
      BY LaneNumber, InPlaces
    <3> HIDE DEF l, pc
    <3>4. req \in [Requests -> Request]
      BY Fields
    <3>3. /\ req'[r].op = "use" /\ req'[r].pc = pc /\ req'[r].session = s
          /\ req'[r].text = NoBindings
      BY <3>1, <3>2, <3>4, Using, ZenonT(60)
    <3> QED
      BY <3>2, <3>3 DEF Holds, Leads, NoBindings
  <2> QED
    BY <2>7, <2>8
<1>6. ASSUME NEW r \in Requests, NEW c \in Conversations, Message(r, c)
      PROVE  \A q \in Requests : Holds(req[q])'
  <2>0. Alone(r)
    BY <1>6, Moves DEF Steps, Continue
  <2>9. [Next]_vars
    BY <1>6 DEF Next, Continue
  <2>8. \A q \in Requests \ {r} : Holds(req[q])'
    BY <1>6, <2>0, <2>9, OthersHold DEF Message, Ask, disk
  <2>7. Holds(req[r])'
    BY <1>6, MessagePlace DEF Holds, Leads, NoBindings
  <2> QED
    BY <2>7, <2>8
<1>7. ASSUME NEW r \in Requests, RegisterRead(r)
      PROVE  \A q \in Requests : Holds(req[q])'
  <2>0. Alone(r)
    BY <1>7, Moves DEF Steps, Continue
  <2>9. [Next]_vars
    BY <1>7 DEF Next, Continue
  <2>8. \A q \in Requests \ {r} : Holds(req[q])'
    BY <1>7, <2>0, <2>9, OthersHold DEF RegisterRead, disk
  <2>7. Holds(req[r])'
    <3>1. req'[r].op = "remove" => req'[r].pc # "writing"
      BY <1>7, Goes, IdleType DEF RegisterRead, Kept, Given
    <3> QED
      BY <1>7, <2>9, <3>1, Goes, ItHolds
  <2> QED
    BY <2>7, <2>8
<1>8. ASSUME NEW r \in Requests, List(r)
      PROVE  \A q \in Requests : Holds(req[q])'
  <2>0. Alone(r)
    BY <1>8, Moves DEF Steps, Continue
  <2>9. [Next]_vars
    BY <1>8 DEF Next, Continue
  <2>8. \A q \in Requests \ {r} : Holds(req[q])'
    BY <1>8, <2>0, <2>9, OthersHold DEF List, disk
  <2>7. Holds(req[r])'
    <3>1. /\ Holds(req[r]) /\ Fits(req[r]) /\ req[r].text \in Bindings
          /\ req[r].known \in SUBSET Sessions
      BY Fields DEF SessionsOK, AllFit
    <3>2. \A c \in Conversations : req[r].text[c] # None => header'[req[r].text[c]] \in ProjectIds
      BY <2>9, <3>1, HeaderStep, LeadsStay DEF Leads, Holds
    <3>3. req[r].op = "remove" => \A t \in req[r].known : header'[t] = req[r].project
      BY <2>9, <3>1, HeaderStep DEF Holds, Fits
    <3>4. req[r].op = "remove" /\ header' = header
      BY <1>8 DEF List, At, AllFit, Fits, disk
    <3>5. req[r].known \subseteq {s \in Sessions : header[s] # Absent}
      BY <3>1, <3>4, NoProject DEF Holds, Fits
    <3> QED
      BY <1>8, <3>1, <3>2, <3>3, <3>4, <3>5, Listed DEF Holds, Given, Leads
  <2> QED
    BY <2>7, <2>8
<1>9. ASSUME NEW r \in Requests, NEW s \in Sessions, Scan(r, s)
      PROVE  \A q \in Requests : Holds(req[q])'
  <2>0. Alone(r)
    BY <1>9, Moves DEF Steps, Continue
  <2>9. [Next]_vars
    BY <1>9 DEF Next, Continue
  <2>8. \A q \in Requests \ {r} : Holds(req[q])'
    BY <1>9, <2>0, <2>9, OthersHold DEF Scan, disk
  <2>7. Holds(req[r])'
    <3>1. CASE header[s] = req[r].project
      <4>1. req'[r].pc = "idle"
        BY <1>9, <3>1, Answering, IdleType, Fields DEF Scan
      <4> QED
        BY <1>9, <2>9, <4>1, Goes, ItHolds
    <3>2. CASE header[s] # req[r].project
      <4>1. /\ Holds(req[r]) /\ Fits(req[r]) /\ req[r].text \in Bindings
            /\ req[r].known \in SUBSET Sessions
        BY Fields DEF SessionsOK, AllFit
      <4>2. \A c \in Conversations : req[r].text[c] # None => header'[req[r].text[c]] \in ProjectIds
        BY <2>9, <4>1, HeaderStep, LeadsStay DEF Leads, Holds
      <4>3. req[r].op = "remove" => \A t \in req[r].known : header'[t] = req[r].project
        BY <2>9, <4>1, HeaderStep DEF Holds, Fits
      <4>4. req[r].op = "remove" /\ req[r].pc = "scanning" /\ header' = header
        BY <1>9 DEF Scan, At, AllFit, Fits, disk
      <4>5. s \notin req[r].known /\ req[r].known \subseteq req[r].todo
        BY <3>2, <4>1, <4>4 DEF Holds
      <4> QED
        BY <1>9, <3>2, <4>1, <4>2, <4>3, <4>4, <4>5, Scanned DEF Holds, Given, Leads
    <3> QED
      BY <3>1, <3>2
  <2> QED
    BY <2>7, <2>8
<1>10. ASSUME NEW r \in Requests, Load(r)
      PROVE  \A q \in Requests : Holds(req[q])'
  <2>0. Alone(r)
    BY <1>10, Moves DEF Steps, Continue
  <2>9. [Next]_vars
    BY <1>10 DEF Next, Continue
  <2>8. \A q \in Requests \ {r} : Holds(req[q])'
    BY <1>10, <2>0, <2>9, OthersHold DEF Load, disk
  <2>7. Holds(req[r])'
    <3>1. CASE Goto(r, "project") /\ header[req[r].session] \in ProjectIds
      <4>1. /\ Holds(req[r]) /\ Fits(req[r]) /\ req[r].text \in Bindings
            /\ req[r].known \in SUBSET Sessions
        BY Fields DEF SessionsOK, AllFit
      <4>2. \A c \in Conversations : req[r].text[c] # None => header'[req[r].text[c]] \in ProjectIds
        BY <2>9, <4>1, HeaderStep, LeadsStay DEF Leads, Holds
      <4>3. req[r].op = "remove" => \A t \in req[r].known : header'[t] = req[r].project
        BY <2>9, <4>1, HeaderStep DEF Holds, Fits
      <4>4. header' = header
        BY <1>10 DEF Load, disk
      <4>5. /\ Given(r) /\ req'[r].pc = "project" /\ req'[r].session = req[r].session
            /\ req'[r].project = req[r].project /\ req'[r].text = req[r].text
        BY <3>1, Going, InPlaces, Fields
      <4> QED
        BY <3>1, <4>2, <4>3, <4>4, <4>5 DEF Holds, Given, Leads
    <3>2. CASE req'[r].pc # "project"
      BY <1>10, <2>9, <3>2, Goes, ItHolds
    <3>3. CASE Goto(r, "open") \/ Answer(r)
      BY <3>2, <3>3, Going, Answering, IdleType, InPlaces, Fields
    <3> QED
      BY <1>10, <3>1, <3>3 DEF Load
  <2> QED
    BY <2>7, <2>8
<1>11. ASSUME NEW r \in Requests, LoadProject(r)
      PROVE  \A q \in Requests : Holds(req[q])'
  <2>0. Alone(r)
    BY <1>11, Moves DEF Steps, Continue
  <2>9. [Next]_vars
    BY <1>11 DEF Next, Continue
  <2>8. \A q \in Requests \ {r} : Holds(req[q])'
    BY <1>11, <2>0, <2>9, OthersHold DEF LoadProject, disk
  <2>7. Holds(req[r])'
    <3>1. CASE Goto(r, "reload")
      <4>1. /\ Holds(req[r]) /\ Fits(req[r]) /\ req[r].text \in Bindings
            /\ req[r].known \in SUBSET Sessions
        BY Fields DEF SessionsOK, AllFit
      <4>2. \A c \in Conversations : req[r].text[c] # None => header'[req[r].text[c]] \in ProjectIds
        BY <2>9, <4>1, HeaderStep, LeadsStay DEF Leads, Holds
      <4>3. req[r].op = "remove" => \A t \in req[r].known : header'[t] = req[r].project
        BY <2>9, <4>1, HeaderStep DEF Holds, Fits
      <4>4. header' = header /\ req[r].pc = "project"
        BY <1>11 DEF LoadProject, disk, At
      <4>5. /\ Given(r) /\ req'[r].pc = "reload" /\ req'[r].session = req[r].session
            /\ req'[r].project = req[r].project /\ req'[r].text = req[r].text
        BY <3>1, Going, InPlaces, Fields
      <4> QED
        BY <4>1, <4>2, <4>3, <4>4, <4>5 DEF Holds, Given, Leads
    <3>2. CASE Answer(r)
      <4>1. req'[r].pc = "idle"
        BY <3>2, Answering, IdleType, Fields
      <4> QED
        BY <1>11, <2>9, <4>1, Goes, ItHolds
    <3> QED
      BY <1>11, <3>1, <3>2 DEF LoadProject
  <2> QED
    BY <2>7, <2>8
<1>12. ASSUME NEW r \in Requests, OpenFile(r)
      PROVE  \A q \in Requests : Holds(req[q])'
  <2>0. Alone(r)
    BY <1>12, Moves DEF Steps, Continue
  <2>9. [Next]_vars
    BY <1>12 DEF Next, Continue
  <2>5. req[r].pc = "open" /\ req[r].session \in Sessions
        /\ header' = [header EXCEPT ![req[r].session] = Empty]
    BY <1>12 DEF OpenFile, At, AllFit, Fits
  <2>6. \A q \in Requests \ {r} :
          req[q].pc = "header" => header'[req[q].session] = header[req[q].session]
    <3>1. \A q \in Requests \ {r} : req[q].pc = "header" => req[q].session # req[r].session
      BY <1>12, <2>5, NoProject DEF OpenFile, SessionsOK, Holds, OneWrites, Absent, Empty
    <3>2. \A q \in Requests : req[q].pc = "header" => req[q].session \in Sessions
      BY DEF AllFit, Fits
    <3> QED
      BY <2>5, <3>1, <3>2 DEF DataOK
  <2>8. \A q \in Requests \ {r} : Holds(req[q])'
    BY <2>0, <2>6, <2>9, OthersHold
  <2>7. Holds(req[r])'
    <3>1. /\ Holds(req[r]) /\ Fits(req[r]) /\ req[r].text \in Bindings
          /\ req[r].known \in SUBSET Sessions
      BY Fields DEF SessionsOK, AllFit
    <3>2. \A c \in Conversations : req[r].text[c] # None => header'[req[r].text[c]] \in ProjectIds
      BY <2>9, <3>1, HeaderStep, LeadsStay DEF Leads, Holds
    <3>3. req[r].op = "remove" => \A t \in req[r].known : header'[t] = req[r].project
      BY <2>9, <3>1, HeaderStep DEF Holds, Fits
    <3>4. header'[req[r].session] = Empty
      BY <2>5 DEF DataOK
    <3>5. /\ Given(r) /\ req'[r].pc = "header" /\ req'[r].session = req[r].session
          /\ req'[r].project = req[r].project /\ req'[r].text = req[r].text
      BY <1>12, Going, InPlaces, Fields DEF OpenFile
    <3> QED
      BY <2>5, <3>1, <3>2, <3>3, <3>4, <3>5 DEF Holds, Given, Fits, Leads
  <2> QED
    BY <2>7, <2>8
<1>13. ASSUME NEW r \in Requests, WriteHeader(r)
      PROVE  \A q \in Requests : Holds(req[q])'
  <2>0. Alone(r)
    BY <1>13, Moves DEF Steps, Continue
  <2>9. [Next]_vars
    BY <1>13 DEF Next, Continue
  <2>5. req[r].pc = "header" /\ req[r].session \in Sessions
        /\ header' = [header EXCEPT ![req[r].session] = req[r].project]
    BY <1>13 DEF WriteHeader, At, AllFit, Fits
  <2>6. \A q \in Requests \ {r} :
          req[q].pc = "header" => header'[req[q].session] = header[req[q].session]
    <3>1. \A q \in Requests \ {r} : req[q].pc = "header" => req[q].session # req[r].session
      BY <1>13, <2>5, NoProject DEF WriteHeader, SessionsOK, Holds, OneWrites, Absent, Empty
    <3>2. \A q \in Requests : req[q].pc = "header" => req[q].session \in Sessions
      BY DEF AllFit, Fits
    <3> QED
      BY <2>5, <3>1, <3>2 DEF DataOK
  <2>8. \A q \in Requests \ {r} : Holds(req[q])'
    BY <2>0, <2>6, <2>9, OthersHold
  <2>7. Holds(req[r])'
    <3>1. /\ Holds(req[r]) /\ Fits(req[r]) /\ req[r].text \in Bindings
          /\ req[r].known \in SUBSET Sessions
      BY Fields DEF SessionsOK, AllFit
    <3>2. \A c \in Conversations : req[r].text[c] # None => header'[req[r].text[c]] \in ProjectIds
      BY <2>9, <3>1, HeaderStep, LeadsStay DEF Leads, Holds
    <3>3. req[r].op = "remove" => \A t \in req[r].known : header'[t] = req[r].project
      BY <2>9, <3>1, HeaderStep DEF Holds, Fits
    <3>4. header'[req[r].session] = req[r].project
      BY <2>5 DEF DataOK
    <3>5. /\ Given(r) /\ req'[r].pc = "runtime" /\ req'[r].session = req[r].session
          /\ req'[r].project = req[r].project /\ req'[r].text = req[r].text
      BY <1>13, Going, InPlaces, Fields DEF WriteHeader
    <3> QED
      BY <2>5, <3>1, <3>2, <3>3, <3>4, <3>5 DEF Holds, Given, Fits, Leads
  <2> QED
    BY <2>7, <2>8
<1>14. ASSUME NEW r \in Requests, Save(r)
      PROVE  \A q \in Requests : Holds(req[q])'
  <2>0. Alone(r)
    BY <1>14, Moves DEF Steps, Continue
  <2>9. [Next]_vars
    BY <1>14 DEF Next, Continue
  <2>8. \A q \in Requests \ {r} : Holds(req[q])'
    BY <1>14, <2>0, <2>9, OthersHold DEF Save, disk
  <2>7. Holds(req[r])'
    <3>1. /\ Holds(req[r]) /\ Fits(req[r]) /\ req[r].text \in Bindings
          /\ req[r].known \in SUBSET Sessions
      BY Fields DEF SessionsOK, AllFit
    <3>2. \A c \in Conversations : req[r].text[c] # None => header'[req[r].text[c]] \in ProjectIds
      BY <2>9, <3>1, HeaderStep, LeadsStay DEF Leads, Holds
    <3>3. req[r].op = "remove" => \A t \in req[r].known : header'[t] = req[r].project
      BY <2>9, <3>1, HeaderStep DEF Holds, Fits
    <3>4. header' = header /\ Leads(bindings)
      BY <1>14 DEF Save, disk, SessionsOK, TextsOK
    <3>5. /\ Given(r) /\ req'[r].pc = "truncate" /\ req'[r].project = req[r].project
          /\ req'[r].text = bindings
      BY <1>14, GoingToSave, Fields DEF Save, DataOK
    <3> QED
      BY <3>3, <3>4, <3>5 DEF Holds, Given, Leads
  <2> QED
    BY <2>7, <2>8
<1>15. CASE Crash
  BY <1>15, IdleType, Bounds DEF Crash, Holds, Leads, NoBindings, Ops
<1>16. CASE Start
  BY <1>16 DEF Start, SessionsOK, Holds, Leads, disk
<1>17. CASE UNCHANGED vars
  BY <1>17 DEF vars, disk, history, SessionsOK, Holds, Leads
<1> QED
  BY <1>1, <1>2, <1>3, <1>4, <1>5, <1>6, <1>7, <1>8, <1>9, <1>10, <1>11, <1>12, <1>13, <1>14,
     <1>15, <1>16, <1>17 DEF Next, Continue

-----------------------------------------------------------------------------
\* The inductive invariant
IInv == DataOK /\ AllFit /\ ChainOK /\ RegistryOK /\ SessionsOK

(* It holds at first, *)
LEMMA InvInit == Init => IInv
<1> SUFFICES ASSUME Init PROVE IInv
  OBVIOUS
<1>1. \A r \in Requests : req[r] = Idle /\ req[r].pc = "idle" /\ Fits(req[r])
  BY IdleType, IdleFits DEF Init
<1>2. DataOK
  <2>1. /\ header \in [Sessions -> Header] /\ NoBindings \in Bindings
        /\ lane \in [Sessions -> 0..lanes] /\ req \in [Requests -> Request]
    BY IdleType DEF Init, Header, Bindings, NoBindings
  <2> QED
    BY <2>1, Bounds DEF Init, DataOK
<1>3. ChainOK
  BY <1>1 DEF Init, ChainOK, InRegistry
<1>4. RegistryOK
  BY <1>1 DEF Init, RegistryOK, RegistryKeeps, Reads
<1>5. SessionsOK
  BY <1>1, IdleType, Bounds DEF Init, SessionsOK, LanesOK, OneWrites, TextsOK, Holds, Leads,
     NoBindings,
     Ops
<1> QED
  BY <1>1, <1>2, <1>3, <1>4, <1>5 DEF IInv, AllFit

(* every step keeps it, *)
LEMMA InvStep == IInv /\ [Next]_vars => IInv'
BY DataStep, FitStep, ChainStep, RegistryStep, LanesStep, TextsStep, OneWritesStep, HoldsStep
   DEF IInv, SessionsOK

(* and so it always holds. *)
LEMMA InvHolds == Spec => []IInv
BY InvInit, InvStep, PTL DEF Spec

(* Every variable has its type, and the chain holds the mutations under way, each once. *)
THEOREM TypeCorrect == Spec => []TypeOK
<1>1. IInv => TypeOK
  BY DEF IInv, TypeOK, DataOK, ChainOK
<1> QED
  BY <1>1, InvHolds, PTL

(* However requests cross, fail and stop with the host, projects.json holds a directory once
   and every project a client was told of that nobody removed (#mutate, register, remove). *)
THEOREM RegistryKept == Spec => []RegistryKeeps
<1>1. IInv => RegistryKeeps
  BY DEF IInv, RegistryOK
<1> QED
  BY <1>1, InvHolds, PTL

(* A removal goes through only for a project none of whose sessions was acknowledged when the
   client asked for it (remove, sessionReferencesProject). *)
THEOREM ProjectsOfSessionsKept == Spec => []AckedSessionKeepsProject
<1>1. IInv => AckedSessionKeepsProject
  BY DEF IInv, SessionsOK, Holds, AckedSessionKeepsProject, At
<1> QED
  BY <1>1, InvHolds, PTL

(* A conversation is bound only to a session that can be loaded, in memory and on disk, through
   every failure of the file and stop of the host (ensureImBinding, saveImBindings). *)
THEOREM BindingsLead == Spec => []BoundSessionExists
<1>1. IInv => BoundSessionExists
  BY DEF IInv, SessionsOK, TextsOK, Leads, BoundSessionExists
<1> QED
  BY <1>1, InvHolds, PTL

=============================================================================
