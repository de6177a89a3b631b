SPECIFICATION Spec
CONSTANTS
  Requests = {r1, r2}
  Dirs = {workspace, repo}
  Workspace = workspace
  Sessions = {s1, s2}
  Conversations = {c1, c2}
  None = None
  MaxProjects = 2
  MaxAsked = 3
  MaxCrashes = 1
INVARIANT OneRuntimePerSession
CHECK_DEADLOCK FALSE
