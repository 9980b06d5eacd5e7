CONSTANTS
  Users = {c1, c2}
  Owners = {u1, u2}
  Ids = {s1, s2}
  Keys = {k1}
  SessionEvents = 2
  SessionObjects = 2
  Savers = {c1, c2}
  SessionIds = {s1}
  UserScope = user
  Files = {f1}
  MaxSaves = 4
  Procs = {c1, c2}
  Names = {n1, n2, n3}
  Types = {project}
  Slugs = {x, y}
  SlugOf <- SharedSlug
  IndexCap = 1
  MaxOps = 4
  Callers = {c1, c2, c3}
  MaxSessions = 3
  MaxDepth = 2
  Auditors = {c1, c2}
  AuditedEvents = 4
  MaxClaims = 2
  MaxCrashes = 1
  YamlFiles <- SmallFiles
  Main = "main"
  AgentNames = {"main", "a", "b"}
  References = {"main", "a", "b", "nowhere"}
  Up = up
  Dir = dir
  Lines = {x1, x2}
  SpelledPaths <- SmallPaths
  MaxLines = 2
  MaxPaths = 3
  Programs = {c1, c2}
  Passwords = {w1, w2}
  NoPassword = nopassword
  MaxKeys = 3
  MaxDeaths = 1
SYMMETRY Symmetry
SPECIFICATION MCSpec
INVARIANTS MCTypeOK IsolatedSaveIsKept IndexHeals InsideKeepsItsSession ReadableIsChained NoClaimVanishes BuildIsExact BackendsAgree IdentityIsShared
PROPERTY KeepsSessionLogs
CHECK_DEADLOCK FALSE
