CONSTANTS
  w1 = w1
  w2 = w2
  r1 = r1
  r2 = r2
  b1 = b1
  b2 = b2
  bad = bad
  Workers = {w1, w2}
  Roots = {r1, r2}
  Branches = {b1, b2, bad}
  NoBranch = NoBranch
  ValidBranches = {b1, b2}
  InsideRoots = {r1}
  Names = {"auth.json", "skills"}
  MaxCalls = 2
  t1 = t1
  t2 = t2
  ci = ci
  deploy = deploy
  Tokens = {t1, t2}
  Callers = {ci, deploy}
  NoToken = NoToken
  NoCaller = NoCaller
  Malformed = Malformed
  Registries <- MCRegistries
  Environments <- MCEnvironments
  Requests <- MCRequests
  MaxRequests = 2
  MaxClock = 1
  Facts <- MCFacts
  Trees <- MCTrees
  Behaviours <- MCBehaviours
  Edited = {"placeholder_sha"}
  Strictness <- MCStrictness
  MaxRuns = 1
  MaxEdits = 1
  Orders <- MCOrders
  Disks <- MCDisks
  MaxSaves = 1
  Groups <- MCGroups
  Paths = {"p", "q"}
  Slugs = {"s", "t"}
  MaxMoves = 1
  f1 = f1
  f2 = f2
  secret = secret
  division = division
  Sections = {"security", "edge-case"}
  Sources = {f1, f2}
  Patterns = {secret, division}
  SectionOf <- MCSectionOf
  AstPatterns = {division}
  OutOfScope <- MCOutOfScope
  MaxRewrites = 1
  Gates = {"waits", "asks", "looks"}
  Blocking = {"waits"}
  Lookers = {"looks"}
  Timeout = 2
  MaxTicks = 3
SPECIFICATION PeripherySpec
SYMMETRY WorkerSymmetry
INVARIANTS
  PeripheryTypeOK
  GateIsHonest
  WorkersAreServed
  
  PlansAreExecutable
  GroupIsReported
  ReviewIsComplete
  DecisionsAreHeeded
 
\* The workers' calls, the requests and the gate's runs are used up.
CHECK_DEADLOCK FALSE
