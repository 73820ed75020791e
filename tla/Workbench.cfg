CONSTANTS
  Files = {"a", "b"}
  Kinds = {"sprint", "reverse-doc"}
  MaxSaves = 1
  Timers = {1, 2}
  Users = {u1, u2}
  MaxSprints = 3
  MaxRetros = 2
  MaxJudges = 5
  MaxRequests = 3
  PipeLines = 2
SPECIFICATION WorkSpec
INVARIANTS
  WorkTypeOK
  PendingHasTimer
  SprintsFollow
  PassNeedsAKeep
  OwnAnswers
PROPERTIES
  WatcherKeepsUp
\* Saves, sprints, retrospectives and requests are bounded, the panel decides
\* once, and an MCP server whose stderr is full waits for ever.
CHECK_DEADLOCK FALSE
