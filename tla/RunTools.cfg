CONSTANTS
  Procs = {p1}
  MaxMilestones = 2
  MaxCommands = 3
  Replayers = {r1, r2}
  Tags <- TwoTags
  MaxReplays = 2
  MaxSeconds = 1
  Callers = {c1, c2}
  TreeFiles = {"f"}
  Hashes = {"h"}
  MaxEdits = 2
  MaxCalls = 2
SPECIFICATION ToolsSpec
INVARIANTS
  ToolsTypeOK
  OriginalsKept
  ResultsAreTrue
PROPERTIES
  ReplayedAgrees
  ContinueNeverRedoes
  CommandsEnd
\* Commands, replays, edits and calls are bounded.
CHECK_DEADLOCK FALSE
