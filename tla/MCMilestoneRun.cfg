CONSTANTS
  Files = {"f1"}
  TaskLists <- AllLists
  Settings <- AllSettings
  Preferences = {"auto", "codex", "mock_claude", "gemini"}
  MaxLintRetries = 1
  OptIn = {"gemini"}
  ClusterThreshold = 2
SPECIFICATION MCSpec
INVARIANTS
  WavesRespected
  FailFastSound
  RetriesSound
  MocksAccountedFor
PROPERTIES
  ImplementsSchedule
  Terminates
\* run_milestone returns: nothing happens after it.
CHECK_DEADLOCK FALSE
