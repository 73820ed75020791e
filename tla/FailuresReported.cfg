CONSTANTS
  Files = {"f1"}
  TaskLists <- MCTaskLists
  Settings <- MCSettings
  Preferences = {"auto"}
  MaxLintRetries = 1
  OptIn = {}
  ClusterThreshold = 2
SPECIFICATION Spec
INVARIANT FailuresAreReported
CHECK_DEADLOCK FALSE
