CONSTANTS
  Files = {f1}
  MaxTasks = 3
  TaskLists <- MCTaskLists
SPECIFICATION CheckSpec
INVARIANTS
  IsAPlan
  PlanIsTight
  CyclesAreReported
PROPERTIES
  Terminates
\* waves() returns: nothing happens after the last batch.
CHECK_DEADLOCK FALSE
