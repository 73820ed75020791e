CONSTANTS
  Procs = {p1}
  MaxMilestones = 1
  MaxCommands = 3
SPECIFICATION Spec
PROPERTY ReadyMeansApplied
CHECK_DEADLOCK FALSE
