CONSTANTS
  Procs = {p1, p2}
  MaxMilestones = 1
  MaxCommands = 3
SPECIFICATION Spec
SYMMETRY ProcSymmetry
INVARIANTS
  RecordIsHonest
PROPERTIES
  ReadyIsReal
\* The commands of a behaviour are bounded.
CHECK_DEADLOCK FALSE
