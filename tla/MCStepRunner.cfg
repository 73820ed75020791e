CONSTANTS
  Names <- MCNames
  Keys <- DeliveryKeys
  Kept <- RestoredKeys
  Registries <- MCRegistries
  Options <- MCOptions
  MaxRuns = 2
SPECIFICATION Spec
INVARIANTS
  StepsInPlace
  InputsAtHand
PROPERTIES
  CompletedStays
  RunsEnd
\* The runs of a behaviour are bounded.
CHECK_DEADLOCK FALSE
