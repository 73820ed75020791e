CONSTANTS
  Names <- MCNames
  Keys <- DeliveryKeys
  Kept <- RestoredKeys
  Registries <- ProjectRegistry
  Options <- MCOptions
  MaxRuns = 2
SPECIFICATION Spec
INVARIANT StepsResumable
CHECK_DEADLOCK FALSE
