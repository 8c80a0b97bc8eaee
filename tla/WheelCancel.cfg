CONSTANTS
  ScaleCount = 3
  Delays <- SomeDelays
  MaxTimers = 1
  MaxInits = 2
  Cancellers = {c1}
SPECIFICATION Spec
INVARIANTS
  CancelTellsTheTruth
CHECK_DEADLOCK FALSE
