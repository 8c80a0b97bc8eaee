CONSTANTS
  ScaleCount = 3
  Delays <- SomeDelays
  MaxTimers = 2
  MaxInits = 7
  Cancellers = {c1}
SPECIFICATION Spec
INVARIANTS
  TypeOK
  FiresOnceWhenDue
  NoTimerMissed
  CancelAloneHolds
CHECK_DEADLOCK FALSE
