CONSTANTS
  Workers = {w1, w2}
  Callers = {c1}
  Tasks = {t1, t2, t3}
  NoTask = nothing
  NoThread = nobody
SPECIFICATION FairSpec
INVARIANTS
  TypeOK
  EachTaskInOnePlace
  ReleaseQuiesces
PROPERTIES
  PriorityAtStart
  LedgerSpec
  ServedUnlessExhausted
  ReleaseTerminates
CHECK_DEADLOCK FALSE
