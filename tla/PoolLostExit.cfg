CONSTANTS
  Workers = {w1}
  Callers = {c1}
  Tasks = {t1}
  NoTask = nothing
  NoThread = nobody
SPECIFICATION FairSpec
PROPERTIES
  ReleaseEndsAllThreads
CHECK_DEADLOCK FALSE
