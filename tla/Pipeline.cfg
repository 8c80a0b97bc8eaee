CONSTANTS
  default = default
  empty = empty
  Uris = {default, empty}
  DefaultUri = default
  EmptyUri = empty
  Services = {echo}
  IoThreads = {t1, t2}
  Connections = {k1, k2}
  Messages = {m1, m2, m3}
  Workers = {w1, w2}
  Content <- SameContent
  None = None
SPECIFICATION FairSpec
INVARIANTS
  TypeOK
PROPERTIES
  TakesUpInOrder
  EveryMessageAnswered
  HandlersReturn
CHECK_DEADLOCK FALSE
