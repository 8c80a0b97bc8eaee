CONSTANTS
  MaxConnections = 3
  MaxMessages = 1
SPECIFICATION FairSpec
INVARIANTS
  TypeOK
  StatusFollows
  OnlyPassedStayOpen
PROPERTIES
  QuitEndsUnlessLateOpen
CHECK_DEADLOCK FALSE
