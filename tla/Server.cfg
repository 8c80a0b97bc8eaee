CONSTANTS
  IoThreads = {io1, io2}
  Connections = {k1, k2}
  Addresses = {a1, a2}
  Messages = {m1}
  None = none
SPECIFICATION FairSpec
INVARIANTS
  TypeOK
  ConnecterMatches
  LostOnlyByRace
PROPERTIES
  ValidTellsTheTruth
  PostedRepliesLeave
  InterruptEndsProcess
CHECK_DEADLOCK FALSE
