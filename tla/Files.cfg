CONSTANTS
  a = a
  b = b
  h = h
  Names = {a, b, h}
  Hidden = {h}
  Bytes = {"old"}
  Paths <- SmallPaths
  Trees <- SmallTrees
  MaxDepth = 4
  MaxHandles = 5
SPECIFICATION Spec
INVARIANTS
  TypeOK
  CopyIsComplete
  OnlyTargetsWritten
  FailureHasCause
  CrashHasCause
  IntoItselfFails
CHECK_DEADLOCK FALSE
