CONSTANTS
  Sizes <- SomeSizes
  LenModulus = 65536
  CountModulus = 256
  WordModulus = 262144
  MaxParts = 2
SPECIFICATION Spec
INVARIANTS
  OptionAtAgrees
CHECK_DEADLOCK FALSE
