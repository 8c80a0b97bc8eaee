CONSTANTS
  Sizes <- SomeSizes
  LenModulus = 65536
  CountModulus = 4
  WordModulus = 262144
  MaxParts = 5
SPECIFICATION Spec
INVARIANTS
  TypeOK
  HeaderCountsPayload
  SizeIsSubmitted
  RoundTrip
CHECK_DEADLOCK FALSE
