CONSTANTS
  default = default
  echo = echo
  empty = empty
  m1 = m1
  m2 = m2
  Uris = {default, echo, empty}
  DefaultUri = default
  EmptyUri = empty
  Services = {s1, s2}
  Messages = {m1, m2}
  Content <- MixedContent
  NoService = nullptr
SYMMETRY Symmetry
SPECIFICATION Spec
INVARIANTS
  TypeOK
  RegistryMatchesCalls
PROPERTIES
  LookupAnswersLatest
CHECK_DEADLOCK FALSE
