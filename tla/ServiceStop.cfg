CONSTANTS
  default = default
  echo = echo
  empty = empty
  m1 = m1
  m2 = m2
  Uris = {default, echo, empty}
  DefaultUri = default
  EmptyUri = empty
  Services = {s1}
  Messages = {m2}
  Content <- MixedContent
  NoService = nullptr
SPECIFICATION Spec
PROPERTIES
  StopUnregisters
CHECK_DEADLOCK FALSE
