SPECIFICATION Spec
CONSTANTS
  DoubleBits = 3
  LongBits = 6
  Definitions <- SomeDefinitions
  UrlMessages <- SomeUrlMessages
  JsonMessages <- SomeJsonMessages
INVARIANTS
  UrlRoundTrip
  JsonRoundTrip
  DocumentIsTrue
CHECK_DEADLOCK FALSE
