SPECIFICATION Spec
CONSTANTS
  DoubleBits = 3
  LongBits = 6
  Definitions <- SomeDefinitions
  UrlMessages <- SomeUrlMessages
  JsonMessages <- SomeJsonMessages
INVARIANT
  XmapKeepsDiscriminator
CHECK_DEADLOCK FALSE
