SPECIFICATION FairSpec
CONSTANTS
  Values <- TextOrAscii
  Undecodable <- BadValue
  Pairs <- GoodPairs
  MaxValues = 3
INVARIANTS
  PrefixDelivered
  NoSpuriousFailure
  FailureKeepsValues
  BoundedLag
PROPERTIES
  StreamEnds
  ImplementsChunkStream
CHECK_DEADLOCK FALSE
