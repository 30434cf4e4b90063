SPECIFICATION Spec
CONSTANTS
  Values <- AnyText
  Undecodable <- NoBadValue
  Pairs <- ToFetch
  MaxValues = 2
INVARIANT PrefixDelivered
CHECK_DEADLOCK FALSE
