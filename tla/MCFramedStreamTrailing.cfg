SPECIFICATION Spec
CONSTANTS
  Values <- AnyText
  Undecodable <- NoBadValue
  Pairs <- FetchToHttp4s
  MaxValues = 2
INVARIANT NoSpuriousFailure
CHECK_DEADLOCK FALSE
