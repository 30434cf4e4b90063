SPECIFICATION FairSpec
CONSTANT Tables <- TwoRoutes
INVARIANTS
  ServerInv
  RunsOnlyValidRequests
  UnauthorizedFirst
  AllErrorsReported
  FirstMatchOwnsRequest
  DroppedOnlyIfUnacceptable
  ThrownIsAnswered
  InterpretersAgree
PROPERTY EveryRequestAnswered
\* The request is over when both have answered.
CHECK_DEADLOCK FALSE
