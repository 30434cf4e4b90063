SPECIFICATION Spec
CONSTANTS
  c1 = c1
  c2 = c2
  Calls <- SomeCalls
  Endpoints <- SomeEndpoints
  Answers <- SomeAnswers
  PoolSize = 1
CHECK_DEADLOCK FALSE
INVARIANT IInv
INVARIANT OutcomeExplained
PROPERTY StreamsHandedOverOpen
PROPERTY CallsEnd
PROPERTY ConnectionsComeBack
