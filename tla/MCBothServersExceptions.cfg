SPECIFICATION Spec
CONSTANT Tables <- TwoRoutes
INVARIANT DecodingExceptionsAnswered
CHECK_DEADLOCK FALSE
