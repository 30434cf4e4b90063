SPECIFICATION FairSpec
CONSTANTS
  Calls = {c1, c2}
  Statuses <- MCStatuses
  ClientErrorsStatuses = {"400"}
  ServerErrorStatuses = {"500"}
  Endpoints <- MCEndpoints
  Timeout = TRUE
INVARIANTS
  IInv
  TimeoutBlamedRightly
  TimerNeverCutsBody
  PendingHasSource
  ValueIsEarned
PROPERTIES
  NothingReadAfterAbort
  AbortEndsCall
  TimeoutBoundsFetch
  ImplementsAsyncCall
\* Every call may be over: the callers need not make another one.
CHECK_DEADLOCK FALSE
