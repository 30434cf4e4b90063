SPECIFICATION FairSpec
CONSTANTS
  Meters = {m1, m2}
  Dates = {d1}
  NoDate = NoDate
  NoMeter = NoMeter
  Requests = {r1, r2}
PROPERTIES
  ProjectionAdvances
  RequestsEnd
  ImplementsEventSourcing
CHECK_DEADLOCK FALSE
