SPECIFICATION Spec
CONSTANTS
  Meters = {m1, m2, m3}
  Dates = {d1, d2}
  NoDate = NoDate
  NoMeter = NoMeter
  Requests = {r1, r2, r3}
SYMMETRY Symmetry
INVARIANTS
  IInv
  ProjectionIsPrefix
  ApplyNeverThrows
  AnswersAreSnapshots
  ReadYourWrites
CHECK_DEADLOCK FALSE
