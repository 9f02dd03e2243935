SPECIFICATION Spec
CONSTANTS
  c1 = c1
  c2 = c2
  u1 = u1
  u2 = u2
  d1 = d1
  Call <- MCCall
  Url <- MCUrl
  BodyLen <- MCBodyLen
  Path = {d1}
  MaxChunk = 2
  MaxFile = 2
  Limit = 3
  MaxFaults = 3
  Absent = Absent
CONSTRAINT RacesAreFaultless
SYMMETRY Interchangeable
INVARIANTS
  DestinationIsWhole
  SidecarIsSafe
  CompletionIsTrue
  BudgetBindsRun
CHECK_DEADLOCK FALSE
