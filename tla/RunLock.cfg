SPECIFICATION FairSpec
CONSTANTS
  p1 = p1
  p2 = p2
  p3 = p3
  Process = {p1, p2, p3}
  NoPid = NoPid
INVARIANTS
  TypeOK
  ExclusiveUnlessRaced
  RaceHasWinner
PROPERTY
  StaleLockIsReclaimed
CHECK_DEADLOCK FALSE
