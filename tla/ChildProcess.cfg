SPECIFICATION FairSpec
CONSTANTS
  child = child
  d1 = d1
  d2 = d2
  Proc = {child, d1, d2}
  Child = child
  MaxBytes = 1
  PipeSize = 1
INVARIANT
  NothingOutlivesOutcome
PROPERTY
  TimeoutBindsCall
CHECK_DEADLOCK FALSE
