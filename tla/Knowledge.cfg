SPECIFICATION Spec
CONSTANTS
  Process = {p1, p2}
  Assisted = {p1}
  Text = {t1, t2}
  Slot = slot
  Blank = blank
  MaxMulti = 1
  MaxProposals = 1
INVARIANTS
  TypeOK
  MultiSlotBounded
  OwedRowsAreBlank
PROPERTY
  RecallLeavesNoEcho
SYMMETRY TextSymmetry
CHECK_DEADLOCK FALSE
