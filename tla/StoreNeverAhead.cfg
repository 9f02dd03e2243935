SPECIFICATION Spec
CONSTANTS
  N = 2
  MaxAttempts = 2
  MaxFaults = 2
INVARIANT
  StoreNeverAhead
