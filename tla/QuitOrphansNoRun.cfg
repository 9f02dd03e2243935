SPECIFICATION Spec
CONSTANTS
  s1 = s1
  s2 = s2
  None = None
  Session = {s1, s2}
  Launched = s1
  Saved <- MCSaved
  Lines <- RunLines
  KeepTail = 1
  MinTurns = 2
  MaxLines = 2
  MaxKeys = 1
INVARIANT QuitOrphansNoRun
CHECK_DEADLOCK FALSE
