SPECIFICATION Spec
CONSTANTS
  s1 = s1
  s2 = s2
  None = None
  Session = {s1, s2}
  Launched = s1
  Saved <- MCSaved
  Lines <- MCLines
  KeepTail = 1
  MinTurns = 2
  MaxLines = 3
  MaxKeys = 2
INVARIANTS
  OneWorkerAtATime
  TurnsStayHome
  RecordsAgree
  Remembered
  LinesWaitForWorkers
CHECK_DEADLOCK FALSE
