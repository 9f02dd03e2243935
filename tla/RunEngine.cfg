SPECIFICATION FairSpec
CONSTANTS
  N = 2
  MaxAttempts = 2
  MaxFaults = 3
INVARIANTS
  TypeOK
  StepsInOrder
  WorkIsRecorded
  CompletedIsEarned
  MirrorNeverAhead
  MirrorsNeverConflict
  StopsAtBoundary
  ExitTellsTruth
PROPERTIES
  RecordIsFinal
  KeepsPromise
  InvocationEnds
  RunCanFinish
