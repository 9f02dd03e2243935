SPECIFICATION Spec
CONSTANTS
  read = read
  banned = banned
  write = write
  export = export
  junk = junk
  anon = anon
  d1 = d1
  d2 = d2
  Call = {read, banned, export, write, junk, anon, d1, d2}
  Effect <- MCEffect
  Invalid = {junk, anon}
  Nameless = {anon, d2}
  Statement = {read, export}
  Designation = {d1, d2}
  Forbidden = {banned}
  Permitted = {}
  Posture <- MCPosture
  MaxTurns = 3
  MaxCalls = 3
  MaxContinuations = 1
  MaxRetries = 1
  Memory = 1
  Lanes = 2
  Window = 4
  PerTurn = 2
  None = None
INVARIANTS
  RequestsPairCalls
  FailedCallStaysRefused
  AnswerIsWhatWasNamed
PROPERTIES
  GatesBindBothPaths
  CancelStopsTools
  RunSettles
CHECK_DEADLOCK FALSE
