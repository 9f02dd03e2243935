SPECIFICATION Spec
CONSTANTS
  Dialect = {"openai", "anthropic", "ollama", "gemini"}
  Tool = {query, write}
  AutoRun = {query}
  query = query
  write = write
  MaxRetries = 1
  MaxContinuations = 1
  MaxChunk = 2
  MaxFrames = 3
  MaxAttempts = 3
  MaxCalls = 2
  MaxInputs = 2
INVARIANTS
  ShownIsDelivered
  EvidenceStays
  OnlyWholeTurns
CHECK_DEADLOCK FALSE
