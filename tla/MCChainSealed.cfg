\* The API server and one worker that seals; nothing fails.
SPECIFICATION Spec
CONSTANTS
  Writers = {api}
  Workers = {w1}
  Main = api
  Unreadable = Unreadable
  EstimateTokens <- MCEstimateTokens
  TokenLimit = 9
  EventLimit = 2
  MaxMessages = 3
  MaxSessions = 3
  MaxDeletes = 0
  MaxCrashes = 0
  MaxWriteErrors = 0
CHECK_DEADLOCK FALSE
PROPERTIES
  AppendsToOpenSession
