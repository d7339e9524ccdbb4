\* The API server and one worker; a write may fail, and the chain be deleted once.
SPECIFICATION CursorsSpec
CONSTANTS
  Writers = {api}
  Workers = {w1}
  Main = api
  Unreadable = Unreadable
  EstimateTokens <- MCEstimateTokens
  TokenLimit = 9
  EventLimit = 2
  MaxMessages = 3
  MaxSessions = 3
  MaxDeletes = 1
  MaxCrashes = 0
  MaxWriteErrors = 1
CHECK_DEADLOCK FALSE
INVARIANTS
  ReadsInOrder
  CursorToldAll
  ReadsAreReal
PROPERTIES
  ImplementsSessionChain
