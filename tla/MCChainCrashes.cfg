\* One process does everything, crashes anywhere, and one of its writes fails.
SPECIFICATION Spec
CONSTANTS
  Writers = {p}
  Workers = {p}
  Main = p
  Unreadable = Unreadable
  EstimateTokens <- MCEstimateTokens
  TokenLimit = 9
  EventLimit = 2
  MaxMessages = 5
  MaxSessions = 3
  MaxDeletes = 1
  MaxCrashes = 2
  MaxWriteErrors = 1
CHECK_DEADLOCK FALSE
INVARIANTS
  TypeOK
  LossIsBounded
  AppendOrder
PROPERTIES
  ImplementsUntilCrash
