\* One agent, one checking goroutine, two compressing goroutines.
SPECIFICATION Spec
CONSTANTS
  Agents = {a1}
  Sealers = {s1}
  Compressors = {c1, c2}
  EstimateTokens <- MCEstimateTokens
  TokenLimit = 3
  EventLimit = 2
  MaxMessages = 5
  MaxSessions = 4
  MaxDeletes = 1
INVARIANTS
  TypeOK
  NumberedOnce
  OneActive
  NothingSkipped
  SummaryCoversSession
  FullBeforeSeal
PROPERTIES
  SealedFrozen
CHECK_DEADLOCK FALSE
