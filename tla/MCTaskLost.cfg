\* One task; one process dies.
SPECIFICATION FairSpec
CONSTANTS
  a1 = a1
  a2 = a2
  Agents = {a1, a2}
  MaxRetries = 3
  MaxAsks = 1
  MaxMentions = 0
  MaxFailures = 0
  MaxCrashes = 1
  MaxRestarts = 0
  MaxLost = 0
PROPERTIES
  Settled
CHECK_DEADLOCK FALSE
