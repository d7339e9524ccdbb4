\* Two agents; executions fail, processes die, calls to Redis fail.
SPECIFICATION FairSpec
CONSTANTS
  a1 = a1
  a2 = a2
  Agents = {a1, a2}
  MaxRetries = 2
  MaxAsks = 1
  MaxMentions = 1
  MaxFailures = 2
  MaxCrashes = 1
  MaxRestarts = 1
  MaxLost = 1
INVARIANTS
  TypeOK
  AnsweredOnce
  OneCopy
  NotBoth
PROPERTIES
  SettledButForFaults
CHECK_DEADLOCK FALSE
