\* One task whose response mentions the other agent; nothing fails.
SPECIFICATION Spec
CONSTANTS
  a1 = a1
  a2 = a2
  Agents = {a1, a2}
  MaxRetries = 3
  MaxAsks = 1
  MaxMentions = 1
  MaxFailures = 0
  MaxCrashes = 0
  MaxRestarts = 0
  MaxLost = 0
INVARIANTS
  OneTaskPerMention
CHECK_DEADLOCK FALSE
