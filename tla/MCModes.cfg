\* Two sessions, three goroutines, three requests.
SPECIFICATION FairSpec
CONSTANTS
  s1 = s1
  s2 = s2
  g1 = g1
  g2 = g2
  g3 = g3
  Sessions = {s1, s2}
  Goroutines = {g1, g2, g3}
  MaxRequests = 3
INVARIANTS
  OneInstance
PROPERTIES
  RequestsReturn
CHECK_DEADLOCK FALSE
