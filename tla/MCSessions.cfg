\* One session, one goroutine of the HTTP server and the listener, two saves at a
\* time; one of: a change of name, a crash, a failing call to Redis, a lost message,
\* a task without an answer.  The scheduler does not know c2.
SPECIFICATION FairSpec
CONSTANTS
  s1 = s1
  c1 = c1
  c2 = c2
  r1 = r1
  v1 = v1
  v2 = v2
  Ids = {s1}
  Cats = {c1, c2}
  Agents = {c1}
  Requests = {r1}
  Savers = {v1, v2}
  MaxMessages = 2
  MaxTasks = 3
  MaxEvents = 1
INVARIANTS
  TypeOK
  RegisteredTogether
  SavedCatchesUp
  ChainHasAll
  LeavesNothing
  OpenCallsAwaited
PROPERTIES
  WorkEnds
  SummaryGoesForward
CHECK_DEADLOCK FALSE
