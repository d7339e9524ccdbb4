\* Two clients, two broadcasting goroutines, buffers of one message.
SPECIFICATION FairSpec
CONSTANTS
  s1 = s1
  c1 = c1
  c2 = c2
  Clients = {c1, c2}
  Sessions = {s1}
  SessionOf <- MCSessionOf
  Callers = {p1, p2}
  SendCap = 1
  BroadcastCap = 1
  MaxMessages = 3
  MaxSweeps = 1
INVARIANTS
  TypeOK
  NoPanic
  NoHole
  GoneIsClosed
PROPERTIES
  CallsReturn
  LeavesHub
CHECK_DEADLOCK FALSE
