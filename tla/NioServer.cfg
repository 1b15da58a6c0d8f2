SPECIFICATION Spec
CONSTANTS
  Ports = {q1, q2}
  Clients = {c1, c2}
  MaxStarts = 2
  MaxUnread = 1
INVARIANTS
  ReadinessFresh
PROPERTIES
  ClientServed
  StoppedLoopEnds
CHECK_DEADLOCK FALSE
