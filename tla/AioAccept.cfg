SPECIFICATION Spec
CONSTANTS
  Callers = {p1, p2}
  Conns = {c1, c2, c3}
INVARIANTS
  CountExact
  AcceptChainUnbroken
PROPERTY
  EveryConnectionRead
CHECK_DEADLOCK FALSE
