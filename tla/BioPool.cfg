SPECIFICATION Spec
CONSTANTS
  Starters = {s1, s2}
  Clients = {c1, c2, c3}
  Silent = {c3}
  Pool = 2
INVARIANTS
  OneListener
PROPERTIES
  AcceptedIsAnswered
  RequestReplySpec
CHECK_DEADLOCK FALSE
