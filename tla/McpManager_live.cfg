SPECIFICATION FairSpec
CONSTANTS
  Callers = {p1, p2, p3}
  Sessions = {s1}
  Servers = {v1}
  Conns = {c1, c2}
  FailureLimit = 2
  Ops = {"tools", "call", "drop", "close"}
  NULL = NULL
CHECK_DEADLOCK FALSE
PROPERTIES OperationsReturn
