SPECIFICATION Spec
CONSTANTS
  Callers = {p1, p2, p3}
  Sessions = {s1, s2}
  Servers = {v1, v2}
  Conns = {c1, c2}
  FailureLimit = 2
  Ops = {"tools", "call", "drop", "close"}
  NULL = NULL
VIEW Reachable
SYMMETRY Symmetry
CHECK_DEADLOCK FALSE
INVARIANTS TypeOK NothingLeaks OneTransport
