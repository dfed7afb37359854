SPECIFICATION Spec
CONSTANTS
  Callers = {p1, p2}
  Keys = {k1}
  Docs = {d1}
  Clients = {c1, c2}
  FailureLimit = 2
  MaxTouches = 2
  MaxPublications = 99
  Unversioned = TRUE
  NULL = NULL
SYMMETRY Symmetry
VIEW Reachable
INVARIANTS TypeOK NothingForgotten OneServer DecorationsFit
CHECK_DEADLOCK FALSE
