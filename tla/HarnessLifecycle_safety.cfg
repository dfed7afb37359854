SPECIFICATION Spec
CONSTANTS
  Callers = {c1, c2}
  Sessions = {s1, s2}
  Ops = {"new", "resume", "run", "template", "list", "get", "close"}
  Faults = {"store", "context", "extension", "mcp", "plugin", "cancel"}
  NULL = NULL
SYMMETRY Symmetry
INVARIANTS TypeOK InterruptsOnlyAfterTimeout SessionsAreWhole ScopesFollowRuns
