SPECIFICATION FairSpec
CONSTANTS
  Callers = {c1, c2}
  Sessions = {s1}
  Ops = {"new", "resume", "run", "template", "list", "get", "close"}
  Faults = {"context", "extension", "stuck"}
  NULL = NULL
PROPERTIES CloseStopsAll
