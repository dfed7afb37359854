SPECIFICATION Spec
CONSTANTS
  Callers = {c1, c2}
  Sessions = {s1, s2}
  Paths = {f1}
  Inodes = {i1, i2, i3}
  Halves = {a, b}
  Ops = {"read", "write", "edit", "bash"}
  Faults = {"error", "remove", "crash"}
  NULL = NULL
VIEW Reachable
SYMMETRY Symmetry
INVARIANTS TypeOK Serialized ReadsAreWhole
PROPERTIES NoLostUpdate
