SPECIFICATION Spec
CONSTANTS
  Procs = {p1, p2}
  Users = {u1, u2}
  Sessions = {s1, s2}
  UserOf <- UserEach
  Events = {e1}
  Header = header
  UserEvents = {e1}
  MaxOrder = 3
  Ops = {"create", "append", "get", "delete"}
  Faults = {"journal"}
  CanCrash = FALSE
  NULL = NULL
SYMMETRY ProcSymmetry
INVARIANTS TypeOK UserJournalBehind ReadsAreCurrent DeletedStaysDeleted
