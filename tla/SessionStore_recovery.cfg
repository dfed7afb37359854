SPECIFICATION Spec
CONSTANTS
  Procs = {p1, p2}
  Users = {u1}
  Sessions = {s1}
  UserOf <- OneUser
  Events = {e1}
  Header = header
  UserEvents = {e1, header}
  MaxOrder = 3
  Ops = {"create", "append", "delete"}
  Faults = {"log", "cleanup", "marker", "seq", "seqlost"}
  CanCrash = TRUE
  NULL = NULL
SYMMETRY ProcSymmetry
INVARIANTS TranscriptSound AckedDurable RecordsAgree
PROPERTIES TranscriptAscends
