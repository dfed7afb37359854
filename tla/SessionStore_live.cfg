SPECIFICATION FairSpec
CONSTANTS
  Procs = {p1, p2}
  Users = {u1}
  Sessions = {s1}
  UserOf <- OneUser
  Events = {e1}
  Header = header
  UserEvents = {e1}
  MaxOrder = 2
  Ops = {"create", "append", "list"}
  Faults = {"read"}
  CanCrash = TRUE
  NULL = NULL
PROPERTIES OperationsReturn
