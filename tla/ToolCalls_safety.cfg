SPECIFICATION Spec
CONSTANTS
  Descendants = {"child"}
  Outputs <- MCOutputs
  Policy <- MCPolicy
  Grants = {0, 3, 6}
  NoteBytes = 3
  Faults = {"start", "signal"}
  Readings <- MCReadings
  Offsets = {0, 2}
  Limits = {0, 1, 3}
  ReadPolicies <- MCReadPolicies
  Files <- MCFiles
  Olds <- MCOlds
  News <- MCNews
  Drafts <- MCDrafts
  ContextLines = 1
  maxMyersWorkPoints = 12
INVARIANTS TypeOK ResultIsFinal CapturesAreWhole AnswersAreSound EditIsExact DiffIsRight
CHECK_DEADLOCK FALSE
