SPECIFICATION Spec
CONSTANTS
  KeepRecent = 1
  Preserve = {"keep"}
  MinimumElision = 2
  Trigger = 20
  Target = 12
  Calibration = TRUE
  PerSession = 6
  MinimumBudgetGrant = 2
  MaxReservations = 100
  Prompts = {1}
  Responses <- MCResponses
  Outputs = {1, 4}
  MaxBytes = 4
  Ratios = {60}
  Faults = {"load"}
  MaxContents = 7
  MaxCrashes = 1
INVARIANTS TypeOK RequestIsSound
PROPERTIES ReachesTarget DecisionsStick KeepsPromises
CHECK_DEADLOCK FALSE
