SPECIFICATION Spec
CONSTANTS
  ProviderResponses <- MCProviderResponses
  CallerResponses <- MCCallerResponses
  Tools = {"t", "later"}
  LongRunning = {"later"}
  MaxModelCalls = 2
  MaxToolCallsPerResponse = 2
  MaxReturnedTextBytes = 2
  MaxContents = 6
  Faults = {"name", "create", "delete"}
INVARIANTS TypeOK ResultsAreExact OutcomeIsHonest
