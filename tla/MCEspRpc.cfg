SPECIFICATION Spec
CONSTANTS
  Bits = {"heat", "sleep"}
  Changes <- MCChanges
  ParamLists <- MCParamLists
  Chunks = 1
  MaxAsks = 3
  MaxLosses = 1
INVARIANT AppliedIsWritten
PROPERTY SavedIsBooted
PROPERTY ResetBootsDefaults
PROPERTY UploadIsBooted
CHECK_DEADLOCK FALSE
