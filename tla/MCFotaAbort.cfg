SPECIFICATION Spec
CONSTANTS
  Byte <- MCByte
  Blocks <- MCBlocks
  Images <- MCImages
  NoCrc = NoCrc
  MAX_BLOCK_BYTES = 1
  AbortStages <- AnyStage
  ENABLED_URL = TRUE
  LOCAL_ENABLED = TRUE
  CoreAvailable = TRUE
  LibAvailable = TRUE
  MaxTotal = 2
  MaxSession = 3
INVARIANT GivenUpKeepsOldImage
