SPECIFICATION FairSpec
CONSTANTS
  Byte <- MCByte
  Blocks <- MCBlocks
  Images <- MCImages
  NoCrc = NoCrc
  MAX_BLOCK_BYTES = 1
  AbortStages <- OutsideVerifying
  ENABLED_URL = TRUE
  LOCAL_ENABLED = TRUE
  CoreAvailable = TRUE
  LibAvailable = TRUE
  MaxTotal = 2
  MaxSession = 3
INVARIANTS
  ChannelsExclude
  FlashIsUpload
  StagedIsVerified
  SessionIsGuarded
PROPERTIES
  SessionEnds
  DownloadEnds
