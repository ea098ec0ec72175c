SPECIFICATION Spec
CONSTANTS
  Frames <- MCFrames
  Noise <- MCNoise
  MAXPAY = 2
  BLOB_MAX_PAYLOAD = 6
  MAXFRAME = 16
  BUFF = 24
  BUDGET = 1
  EVT_QUEUE_MAX = 1
  MaxItems = 3
  MaxEvents = 2
CHECK_DEADLOCK FALSE
INVARIANT PiecesDontMatter
INVARIANT IntactIsHandled
INVARIANT NothingWaits
