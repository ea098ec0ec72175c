SPECIFICATION Spec
CONSTANTS
  SPEC <- MCSpec
  RESTART_KEYS = {"proto"}
  Default <- MCDefault
  CFG_STORE_ENABLE = TRUE
  RX_QUEUE_MAX = 1
  UartIds = {1}
  MqttIds = {2}
  NoId = 0
  Kinds <- MCKinds
  Stored <- MCStored
  DEDUP_WINDOW = 2
  DEDUP_CAP = 1
  PRUNE_ABOVE = 0
  MaxNow = 2
  MaxRequests = 2
  MaxSends = 3
  MaxPowerLoss = 1
CHECK_DEADLOCK FALSE
INVARIANTS
  StoredIsOverrides
  ChangesAreAnnounced
  SubscriptionHolds
  OnceInWindow
  AnsweredByOwn
