SPECIFICATION Spec
CONSTANTS
  IDLE_TIMEOUT = 2
  FACTORY_RESET_HOLD = 3
  LOG_STREAM_TX_CAP = 2
  EventCap = 3
INVARIANT TypeOK
INVARIANT ServicesTogether
PROPERTY WakeServedUnlessStuck
PROPERTY LoggingGoesOn
CHECK_DEADLOCK FALSE
