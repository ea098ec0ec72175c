SPECIFICATION Spec
CONSTANTS
  READS <- MCShortReads
  ALARM = 2
  MAX_CELLS = 1
  JK_CELL_CHANGE_DEBOUNCE = 2
  JK_MODBUS_RX_BUFF_SIZE = 2
  JK_MODBUS_TIMEOUT = 1
  JK_MODBUS_POLL = 1
  JK_MODBUS_RETRY = 2
  JK_DATA_TIMEOUT = 1
  OpenRetry = 1
  BusCap = 2
  PendingCap = 1
INVARIANTS
  OnlyLateIsTaken
  FreshIsRecent
PROPERTIES
  ShrinkIsConfirmed
  RoundEnds
