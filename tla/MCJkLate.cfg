SPECIFICATION Spec
CONSTANTS
  READS <- MCReads
  ALARM = 2
  MAX_CELLS = 0
  JK_CELL_CHANGE_DEBOUNCE = 1
  JK_MODBUS_RX_BUFF_SIZE = 2
  JK_MODBUS_TIMEOUT = 1
  JK_MODBUS_POLL = 1
  JK_MODBUS_RETRY = 2
  JK_DATA_TIMEOUT = 3
  OpenRetry = 1
  BusCap = 2
  PendingCap = 1
INVARIANT
  RoundIsOwn
