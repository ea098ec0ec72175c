SPECIFICATION Spec
CONSTANTS
  GapCap = 3
  MaxScans = 1
  MaxFaults = 0
  RpcCounts = {2, 58}
  Refresh = 2
  RxCap = 3
  MaxAsks <- MCNoAsks
  MaxRpcs = 0
PROPERTY ScanIsOver
CHECK_DEADLOCK FALSE
