SPECIFICATION Spec
CONSTANTS
  GapCap = 3
  MaxScans = 0
  MaxFaults = 1
  RpcCounts = {2, 58}
  Refresh = 2
  RxCap = 3
  MaxAsks <- MCNoAsks
  MaxRpcs = 1
INVARIANT CallIsOwn
CHECK_DEADLOCK FALSE
