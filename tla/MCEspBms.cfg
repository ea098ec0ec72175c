SPECIFICATION Spec
CONSTANTS
  GapCap = 3
  MaxScans = 1
  MaxFaults = 2
  RpcCounts = {2, 58}
  Refresh = 2
  RxCap = 3
  MaxAsks <- MCMaxAsks
  MaxRpcs = 1
INVARIANT BlocksKeepApart
INVARIANT WrittenIsKept
PROPERTY RequestAnswered
PROPERTY Recovers
CHECK_DEADLOCK FALSE
