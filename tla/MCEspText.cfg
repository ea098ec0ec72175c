SPECIFICATION Spec
CONSTANTS
  EN = "pulse"
  Channels = {FALSE}
  CALLS = {"c1"}
  UrcCap = 2
  MaxFaults = 0
  BATCH = 2
  FAIL_MAX = 2
  MaxAsks = 1
PROPERTY Reconnects
