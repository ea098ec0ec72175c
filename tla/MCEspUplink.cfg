SPECIFICATION Spec
CONSTANTS
  EN = "pulse"
  Channels = {TRUE, FALSE}
  CALLS = {"c1"}
  UrcCap = 2
  MaxFaults = 1
  BATCH = 2
  FAIL_MAX = 2
  MaxAsks = 1
PROPERTIES
  ReconnectsUnlessBlind
  RequestServed
