SPECIFICATION FairSpec
CONSTANTS
  CAPACITY = 2
  Sample <- MCSample
  NoSample = NoSample
  Snapshot <- MCSnapshot
  NoSnapshot = NoSnapshot
  MAX_CELLS = 1
  CELL_COUNT = 0
  MaxOffset = 2
  MaxPushed = 4
  MaxEncodeFail = 1
INVARIANTS
  RingHoldsNewest
  WindowsOrdered
  PayloadFaithful
  NoSilentLoss
PROPERTIES
  ImplementsDelivery
  EventuallySettled
