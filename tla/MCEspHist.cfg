SPECIFICATION HistSpec
CONSTANTS
  Samples <- MCSamples
  BatchSettings = {0, 9}
  MAX_SAMPLES = 5
  MAX_CELLS = 3
  MAX_SIZE = 27
INVARIANT MessageIsBatch
INVARIANT NoPlainIsShorter
