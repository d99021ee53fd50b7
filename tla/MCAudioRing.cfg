SPECIFICATION RingFairSpec
CONSTANTS
  FrameCount = 4
  Rates <- MCRates
  Samples = 2
  BatchSize = 2
  MaxTries = 2
  MaxBatch = 3
  MaxFed = 7
INVARIANTS
  RingHoldsBacklog
  NoDrift
PROPERTIES
  BatchReturns
  FifoSpec
CHECK_DEADLOCK FALSE
