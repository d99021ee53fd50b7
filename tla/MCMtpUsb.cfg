CONSTANTS
  Blocks = 2
  MaxTx = 4
  MaxFaults = 3
SPECIFICATION Spec
INVARIANTS
  TransferIsSound
PROPERTIES
  DropIsSafe
  Served
CHECK_DEADLOCK FALSE
