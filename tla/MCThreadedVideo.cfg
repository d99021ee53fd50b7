SPECIFICATION FairSpec
CONSTANTS
  Buttons <- AllButtons
  MaxInputs = 3
INVARIANTS
  CoreRunExclusive
  CreatesOneThread
  MenuPausesCore
PROPERTIES
  NoLostWakeup
  QuitLeavesLoop
