CONSTANTS
  Games = {g1, g2}
  CoreKeys = {c}
  Systems <- MCSystems
  Defaults <- MCDefaults
  MaxActs = 4
  MaxLaunches = 3
SPECIFICATION Spec
SYMMETRY Symmetric
INVARIANTS
  Effective
  SavedReturns
  InForce
CHECK_DEADLOCK FALSE
