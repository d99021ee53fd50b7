CONSTANTS
  a = a
  b = b
  Names = {a, b}
  NoName = NoName
  Bucket <- MCBucket
  MaxActs = 3
  MaxHandles = 4
SYMMETRY Symmetric
SPECIFICATION FilesSpec
INVARIANTS
  DbIsSound
  InStep
CHECK_DEADLOCK FALSE
