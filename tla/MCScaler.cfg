SPECIFICATION Spec
CONSTANTS
  Calls <- MCCalls
  Widths = {0, 1, 7, 8, 17, 32, 49}
  Heights = {0, 1, 2, 3}
  MaxRow = 102
INVARIANTS
  DrawsExactly
PROPERTIES
  Returns
