CONSTANTS
  g = g
  h = h
  m = m
  Games = {g, h, m}
  DiscCount <- MCDiscCount
  Names = {"Favorites", "c"}
  ByHand <- MCByHand
  MAX_RECENTS = 3
  MaxActs = 5
SYMMETRY Symmetric
SPECIFICATION ListsSpec
INVARIANTS
  ListsAreRight
PROPERTIES
  ListsAreKept
CHECK_DEADLOCK FALSE
