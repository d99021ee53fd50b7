SPECIFICATION Spec
CONSTANTS
  Keys <- MCKeys
  Axes <- MCAxes
  TOGGLE_FF <- MCToggle
  HOLD_FF <- MCHold
  Starts <- MCStarts
  Others <- MCOthers
  Controls <- MCControls
  DEFER_FRAMES = 3
  MaxMoves = 5
  MaxQueue = 2
INVARIANTS
  ButtonsFollow
  PowerIsSafe
PROPERTIES
  NoMenuAfterCombo
  Settles
CHECK_DEADLOCK FALSE
