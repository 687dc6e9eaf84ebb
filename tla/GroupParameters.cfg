CONSTANTS
  w1 = w1
  w2 = w2
  NoItem    = 0
  Items     <- MCItems
  Workers   <- MCWorkers
  Distances = {0, 1, 2, 6}
  Threshold = 2
  Options   <- MCOptions
  MaxGroups = 2
SPECIFICATION GroupSpec
CHECK_DEADLOCK FALSE
SYMMETRY MCSymmetry
INVARIANT OnlyFarSwitchedOff
INVARIANT FarSwitchedOff
INVARIANT ModeRestored
INVARIANT RawTilesAccumulate
