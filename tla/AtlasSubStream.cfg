CONSTANTS
  ByteBits   = 3
  MaxFrames  = 2
  MaxTiles   = 2
  MaxAfps    = 2
  HeaderBits = {5, 6, 7}
  DataBytes  = {1, 2}
SPECIFICATION Spec
INVARIANT MessagesAttached
INVARIANT OnlyBoundaryFails
INVARIANT SmoothingPersists
PROPERTY GroupReconstructed
CHECK_DEADLOCK FALSE
