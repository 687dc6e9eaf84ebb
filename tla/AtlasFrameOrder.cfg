CONSTANTS
  HalfLsb       = 2
  MaxFrame      = 6
  NumTiles      = 2
  NumRefEntries = 3
  MaxAhead      = 2
  MaxBack       = 1
  SizeMod       = 64
  Garbage      <- MCGarbage
SPECIFICATION Spec
INVARIANT AfocExact
INVARIANT FramesCutExactly
INVARIANT ReferencesAsEncoded
PROPERTY ReferencesComplete
CHECK_DEADLOCK FALSE
