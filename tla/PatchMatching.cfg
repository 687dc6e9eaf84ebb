CONSTANTS
  v1 = v1
  v2 = v2
  o1 = o1
  o2 = o2
  NumFrames    = 3
  NumTiles     = 2
  MaxPatches   = 3
  Views        <- MCViews
  Orientations <- MCOrientations
  Segments     <- MCSegments
  Modes        <- MCModes
  Segmentations <- MCSegmentations
SPECIFICATION Spec
CHECK_DEADLOCK FALSE
INVARIANT IndicesNameTheirPatch
INVARIANT PatchesDecoded
INVARIANT PatchesKept
INVARIANT EomOfItsPatches
