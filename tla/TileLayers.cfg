SPECIFICATION Spec
CONSTANTS
  MinLevel = 4
  Levels = 4
  Block = 4
  Unit = 4
  ThresholdMod = 4
  ByteMod = 8
  GarbageSizes = {0, 3}
  Groups <- MCGroups
INVARIANT PatchesRebuilt
INVARIANT DepthDoesNotDrift
INVARIANT BlockMapsAgree
INVARIANT AuxiliaryAsCoded
