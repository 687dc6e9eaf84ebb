CONSTANTS
  GofSize      = 2
  MaxFrames    = 5
  MaxMaps      = 2
  MaxParts     = 1
  VpsIds       = 2
  SizeChoices <- MCSizeChoices
SPECIFICATION Spec
INVARIANT GroupsReassembled
INVARIANT VideosUnambiguous
INVARIANT StatisticsAgree
PROPERTY AllGroupsDecoded
PROPERTY DeliverySpec
CHECK_DEADLOCK FALSE
