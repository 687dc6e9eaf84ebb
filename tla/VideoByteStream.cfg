CONSTANTS
  Codings  <- MCCodings
  Units    <- MCUnits
  MaxNalUnits = 3
  Precision   = 4
SPECIFICATION VideoSpec
CHECK_DEADLOCK FALSE
INVARIANT UnitsSurvive
INVARIANT SamplesAreUnits
