CONSTANTS
  ByteBits = 2
  Sizes   <- MCSizes
  MaxUnits = 3
  Forced   = {0, 2}
SPECIFICATION FileSpec
INVARIANT UnitsReadBack
INVARIANT OnlyPowersFail
PROPERTY FileIsRead
CHECK_DEADLOCK FALSE
