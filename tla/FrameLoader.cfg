CONSTANTS
  w1 = w1
  w2 = w2
  NoItem     = 99
  FrameCount = 5
  Items      <- MCItems
  Workers    <- MCWorkers
SPECIFICATION FairSpec
CHECK_DEADLOCK FALSE
INVARIANT LastMayBeMissing
INVARIANT CountIsOfMissing
INVARIANT LoadedUpToGap
PROPERTY Ends
