CONSTANTS
  w1 = w1
  w2 = w2
  NoItem     = 0
  Items      <- MCItems
  Workers    <- MCWorkers
  Labels     <- MCLabels
  Adjacent   <- MCAdjacent
  Best       <- MCBest
  Iterations = 3
SPECIFICATION RefinementSpec
CHECK_DEADLOCK FALSE
PROPERTY Synchronous
