CONSTANTS
  w1 = w1
  w2 = w2
  NoItem   = 0
  Items    <- MCItems
  Workers  <- MCWorkers
  Values   = {0, 1, 2}
  Default  = 0
  Smoothed <- MCSmoothed
SPECIFICATION Spec
CHECK_DEADLOCK FALSE
INVARIANT ColoursSmoothed
