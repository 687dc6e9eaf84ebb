CONSTANTS
  w1 = w1
  w2 = w2
  NoItem         = 0
  Items          <- MCItems
  Workers        <- MCWorkers
  Neighbourhoods <- MCNeighbourhoods
  Iterations     = 2
  Values         = {0, 1, 2}
  Default        = 0
  Smoothed       <- MCSmoothed
SPECIFICATION MCSpec
CHECK_DEADLOCK FALSE
SYMMETRY MCSymmetry
INVARIANT SmoothedInOrder
INVARIANT IterationsInStep
INVARIANT GeometrySmoothed
PROPERTY Synchronous
