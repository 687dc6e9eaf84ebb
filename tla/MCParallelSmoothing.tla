------------------------ MODULE MCParallelSmoothing ------------------------
(* A TLC instance of ParallelSmoothing: four points on a line, smoothed to  *)
(* the mean of a point and its neighbours.                                  *)
EXTENDS ParallelSmoothing

CONSTANTS w1, w2

MCItems   == 1 .. 4
MCWorkers == {w1, w2}

(* the rounded mean of the values around a point *)
MCSmoothed(i, v) ==
  LET left  == IF i = 1 THEN v[1] ELSE v[i - 1]
      right == IF i = 4 THEN v[4] ELSE v[i + 1]
  IN  (left + v[i] + right + 1) \div 3
=============================================================================
