---------------------- MODULE MCSegmentationRefinement ----------------------
(* A TLC instance of SegmentationRefinement: four points on a line, each a   *)
(* neighbour of itself and of the next ones, two labels.                     *)
EXTENDS SegmentationRefinement

CONSTANTS w1, w2

MCItems    == 1 .. 4
MCWorkers  == {w1, w2}
MCLabels   == {0, 1}
MCAdjacent == [i \in MCItems |-> {n \in MCItems : n \in i - 1 .. i + 1}]

(* point 1 is biased to one plane; the others follow the majority and keep
   their label in a tie *)
MCBest(i, s, l) ==
  IF s[0] + (IF i = 1 THEN 1 ELSE 0) > s[1] THEN 0
  ELSE IF s[1] > s[0] THEN 1 ELSE l
=============================================================================
