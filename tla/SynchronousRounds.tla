--------------------------- MODULE SynchronousRounds ---------------------------
(***************************************************************************)
(* What a parallel pass over the points of a cloud promises: in each round *)
(* every point gets the value the rule gives it for the values ALL points  *)
(* had before the round, whoever computes it and when.                     *)
(***************************************************************************)
EXTENDS Naturals

CONSTANTS
  Points,
  Values,
  Limit,   \* number of rounds
  Rule     \* Rule[i][v]: the value of point i after a round that starts from v

VARIABLES value, round

Init == value \in [Points -> Values] /\ round = 0

Round ==
  /\ round < Limit
  /\ value' = [i \in Points |-> Rule[i][value]]
  /\ round' = round + 1

Spec == Init /\ [][Round]_<<value, round>>
================================================================================
