-------------------------- MODULE MCGroupParameters --------------------------
(* TLC instances of GroupParameters: two groups of three frames and two      *)
(* workers.                                                                  *)
EXTENDS GroupParameters, TLC

CONSTANTS w1, w2

MCItems     == 1 .. 3
MCWorkers   == {w1, w2}
MCSymmetry  == Permutations(MCWorkers)

Lossy(plr, maps, interleaved) ==
  [pointLocalReconstruction |-> plr, mapCountMinus1 |-> maps, singleMapPixelInterleaving |-> interleaved,
   rawPointsPatch |-> FALSE, tileSegmentationType |-> 0, numMaxTilePerFrame |-> 1]

(* raw points: one tile, one or two regions of interest, three tiles by patch size *)
Tiled(type, tiles) ==
  [Lossy(FALSE, 1, FALSE) EXCEPT !.rawPointsPatch = TRUE, !.tileSegmentationType = type, !.numMaxTilePerFrame = tiles]

MCOptions ==
  {Lossy(FALSE, 0, FALSE), Lossy(TRUE, 0, FALSE), Lossy(FALSE, 0, TRUE), Lossy(TRUE, 1, FALSE),
   Tiled(0, 1), Tiled(1, 1), Tiled(1, 2), Tiled(2, 3)}
==============================================================================
