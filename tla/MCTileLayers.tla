---------------------------- MODULE MCTileLayers ----------------------------
(***************************************************************************)
(* Groups of up to three frames, each family about one of the losses:      *)
(* depths, widths, block maps and auxiliary rows.                          *)
(***************************************************************************)
EXTENDS TileLayers

Patch(best, ref, depth, pixels) ==
  [best |-> best, ref |-> ref, depth |-> depth, pixels |-> pixels]

Depth == 0 .. MaxDepth

Zeros(frames, tiles) == [f \in 1 .. frames |-> [t \in 1 .. tiles |-> 0]]

Coded(frames, raw) ==
  [frames |-> frames, plr |-> FALSE, patchSize |-> 2,
   present |-> FALSE, quantizer |-> Block, raw |-> raw]

(* chains of three predictions over all depths, to the frame before or to *)
(* the first one                                                          *)
DepthGroups ==
  {Coded(<< <<<<Patch(NoMatch, 0, d[1], 1)>>>>, <<<<Patch(0, 0, d[2], 1)>>>>,
            <<<<Patch(0, r, d[3], 1)>>>> >>, Zeros(3, 1))
     : d \in [1 .. 3 -> Depth], r \in 0 .. 1}

(* all pairs of widths, with every quantiser, one of them coarser than a block *)
WidthGroups ==
  {[Coded(<< <<<<Patch(NoMatch, 0, 0, w[1])>>>>, <<<<Patch(0, 0, 0, w[2])>>>> >>,
          Zeros(2, 1)) EXCEPT !.present = q # 0, !.quantizer = IF q = 0 THEN Block ELSE q]
     : w \in [1 .. 2 -> 1 .. 2 * Block + 1], q \in {0, 1, Block \div 2, Block, 2 * Block}}

(* block maps: two patches per frame, matched in either order *)
Bests == {<<NoMatch, NoMatch>>, <<0, NoMatch>>, <<1, NoMatch>>, <<0, 1>>, <<1, 0>>}
Widths == {1, 2 * Block + 1}

Pair(best, ref, w) == <<Patch(best[1], ref, 0, w[1]), Patch(best[2], ref, 0, w[2])>>

MapGroups ==
  {[Coded(<< <<Pair(<<NoMatch, NoMatch>>, 0, w[1])>>, <<Pair(b[1], 0, w[2])>>,
             <<Pair(b[2], r, w[3])>> >>, Zeros(3, 1))
      EXCEPT !.plr = TRUE, !.patchSize = s]
     : w \in [1 .. 3 -> Widths \X Widths], b \in [1 .. 2 -> Bests], r \in 0 .. 1, s \in {0, 2, 3}}

(* the same with two tiles of one patch, with a quantiser, and with        *)
(* thresholds around the two field widths                                  *)
Single(best, w) == <<Patch(best, 0, 0, w)>>

TileMapGroups ==
  {[Coded(<< <<Single(NoMatch, w[1]), Single(NoMatch, w[2])>>,
             <<Single(b[1], w[3]), Single(b[2], w[4])>> >>, Zeros(2, 2))
      EXCEPT !.plr = TRUE] : w \in [1 .. 4 -> Widths], b \in [1 .. 2 -> {NoMatch, 0}]}
  \cup
  {[Coded(<< <<Single(NoMatch, w[1])>>, <<Single(0, w[2])>> >>, Zeros(2, 1))
      EXCEPT !.plr = TRUE, !.patchSize = s, !.present = q < Block, !.quantizer = q]
     : w \in [1 .. 2 -> {n * Block : n \in 1 .. ThresholdMod + 2}],
       s \in 0 .. ByteMod + 1, q \in {Block \div 2, Block}}

(* raw patches of one or two tiles in three frames *)
RawGroups ==
  {Coded([f \in 1 .. 3 |-> [t \in 1 .. n |-> <<>>]], [f \in 1 .. 3 |-> [t \in 1 .. n |-> h[f][t]]])
     : n \in 1 .. 2, h \in [1 .. 3 -> {0, Unit - 1, Unit + 1} \X {0, Unit}]}

MCGroups == DepthGroups \cup WidthGroups \cup MapGroups \cup TileMapGroups \cup RawGroups
=============================================================================
