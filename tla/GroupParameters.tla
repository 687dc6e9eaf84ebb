---------------------------- MODULE GroupParameters ----------------------------
(***************************************************************************)
(* The parameters of the encoder that PCCEncoder::encode changes while it  *)
(* codes a group of frames, from one group to the next.                    *)
(*                                                                         *)
(* It decides once per group whether it keeps the reconstruction mode the  *)
(* options ask for (point local reconstruction or single-map pixel         *)
(* interleaving).  The segmentation of each frame, a task of a parallel    *)
(* loop, measures how far the frame is from what can be reconstructed; the *)
(* tasks add this to one float without any lock; and a group whose mean    *)
(* distance is too large is coded without the mode.  Adding to the shared  *)
(* float is a read and a write: what another worker adds in between is     *)
(* lost.  The mode is put back at the end of the group.                    *)
(*                                                                         *)
(* It also adds a tile for the raw points to the number of tiles.          *)
(***************************************************************************)
EXTENDS ParallelFor, Integers, FiniteSetsExt

CONSTANTS
  Distances,   \* what the segmentation of a frame may measure
  Threshold,   \* 250, the mean distance at which the mode is given up
  Options,     \* the parameters the program may be started with
  MaxGroups    \* bound of the model

Parameters ==
  [pointLocalReconstruction : BOOLEAN, mapCountMinus1 : 0 .. 1, singleMapPixelInterleaving : BOOLEAN,
   rawPointsPatch : BOOLEAN, tileSegmentationType : 0 .. 2, numMaxTilePerFrame : Nat]

ASSUME ParametersAssumption ==
  /\ Distances \subseteq Nat
  /\ Threshold \in Nat
  /\ Options \subseteq Parameters
  /\ MaxGroups \in Nat

VARIABLES
  options,   \* what the program was started with (not in the code)
  params,    \* params_ of the encoder
  original,  \* the params_ of which encode keeps the mode in locals
  distance,  \* what is measured for each frame of the group
  sum,       \* sumDistanceSrcRec
  read,      \* the sum a worker has read and will add to
  phase,     \* "start", "segment", "place", "code" or "exit14"
  group

groupVars == <<options, original, distance, group>>
parameterVars == <<groupVars, params, sum, read, phase, todo, busy>>

NotRead == -1

GroupInit ==
  /\ options \in Options
  /\ params = options
  /\ original = options
  /\ distance \in [Items -> Distances]
  /\ sum = 0
  /\ read = [w \in Workers |-> NotRead]
  /\ phase = "start"
  /\ group = 0
  /\ todo = Items
  /\ busy = Idle

(* mutant: a single tile gets one for the raw points too *)
HasRawTile_AnyCount(p) == p.rawPointsPatch /\ p.tileSegmentationType > 0

HasRawTile(p) == p.rawPointsPatch /\ p.tileSegmentationType > 0 /\ p.numMaxTilePerFrame > 1

StartGroup ==
  /\ phase = "start"
  /\ group < MaxGroups
  /\ original' = params
  /\ params' = IF HasRawTile(params) THEN [params EXCEPT !.numMaxTilePerFrame = @ + 1] ELSE params
  /\ distance' \in [Items -> Distances]
  /\ sum' = 0
  /\ phase' = "segment"
  /\ StartLoop
  /\ UNCHANGED <<options, read, group>>

(* generateSegments for one frame *)
SegmentFrame(w) ==
  /\ phase = "segment"
  /\ \E i \in todo : Take(w, i)
  /\ UNCHANGED <<groupVars, params, sum, read, phase>>

ReadSum(w) ==
  /\ phase = "segment"
  /\ busy[w] # NoItem
  /\ read[w] = NotRead
  /\ read' = [read EXCEPT ![w] = sum]
  /\ UNCHANGED <<groupVars, params, sum, phase, todo, busy>>

(* mutant: the distance is added for each of the two maps *)
Added_Twice(w) == read[w] + 2 * distance[busy[w]]

Added(w) == read[w] + distance[busy[w]]

WriteSum(w) ==
  /\ phase = "segment"
  /\ read[w] # NotRead
  /\ sum' = Added(w)
  /\ read' = [read EXCEPT ![w] = NotRead]
  /\ Release(w)
  /\ UNCHANGED <<groupVars, params, phase>>

(* mutant: the test is left out *)
TooFar_None(s) == FALSE

TooFar(s) == s >= Threshold * Cardinality(Items)

HasMode(p) == p.pointLocalReconstruction \/ p.singleMapPixelInterleaving

Decide ==
  /\ phase = "segment"
  /\ LoopEnded
  /\ params' = IF HasMode(params) /\ TooFar(sum)
               THEN [params EXCEPT !.pointLocalReconstruction = FALSE, !.mapCountMinus1 = 1,
                                   !.singleMapPixelInterleaving = FALSE]
               ELSE params
  /\ phase' = "place"
  /\ UNCHANGED <<groupVars, sum, read, todo, busy>>

(* the tiles the regions of the options give, and one for the raw points *)
PlacedTiles == options.numMaxTilePerFrame + (IF options.rawPointsPatch THEN 1 ELSE 0)

(* placeSegments: tiles made from the image have to be as many as expected *)
PlaceSegments ==
  /\ phase = "place"
  /\ phase' = IF params.tileSegmentationType = 1 /\ params.numMaxTilePerFrame # PlacedTiles THEN "exit14" ELSE "code"
  /\ UNCHANGED <<groupVars, params, sum, read, todo, busy>>

(* mutant: the number of maps is not put back *)
EndGroup_MapsKept ==
  /\ phase = "code"
  /\ params' = [params EXCEPT !.pointLocalReconstruction   = original.pointLocalReconstruction,
                              !.singleMapPixelInterleaving = original.singleMapPixelInterleaving]
  /\ phase' = "start"
  /\ group' = group + 1
  /\ UNCHANGED <<options, original, distance, sum, read, todo, busy>>

EndGroup ==
  /\ phase = "code"
  /\ params' = [params EXCEPT !.pointLocalReconstruction   = original.pointLocalReconstruction,
                              !.mapCountMinus1             = original.mapCountMinus1,
                              !.singleMapPixelInterleaving = original.singleMapPixelInterleaving]
  /\ phase' = "start"
  /\ group' = group + 1
  /\ UNCHANGED <<options, original, distance, sum, read, todo, busy>>

GroupNext ==
  \/ StartGroup
  \/ \E w \in Workers : SegmentFrame(w) \/ ReadSum(w) \/ WriteSum(w)
  \/ Decide
  \/ PlaceSegments
  \/ EndGroup

GroupSpec == GroupInit /\ [][GroupNext]_parameterVars

-----------------------------------------------------------------------------
ParametersTypeOK ==
  /\ LoopTypeOK
  /\ options \in Options /\ params \in Parameters /\ original \in Parameters
  /\ distance \in [Items -> Distances]
  /\ sum \in Nat
  /\ read \in [Workers -> Nat \cup {NotRead}]
  /\ phase \in {"start", "segment", "place", "code", "exit14"}
  /\ group \in 0 .. MaxGroups

TrueSum == MapThenSumSet(LAMBDA i : distance[i], Items)

Decided     == phase \in {"place", "code", "exit14"}
SwitchedOff == Decided /\ HasMode(options) /\ ~HasMode(params)

(* Updates lost between the workers only lower the sum: a group is coded without
   the mode it was asked for only where its frames are too far (the test on the
   mean distance in generateSegments). *)
OnlyFarSwitchedOff == SwitchedOff => TrueSum >= Threshold * Cardinality(Items)

(* The last update always counts, so that a group of which each frame alone is
   far enough for the whole group is never coded with the mode. *)
FarSwitchedOff ==
  (/\ Decided /\ HasMode(options)
   /\ \A i \in Items : distance[i] >= Threshold * Cardinality(Items)) => SwitchedOff

ModeOf(p) == <<p.pointLocalReconstruction, p.mapCountMinus1, p.singleMapPixelInterleaving>>

(* What one group decides is gone before the next one begins: every group is
   segmented with the mode of the options (encode's three saved locals). *)
ModeRestored == phase \in {"start", "segment"} => ModeOf(params) = ModeOf(options)

GroupsStarted == group + (IF phase = "start" THEN 0 ELSE 1)

(* The tile that encode adds for the raw points is never taken back: the number
   of tiles grows with every group.  With tiles made from regions the first group
   alone is coded, and not even that one where there is a single region (encode's
   addition to params_, and the check that generateTilesFromImage ends in). *)
RawTilesAccumulate ==
  /\ params.numMaxTilePerFrame - options.numMaxTilePerFrame \in {0, GroupsStarted}
  /\ (phase = "code" /\ options.rawPointsPatch /\ options.tileSegmentationType = 1) =>
       group = 0 /\ options.numMaxTilePerFrame > 1
================================================================================
