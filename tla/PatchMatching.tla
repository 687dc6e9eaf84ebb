----------------------------- MODULE PatchMatching -----------------------------
(***************************************************************************)
(* The index by which an inter patch names the patch of an earlier frame.  *)
(* The encoder matches the patches of a frame with those of the frame      *)
(* before it and puts the matched ones first; it then splits the frame into*)
(* tiles, may match again against several reference frames, may reverse the*)
(* order of every list, and at last codes each index relative to the one   *)
(* before it.  Each of these steps changes the lists the indices point     *)
(* into, and has to move the indices along.  The decoder takes what it is  *)
(* not sent - the view and the orientation of an inter patch - from the    *)
(* patch it finds at the index, and adds the differences it is sent to that*)
(* patch's position.                                                       *)
(*                                                                         *)
(* Which patch a frame's patch is matched with depends on how much they    *)
(* overlap or how many bits the difference costs: any choice the tests on  *)
(* view, tile and orientation allow can be the best one.  A patch's        *)
(* position stands for everything coded as a difference.                   *)
(*                                                                         *)
(* The points between the two maps of a patch (EOM points) are coded per   *)
(* tile: an EOM patch lists the patches that have such points by index, and*)
(* is made with the tiles, before the lists change again.                  *)
(***************************************************************************)
EXTENDS Integers, Sequences, SequencesExt

CONSTANTS
  NumFrames,     \* frames of the group (bound)
  NumTiles,      \* tiles of a frame
  MaxPatches,    \* bound: patches of a frame
  Views,         \* values of a patch's view id: the plane it is projected on
  Orientations,  \* values of its orientation in the atlas
  Segments,      \* the kinds of patches: view, tile, orientation, with EOM points or without
  Modes,         \* the settings [ refs, reverse, eom ] to be tried
  Segmentations  \* bound: for each setting, the lists of patches segmentation finds

ASSUME FrameAssumption == NumFrames \in Nat \ {0} /\ NumTiles \in Nat \ {0} /\ MaxPatches \in Nat
ASSUME ModeAssumption  == Modes \subseteq [refs : Nat \ {0}, reverse : BOOLEAN, eom : BOOLEAN]
ASSUME SegmentAssumption ==
  /\ Segments \subseteq [view : Views, tile : 0 .. NumTiles - 1, orient : Orientations, eom : BOOLEAN]
  /\ \A m \in Modes : Segmentations[m] \subseteq BoundedSeq(Segments, MaxPatches)

Frames == 0 .. NumFrames - 1
Tiles  == 0 .. NumTiles - 1

invalid == -1    \* g_invalidPatchIndex

VARIABLES
  mode,     \* maxNumRefAtlasFrame_, patchPrecedenceOrderFlag_, enhancedOccupancyMapCode_
  phase,    \* "place", "adjust", "reconstruct", "reverse", "code", "decode", "done" or "stuck"
  frame,    \* the frame the current loop is at
  title,    \* the patches of each frame, in the order they were placed
  tiles,    \* the patches of each tile of each frame
  members,  \* memberPatches_ of each tile's EOM patch
  eomAdded, \* the patches whose EOM points the encoder added to its cloud, in order
  units,    \* the coded tile: its type, its patch data units and its EOM patch
  decoded,  \* the patches of each tile, as the decoder has built them
  eomFound  \* the patches whose EOM points the decoder added, in order

vars == <<mode, phase, frame, title, tiles, members, eomAdded, units, decoded, eomFound>>
decVars == <<decoded, eomFound>>

(* index k, counted from 0; a read outside of the list has no defined result
   (IndicesNameTheirPatch says where there is one) *)
NoPatch == [pos |-> invalid, view |-> "none", orient |-> "none"]
At(list, k) == IF k + 1 \in DOMAIN list THEN list[k + 1] ELSE NoPatch

Mapped(list, Op(_)) == [i \in DOMAIN list |-> Op(list[i])]

(* the elements at the given places, in their order: a loop that pushes back
   the elements that pass a test *)
Chosen(list, places) ==
  LET chosen[k \in 0 .. Len(list)] ==
        IF k = 0 THEN <<>>
        ELSE IF k \in places THEN Append(chosen[k - 1], list[k]) ELSE chosen[k - 1]
  IN  chosen[Len(list)]

-----------------------------------------------------------------------------
(***************************************************************************)
(* Placing the patches of a frame.                                         *)
(***************************************************************************)

Matchable(patch, cpatch) == patch.view = cpatch.view /\ patch.tile = cpatch.tile

(* mutant: a matched patch keeps its own orientation *)
Placed_OwnOrientation(prev, refs, new, f, k) ==
  [pos    |-> f * MaxPatches + k,
   view   |-> new[k].view,
   tile   |-> new[k].tile,
   orient |-> new[k].orient,
   eom    |-> new[k].eom,
   best   |-> IF k <= Len(refs) THEN refs[k] - 1 ELSE invalid,
   ref    |-> 0,
   match  |-> IF k <= Len(refs) THEN prev[refs[k]].pos ELSE invalid,
   indexInFrame |-> k - 1]

(* patch k in the new order: the matched ones come first, in the order of the
   patches they are matched with, and take their orientation from these.
   "match" is not in the code: it remembers which patch was chosen. *)
Placed(prev, refs, new, f, k) ==
  [pos    |-> f * MaxPatches + k,
   view   |-> new[k].view,
   tile   |-> new[k].tile,
   orient |-> IF k <= Len(refs) THEN prev[refs[k]].orient ELSE new[k].orient,
   eom    |-> new[k].eom,
   best   |-> IF k <= Len(refs) THEN refs[k] - 1 ELSE invalid,
   ref    |-> 0,
   match  |-> IF k <= Len(refs) THEN prev[refs[k]].pos ELSE invalid,
   indexInFrame |-> k - 1]

(* mutant: the indices still count the patches of the frame *)
RemapBest_Kept(best, prevTile) == best

(* from an index among the frame's patches to one among the tile's *)
RemapBest(best, prevTile) ==
  LET scan[k \in 0 .. Len(prevTile)] ==
        IF k = 0 THEN best
        ELSE IF prevTile[k].indexInFrame = scan[k - 1] THEN k - 1 ELSE scan[k - 1]
  IN  IF best = invalid THEN best ELSE scan[Len(prevTile)]

(* mutant: a patch is also copied to the tiles before its own *)
TilePatches_Shared(patches, t) == Chosen(patches, {i \in DOMAIN patches : patches[i].tile >= t})

TilePatches(patches, t) == Chosen(patches, {i \in DOMAIN patches : patches[i].tile = t})

(* the EOM patch of a tile lists the patches with EOM points *)
EomMembers(list) == Chosen([i \in DOMAIN list |-> i - 1], {i \in DOMAIN list : list[i].eom})

(* spatialConsistencyPack* followed by the tiles of generateTilesFromImage.
   With one tile the frame's patches are the tile's and keep their indices. *)
PlaceFrame(new, matched) ==
  /\ phase = "place"
  /\ LET prev == IF frame = 0 THEN <<>> ELSE title[frame - 1]
         refs == Chosen([k \in DOMAIN prev |-> k], matched)
         list == [k \in DOMAIN new |-> Placed(prev, refs, new, frame, k)]
     IN  /\ matched \subseteq DOMAIN prev
         /\ Len(refs) <= Len(new)
         /\ \A k \in DOMAIN refs : Matchable(prev[refs[k]], new[k])
         /\ title' = [title EXCEPT ![frame] = list]
         /\ tiles' = [tiles EXCEPT ![frame] =
              [t \in Tiles |->
                 IF frame = 0 THEN TilePatches(list, t)
                 ELSE Mapped(TilePatches(list, t),
                          LAMBDA p : [p EXCEPT !.best = RemapBest(@, tiles[frame - 1][t])])]]
         /\ members' = [members EXCEPT ![frame] =
              [t \in Tiles |-> IF mode.eom THEN EomMembers(TilePatches(list, t)) ELSE <<>>]]
  /\ \/ frame + 1 < NumFrames /\ frame' = frame + 1 /\ UNCHANGED phase
     \/ frame + 1 = NumFrames /\ frame' = 2 /\ phase' = "adjust"
  /\ UNCHANGED <<mode, eomAdded, units, decVars>>

-----------------------------------------------------------------------------
(***************************************************************************)
(* Matching again, against every frame of the reference list.              *)
(***************************************************************************)
MinOf(a, b) == IF a < b THEN a ELSE b

RefAfoc(f, ref) == f - (ref + 1)

Rematchable(patch, cpatch) == patch.view = cpatch.view /\ patch.orient = cpatch.orient

(* the patches the patches of tile t of frame f can be predicted from *)
Candidates(f, t) ==
  UNION {{[ref |-> ref, best |-> b - 1] : b \in DOMAIN tiles[RefAfoc(f, ref)][t]} :
           ref \in 0 .. MinOf(f, mode.refs) - 1}

RefPatch(f, t, c) == At(tiles[RefAfoc(f, c.ref)][t], c.best)

(* the outcome of the comparison of costs: each patch keeps at most one
   reference patch, and no reference patch is given to two patches *)
ValidChoice(f, t, choice) ==
  LET used == {i \in DOMAIN choice : choice[i].best # invalid}
  IN  /\ \A i \in used : Rematchable(RefPatch(f, t, choice[i]), tiles[f][t][i])
      /\ \A i, j \in used : choice[i] = choice[j] => i = j

Unmatched == [ref |-> 0, best |-> invalid]

MatchChoices(f, t) ==
  {choice \in [DOMAIN tiles[f][t] -> Candidates(f, t) \cup {Unmatched}] : ValidChoice(f, t, choice)}

(* the gain of a list is the sum over its inter patches: without any, no list
   is better than nothing, and the tile gets the empty list it started from *)
Adjusted(f, t, choice) ==
  IF \A i \in DOMAIN choice : choice[i].best = invalid THEN <<>>
  ELSE [i \in DOMAIN choice |->
          [tiles[f][t][i] EXCEPT !.best  = choice[i].best,
                                 !.ref   = choice[i].ref,
                                 !.match = IF choice[i].best = invalid THEN invalid
                                           ELSE RefPatch(f, t, choice[i]).pos]]

adjustReferenceAtlasFrames ==
  /\ phase = "adjust"
  /\ mode.refs # 1 /\ frame < NumFrames
  /\ \E choice \in {c \in [Tiles -> UNION {MatchChoices(frame, t) : t \in Tiles}] :
                      \A t \in Tiles : c[t] \in MatchChoices(frame, t)} :
       tiles' = [tiles EXCEPT ![frame] = [t \in Tiles |-> Adjusted(frame, t, choice[t])]]
  /\ frame' = frame + 1
  /\ UNCHANGED <<mode, phase, title, members, eomAdded, units, decVars>>

EndAdjust ==
  /\ phase = "adjust"
  /\ mode.refs = 1 \/ frame >= NumFrames
  /\ phase' = "reconstruct"
  /\ UNCHANGED <<mode, frame, title, tiles, members, eomAdded, units, decVars>>

-----------------------------------------------------------------------------
(***************************************************************************)
(* Reconstructing, reversing, coding and decoding.                         *)
(***************************************************************************)

(* the encoder's own reconstruction, before the lists are reversed *)
generatePointCloud ==
  /\ phase = "reconstruct"
  /\ eomAdded' = [f \in Frames |-> [t \in Tiles |->
                    Mapped(members[f][t], LAMBDA m : At(tiles[f][t], m).pos)]]
  /\ phase' = "reverse"
  /\ UNCHANGED <<mode, frame, title, tiles, members, units, decVars>>

ReversedIndex(best, len) == len - best - 1

ReversedTile(f, t) ==
  Reverse(Mapped(tiles[f][t], LAMBDA p :
    IF p.best = invalid THEN p
    ELSE [p EXCEPT !.best = ReversedIndex(@, Len(tiles[f - 1][t]))]))

ReverseOrder ==
  /\ phase = "reverse"
  /\ tiles' = IF mode.reverse THEN [f \in Frames |-> [t \in Tiles |-> ReversedTile(f, t)]] ELSE tiles
  /\ phase' = "code"
  /\ UNCHANGED <<mode, frame, title, members, eomAdded, units, decVars>>

(* what patch i's index is coded relative to: one more than the last one *)
PredIndex(list) ==
  LET pred[i \in 1 .. Len(list) + 1] ==
        IF i = 1 THEN 0
        ELSE IF list[i - 1].best = invalid THEN pred[i - 1] ELSE list[i - 1].best + 1
  IN  pred

RefPatchIndex(list, i) == list[i].best - PredIndex(list)[i]

IntraUnit(p) == [mode |-> "INTRA", pos |-> p.pos, view |-> p.view, orient |-> p.orient]

InterUnit(f, t, i) ==
  LET p == tiles[f][t][i]
  IN  [mode          |-> "INTER",
       refIndex      |-> p.ref,
       refPatchIndex |-> RefPatchIndex(tiles[f][t], i),
       delta         |-> p.pos - At(tiles[RefAfoc(f, p.ref)][t], p.best).pos]

TileType(f, t) ==
  IF f # 0 /\ \E i \in DOMAIN tiles[f][t] : tiles[f][t][i].best # invalid THEN "P_TILE" ELSE "I_TILE"

CodeTile(f, t) ==
  [type    |-> TileType(f, t),
   patches |-> [i \in DOMAIN tiles[f][t] |->
                  IF tiles[f][t][i].best # invalid THEN InterUnit(f, t, i)
                  ELSE IntraUnit(tiles[f][t][i])],
   eom     |-> members[f][t]]

(* an EOM patch is coded by its number of patches minus one *)
EmptyEom == mode.eom /\ \E f \in Frames, t \in Tiles : members[f][t] = <<>>

(* without any patch that number wraps to 2^32 - 1: an assertion says it does
   not, and the loop that writes it in a build without assertions never ends *)
CodeEmptyEom ==
  /\ phase = "code" /\ EmptyEom
  /\ phase' = "stuck"
  /\ UNCHANGED <<mode, frame, title, tiles, members, eomAdded, units, decVars>>

(* the encoder's createPatchFrameDataStructure, for all frames and tiles *)
CodeGroup ==
  /\ phase = "code" /\ ~EmptyEom
  /\ units' = [f \in Frames |-> [t \in Tiles |-> CodeTile(f, t)]]
  /\ phase' = "decode"
  /\ frame' = 0
  /\ UNCHANGED <<mode, title, tiles, members, eomAdded, decVars>>

(* the decoder's predIndex in front of unit i *)
DecoderPredIndex(list) ==
  LET pred[i \in 1 .. Len(list) + 1] ==
        IF i = 1 THEN 0
        ELSE IF list[i - 1].mode = "INTRA" THEN pred[i - 1]
             ELSE pred[i - 1] + list[i - 1].refPatchIndex + 1
  IN  pred

DecodeUnit(f, t, i) ==
  LET list == units[f][t].patches
      unit == list[i]
  IN  IF unit.mode = "INTRA" THEN [pos |-> unit.pos, view |-> unit.view, orient |-> unit.orient]
      ELSE LET best     == unit.refPatchIndex + DecoderPredIndex(list)[i]
               refPatch == At(decoded[RefAfoc(f, unit.refIndex)][t], best)
           IN  [pos |-> unit.delta + refPatch.pos, view |-> refPatch.view, orient |-> refPatch.orient]

(* mutant: the decoder's reconstruction forgets that its lists are reversed *)
MemberPatchIdx_Forward(m, len) == m

(* the decoder's reconstruction counts from the end where the lists are reversed *)
MemberPatchIdx(m, len) == IF mode.reverse THEN len - m - 1 ELSE m

(* the decoder's createPatchFrameDataStructure and generatePointCloud, for the
   tiles of a frame *)
DecodeFrame ==
  /\ phase = "decode"
  /\ LET list == [t \in Tiles |-> [i \in DOMAIN units[frame][t].patches |-> DecodeUnit(frame, t, i)]]
     IN  /\ decoded' = [decoded EXCEPT ![frame] = list]
         /\ eomFound' = [eomFound EXCEPT ![frame] = [t \in Tiles |->
              Mapped(units[frame][t].eom, LAMBDA m : At(list[t], MemberPatchIdx(m, Len(list[t]))).pos)]]
  /\ \/ frame + 1 < NumFrames /\ frame' = frame + 1 /\ UNCHANGED phase
     \/ frame + 1 = NumFrames /\ phase' = "done" /\ UNCHANGED frame
  /\ UNCHANGED <<mode, title, tiles, members, eomAdded, units>>

-----------------------------------------------------------------------------
NoTiles == [f \in Frames |-> [t \in Tiles |-> <<>>]]

Init ==
  /\ mode     \in Modes
  /\ phase    = "place"
  /\ frame    = 0
  /\ title    = [f \in Frames |-> <<>>]
  /\ tiles    = NoTiles
  /\ members  = NoTiles
  /\ eomAdded = NoTiles
  /\ units    = NoTiles
  /\ decoded  = NoTiles
  /\ eomFound = NoTiles

Next ==
  \/ \E new \in Segmentations[mode], matched \in SUBSET (1 .. MaxPatches) :
       PlaceFrame(new, matched)
  \/ adjustReferenceAtlasFrames
  \/ EndAdjust
  \/ generatePointCloud
  \/ ReverseOrder
  \/ CodeEmptyEom
  \/ CodeGroup
  \/ DecodeFrame

Spec == Init /\ [][Next]_vars

-----------------------------------------------------------------------------
(***************************************************************************)
(* Properties.                                                             *)
(***************************************************************************)

(* An index is invalid or one of a list of at most MaxPatches; one that the
   reversal has moved can lie in front of its list. *)
TypeOK ==
  /\ mode \in Modes
  /\ phase \in {"place", "adjust", "reconstruct", "reverse", "code", "decode", "done", "stuck"}
  /\ frame \in Nat
  /\ \A f \in Frames, t \in Tiles :
       \A i \in DOMAIN tiles[f][t] :
         LET p == tiles[f][t][i]
         IN  p.view \in Views /\ p.orient \in Orientations /\ p.eom \in BOOLEAN /\ p.ref \in 0 .. mode.refs - 1
             /\ p.best \in -MaxPatches .. MaxPatches - 1

Settled == phase \in {"code", "decode", "done"}

(* The reversal counts from the end of the list of the frame just before: an
   index into another frame's list moves when that one has another length. *)
IndexMoved(f, t, p) ==
  mode.reverse /\ p.ref > 0 /\ Len(tiles[RefAfoc(f, p.ref)][t]) # Len(tiles[f - 1][t])

(* After all reordering, splitting and reversing, the index of every inter
   patch names the patch that was matched with it, in the list of the frame
   and tile the coder and the decoder will look it up in
   (spatialConsistencyPack*, the remapping in generateTilesFromImage,
   adjustReferenceAtlasFrames, the reversal in createPatchFrameDataStructure).
   The one exception: patch precedence together with several reference
   frames, when the lists of the frame before and of the reference frame
   differ in length. *)
IndicesNameTheirPatch ==
  Settled =>
    \A f \in Frames, t \in Tiles : \A i \in DOMAIN tiles[f][t] :
      LET p == tiles[f][t][i]
      IN  p.best # invalid /\ ~IndexMoved(f, t, p) =>
            /\ RefAfoc(f, p.ref) >= 0
            /\ p.best + 1 \in DOMAIN tiles[RefAfoc(f, p.ref)][t]
            /\ At(tiles[RefAfoc(f, p.ref)][t], p.best).pos = p.match

(* The decoder rebuilds every patch of every tile as the encoder has it: what
   it adds differences to, and what it inherits without being sent anything,
   comes from a patch of the same view and orientation, along any chain of
   references (the two createPatchFrameDataStructure).  A group in which an
   index has moved is left out: there a patch inherits from the wrong one. *)
PatchesDecoded ==
  phase = "done" /\ (\A f \in Frames, t \in Tiles : \A i \in DOMAIN tiles[f][t] :
                       ~IndexMoved(f, t, tiles[f][t][i])) =>
    \A f \in Frames, t \in Tiles :
      decoded[f][t] = Mapped(tiles[f][t], LAMBDA p : [pos |-> p.pos, view |-> p.view, orient |-> p.orient])

Positions(list) == Mapped(list, LAMBDA p : p.pos)

(* with several reference frames a tile of which no patch finds a reference is
   emptied *)
Emptied(f, t) == mode.refs # 1 /\ f >= 2 /\ tiles[f][t] = <<>>

(* The decoder adds the EOM points of the same patches in the same order as the
   encoder, whose attributes were put in the video in that order, and both add
   those of every patch that has some, once: the list is made before the
   patches are reversed or matched again and is sent as it is (generatePointCloud
   with memberPatchIdx).  A tile that was emptied is the exception: its EOM patch
   still lists the patches that are gone. *)
EomOfItsPatches ==
  phase = "done" /\ mode.eom =>
    \A f \in Frames, t \in Tiles :
      \/ eomFound[f][t] = eomAdded[f][t]
         /\ eomAdded[f][t] = Positions(Chosen(title[f], {i \in DOMAIN title[f] : title[f][i].tile = t /\ title[f][i].eom}))
      \/ Emptied(f, t)

(* No step between the placing of the patches and their coding loses, repeats
   or moves one to another tile, except for one case: with several reference
   frames a tile of which no patch finds a reference is emptied
   (adjustReferenceAtlasFrames). *)
PatchesKept ==
  Settled =>
    \A f \in Frames, t \in Tiles :
      LET own == Positions(Chosen(title[f], {i \in DOMAIN title[f] : title[f][i].tile = t}))
      IN  \/ Positions(tiles[f][t]) = IF mode.reverse THEN Reverse(own) ELSE own
          \/ Emptied(f, t)

================================================================================
