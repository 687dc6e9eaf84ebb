----------------------------- MODULE TileLayers -----------------------------
(***************************************************************************)
(* The way of a group's patches through its tile layers.  The encoder      *)
(* codes the tiles of all frames, frame by frame; the reader parses the    *)
(* tile layers in the same order; the decoder rebuilds the patches from    *)
(* them.  A patch is coded by itself or as the difference from a patch of  *)
(* the same tile in an earlier frame, and each of the three sides finds    *)
(* that patch in its own way: the encoder and the decoder in the frame the *)
(* reference names, the reader (which needs the size of the patch's block  *)
(* map to know how much to read) in the tile layer it parsed last.         *)
(*                                                                         *)
(* Patches are as the segmenter, the matching and the packing leave them:  *)
(* [best, ref, depth, pixels].  Heights and widths are coded alike: one    *)
(* dimension is modelled, a map of n blocks stands for any map of n.       *)
(***************************************************************************)
EXTENDS PatchValues, TileInformation

CONSTANTS
  Groups,         \* the groups of frames to code
  ThresholdMod,   \* 2 ^ (width of the coded block threshold), 64 in the code
  ByteMod,        \* 2 ^ (width of uint8_t), 256
  GarbageSizes    \* what sizes a read past the end of the units may find

NoMatch == -1     \* g_invalidPatchIndex

PatchType == [best : Nat \cup {NoMatch}, ref : Nat, depth : 0 .. MaxDepth, pixels : Nat \ {0}]

(* frames[f][t] are the patches of a tile, raw[f][t] the pixels of its raw   *)
(* points; every frame has the tiles of the first                            *)
ASSUME GroupAssumption ==
  \A g \in Groups :
    /\ g \in [frames : Seq(Seq(Seq(PatchType))), raw : Seq(Seq(Nat)), plr : BOOLEAN,
              patchSize : Nat, present : BOOLEAN, quantizer : Nat \ {0}]
    /\ Len(g.frames) # 0 /\ Len(g.frames[1]) # 0 /\ Len(g.raw) = Len(g.frames)
    /\ \A f \in 1 .. Len(g.frames) :
         Len(g.frames[f]) = Len(g.frames[1]) /\ Len(g.raw[f]) = Len(g.frames[1])
(* groups as the matching leaves them: a match is a patch of the same tile   *)
(* in one of the frames before                                               *)
ASSUME MatchAssumption ==
  \A g \in Groups :
    \A f \in 2 .. Len(g.frames), t \in 1 .. Len(g.frames[1]) :
      \A i \in DOMAIN g.frames[f][t] :
        LET p == g.frames[f][t][i]
        IN  p.best # NoMatch =>
              /\ p.ref \in 0 .. f - 2
              /\ p.best + 1 \in DOMAIN g.frames[f - 1 - p.ref][t]
(* both are powers of two: the encoder codes their logarithms                *)
ASSUME QuantizerAssumption ==
  \A g \in Groups : g.quantizer <= Block => Block % g.quantizer = 0

(* six bits fit a byte *)
ASSUME ThresholdAssumption ==
  ThresholdMod \in Nat \ {0} /\ ByteMod \in Nat /\ ThresholdMod <= ByteMod

VARIABLES
  group,     \* what is coded; raw[f][t] are the pixels of its raw patches
  phase,     \* "encode", "read", "build", "done" or "lost"
  layers,    \* the tile layers coded so far
  sets,      \* the tile information of the AFPS list
  sizeD,     \* the encoder's depth ranges: [frame][tile] -> sequence
  parsed,    \* the reader's tile layers so far
  rebuilt    \* the decoder's tiles: [frame][tile] -> sequence of patches

vars == <<group, phase, layers, sets, sizeD, parsed, rebuilt>>

NumFrames == Len(group.frames)
NumTiles  == Len(group.frames[1])
NumLayers == NumFrames * NumTiles

(* frame and tile of the i-th tile layer; frames, tiles and patches are *)
(* numbered from 1                                                      *)
FrameOf(i) == (i - 1) \div NumTiles + 1
TileOf(i)  == ((i - 1) % NumTiles) + 1

Patches(f, t) == group.frames[f][t]

TileType(f, t) ==
  IF f > 1 /\ \E i \in DOMAIN Patches(f, t) : Patches(f, t)[i].best # NoMatch
  THEN "P_TILE" ELSE "I_TILE"

(* in an I tile the matches are thrown away *)
IsInter(f, t, i) == TileType(f, t) = "P_TILE" /\ Patches(f, t)[i].best # NoMatch

(* the frame a reference index names: the list is the frames before, in order *)
RefFrame(f, ref) == f - 1 - ref

Blocks(p) == BlocksOf(p.pixels)
Pixels(p) == PixelsOf(p.pixels, group.quantizer)

-----------------------------------------------------------------------------
(***************************************************************************)
(* Encoder.                                                                *)
(***************************************************************************)
(* predIndex before patch i, accumulated over the inter patches before it *)
PredIndex(f, t) ==
  LET pred[i \in 1 .. Len(Patches(f, t))] ==
        IF i = 1 THEN 0
        ELSE IF ~IsInter(f, t, i - 1) THEN pred[i - 1]
        ELSE pred[i - 1] + (Patches(f, t)[i - 1].best - pred[i - 1]) + 1
  IN  pred

(* the reference is coded from the running index *)
RefPatchIndex(f, t, i) == Patches(f, t)[i].best - PredIndex(f, t)[i]

(* the depth range patch i is coded with, given those of the frames before *)
RangeAfter(f, t, i) ==
  LET p == Patches(f, t)[i]
  IN  IF IsInter(f, t, i)
      THEN EncodedSizeD(p.depth, sizeD[RefFrame(f, p.ref)][t][p.best + 1])
      ELSE SegmentedSizeD(p.depth)

InterUnit(f, t, i) ==
  LET p   == Patches(f, t)[i]
      old == Patches(RefFrame(f, p.ref), t)[p.best + 1]
  IN  [inter |-> TRUE, ref |-> p.ref, refPatch |-> RefPatchIndex(f, t, i),
       size  |-> InterSize(group.present, group.quantizer,
                           Pixels(p), Blocks(p), Pixels(old), Blocks(old)),
       range |-> InterRange(p.depth, sizeD[RefFrame(f, p.ref)][t][p.best + 1]),
       map   |-> Blocks(p)]

IntraUnit(f, t, i) ==
  LET p == Patches(f, t)[i]
  IN  [inter |-> FALSE, ref |-> 0, refPatch |-> 0,
       size  |-> IntraSize(group.present, group.quantizer, Pixels(p), Blocks(p)),
       range |-> IntraRange(SegmentedSizeD(p.depth)),
       map   |-> Blocks(p)]

Units(f, t) ==
  [i \in DOMAIN Patches(f, t) |->
     IF IsInter(f, t, i) THEN InterUnit(f, t, i) ELSE IntraUnit(f, t, i)]

Heights(f) == placeAuxiliaryPointsTiles(group.raw[f])

(* the AFPS list when frame f has found or added its set *)
SetsFor(f) ==
  IF f = 1 THEN <<generateAfti(Heights(1))>>
  ELSE WithInformation(sets, generateAfti(Heights(f)))

SetOf(f) == IF f = 1 THEN 1 ELSE IndexOf(SetsFor(f), generateAfti(Heights(f)))

(* createPatchFrameDataStructure for the next tile *)
EncodeTile ==
  /\ phase = "encode" /\ Len(layers) < NumLayers
  /\ LET f == FrameOf(Len(layers) + 1)
         t == TileOf(Len(layers) + 1)
     IN  /\ sets' = SetsFor(f)
         /\ layers' = Append(layers,
              [frame |-> f, tile |-> t, type |-> TileType(f, t), afps |-> SetOf(f),
               units |-> Units(f, t), raw |-> group.raw[f][t] > 0])
         /\ sizeD' = [sizeD EXCEPT ![f][t] =
                        [i \in DOMAIN Patches(f, t) |-> RangeAfter(f, t, i)]]
  /\ UNCHANGED <<group, phase, parsed, rebuilt>>

EndEncode ==
  /\ phase = "encode" /\ Len(layers) = NumLayers
  /\ phase' = "read"
  /\ UNCHANGED <<group, layers, sets, sizeD, parsed, rebuilt>>

-----------------------------------------------------------------------------
(***************************************************************************)
(* Point local reconstruction.  A patch of few blocks has one mode, a      *)
(* larger one a mode per block; the number of blocks from which on the     *)
(* stream says which is a parameter of the sequence, coded in six bits.    *)
(***************************************************************************)
OneMode(blocks) == blocks = 1 \/ blocks <= group.patchSize

(* the threshold the writer compares with, and the one the reader read *)
WriterThreshold == ((group.patchSize - 1) % ByteMod) + 1
ReaderThreshold == ((WriterThreshold - 1) % ThresholdMod) + 1

(* the flags in front of the modes as a side sees them: whether the level is *)
(* coded, and the number of modes                                            *)
Shape(blocks, coded, oneMode) == <<coded, IF oneMode THEN 1 ELSE blocks>>

WrittenShape(blocks) == Shape(blocks, blocks > WriterThreshold, OneMode(blocks))

(* the reader takes a level that is not coded for one mode *)
ReadShape(blocks, written) ==
  Shape(blocks, blocks > ReaderThreshold,
        IF blocks > ReaderThreshold THEN OneMode(written) ELSE TRUE)

(* the reader stays in step when it reads the bits the writer wrote *)
InStep(written, read) == read >= 0 /\ WrittenShape(written) = ReadShape(read, written)

-----------------------------------------------------------------------------
(***************************************************************************)
(* Reader.                                                                 *)
(***************************************************************************)
(* mutant: the running patch index is not advanced by a predicted patch *)
ReaderIndex_NotAdvanced(units, i) == units[i].refPatch

(* predPatchIndex_ + RefPatchIndex; the first is advanced by inter patches *)
ReaderIndex(units, i) ==
  LET pred[j \in 1 .. i] ==
        IF j = 1 THEN 0
        ELSE IF units[j - 1].inter THEN pred[j - 1] + units[j - 1].refPatch + 1
        ELSE pred[j - 1]
  IN  pred[i] + units[i].refPatch

(* the sizes the map of unit i of the tile layer being parsed may get *)
MapSizes(units, i) ==
  IF ~units[i].inter THEN {units[i].size + 1}
  ELSE LET last == parsed[Len(parsed)].maps
           k    == ReaderIndex(units, i) + 1
       IN  {units[i].size + n : n \in IF k \in DOMAIN last THEN {last[k]} ELSE GarbageSizes}

(* the flag of a tile's raw patches as read: 0 when it is not coded *)
FlagRead(layer) == layer.raw /\ CodesFlag(sets[layer.afps], layer.tile)

ReadTile ==
  /\ phase = "read" /\ Len(parsed) < Len(layers)
  /\ LET layer == layers[Len(parsed) + 1]
         units == layer.units
     IN  IF ~group.plr
         THEN /\ parsed' = Append(parsed, [maps |-> <<>>, flag |-> FlagRead(layer)])
              /\ UNCHANGED phase
         ELSE \E maps \in [DOMAIN units -> UNION {MapSizes(units, i) : i \in DOMAIN units}] :
                /\ \A i \in DOMAIN units : maps[i] \in MapSizes(units, i)
                /\ parsed' = Append(parsed, [maps |-> maps, flag |-> FlagRead(layer)])
                /\ phase' = IF \A i \in DOMAIN units : InStep(units[i].map, maps[i])
                            THEN "read" ELSE "lost"
  /\ UNCHANGED <<group, layers, sets, sizeD, rebuilt>>

EndRead ==
  /\ phase = "read" /\ Len(parsed) = Len(layers)
  /\ phase' = "build"
  /\ UNCHANGED <<group, layers, sets, sizeD, parsed, rebuilt>>

-----------------------------------------------------------------------------
(***************************************************************************)
(* Decoder.                                                                *)
(***************************************************************************)
(* BestMatchIdx of unit i: RefPatchIndex + predIndex *)
BestMatchIdx(units, i) == ReaderIndex(units, i)

Rebuild(f, t, units, i) ==
  LET u == units[i]
  IN  IF ~u.inter
      THEN LET w == DecodedIntra(group.present, group.quantizer, u.size)
           IN  [sizeD |-> FromSteps(u.range % Levels), pixels |-> w[1], blocks |-> w[2]]
      ELSE LET old == rebuilt[RefFrame(f, u.ref)][t][BestMatchIdx(units, i) + 1]
               w   == DecodedInter(group.present, group.quantizer, u.size,
                                   old.pixels, old.blocks)
           IN  [sizeD |-> DecodedSizeD(u.range, old.sizeD), pixels |-> w[1], blocks |-> w[2]]

Built == MapThenSumSet(LAMBDA f : Len(rebuilt[f]), 1 .. NumFrames)

BuildTile ==
  /\ phase = "build" /\ Built < Len(layers)
  /\ LET layer == layers[Built + 1]
     IN  rebuilt' = [rebuilt EXCEPT ![layer.frame] = Append(@,
           [i \in DOMAIN layer.units |->
              Rebuild(layer.frame, layer.tile, layer.units, i)])]
  /\ UNCHANGED <<group, phase, layers, sets, sizeD, parsed>>

EndBuild ==
  /\ phase = "build" /\ Built = Len(layers)
  /\ phase' = "done"
  /\ UNCHANGED <<group, layers, sets, sizeD, parsed, rebuilt>>

(* a stream the reader has lost is not followed further *)
Finished ==
  /\ phase \in {"done", "lost"}
  /\ UNCHANGED vars

-----------------------------------------------------------------------------
Init ==
  /\ group \in Groups
  /\ phase = "encode"
  /\ layers = <<>> /\ sets = <<>> /\ parsed = <<>>
  /\ sizeD = [f \in 1 .. Len(group.frames) |-> [t \in 1 .. Len(group.frames[1]) |-> <<>>]]
  /\ rebuilt = [f \in 1 .. Len(group.frames) |-> <<>>]

Next == \/ EncodeTile \/ EndEncode
        \/ ReadTile \/ EndRead
        \/ BuildTile \/ EndBuild
        \/ Finished

Spec == Init /\ [][Next]_vars

-----------------------------------------------------------------------------
(***************************************************************************)
(* Properties.                                                             *)
(***************************************************************************)
(* the patches rebuilt so far, as <<frame, tile, patch>> *)
RebuiltPatches ==
  UNION {UNION {{<<f, t, i>> : i \in DOMAIN rebuilt[f][t]} : t \in DOMAIN rebuilt[f]} :
           f \in 1 .. NumFrames}

(* Every patch the decoder rebuilds has the depth range the encoder went   *)
(* on with (which it clamps and the decoder does not, PCCEncoder.cpp:8203) *)
(* and covers as many blocks, provided the quantiser is not coarser than   *)
(* a block; each is found through its own copy of the running index.       *)
PatchesRebuilt ==
  \A x \in RebuiltPatches :
    LET d == rebuilt[x[1]][x[2]][x[3]]
        p == Patches(x[1], x[2])[x[3]]
    IN  /\ d.sizeD = sizeD[x[1]][x[2]][x[3]]
        /\ group.present => d.pixels = Pixels(p)
        /\ (group.present => group.quantizer <= Block) => d.blocks = Blocks(p)

(* However long the chain of predictions, the depth range the decoder has  *)
(* for a patch is at most one step off the patch's largest depth: the      *)
(* rounding of one frame is not added to that of the next, because the     *)
(* encoder predicts from the coded range (PCCEncoder.cpp:8199-8205).       *)
DepthDoesNotDrift ==
  \A x \in RebuiltPatches :
    LET err == rebuilt[x[1]][x[2]][x[3]].sizeD - Patches(x[1], x[2])[x[3]].depth
    IN  -MinLevel <= err /\ err <= MinLevel

(* With one tile, references to the frame before only, sizes in blocks and *)
(* a threshold that fits its six bits, the reader gives every patch a      *)
(* block map of the size it was written with, and stays in step            *)
(* (PCCBitstreamReader.cpp:1211-1247).  All four conditions are needed.    *)
PreviousFrameOnly ==
  \A i \in 1 .. Len(layers) : \A u \in DOMAIN layers[i].units : layers[i].units[u].ref = 0

BlockMapsAgree ==
  group.plr /\ NumTiles = 1 /\ PreviousFrameOnly
    /\ ~group.present /\ group.patchSize \in 1 .. ThresholdMod
  => /\ phase # "lost"
     /\ \A i \in 1 .. Len(parsed) : \A u \in DOMAIN layers[i].units :
          parsed[i].maps[u] = layers[i].units[u].map

(* With several tiles every frame's tile information gives the decoder the *)
(* rows its raw patches were put into, and every raw patch keeps its flag; *)
(* with one tile the flag is lost exactly in a frame with raw patches of a *)
(* group whose first frame has none (PCCAtlasFrameTileInformationRbsp.h:71 *)
(* compares nothing else), and the decoder's height is Unit times too big. *)
AuxiliaryAsCoded ==
  \A i \in 1 .. Len(parsed) :
    LET layer == layers[i]
        rows  == setTileSizeAndLocation(sets[layer.afps])
    IN  IF NumTiles = 1
        THEN /\ parsed[i].flag # layer.raw <=> layer.raw /\ group.raw[1][1] = 0
             /\ layer.frame = 1 => rows[1] = Unit * Heights(1)[1]
        ELSE /\ parsed[i].flag = layer.raw
             /\ TopOf(rows, layer.tile) = TopOf(Heights(layer.frame), layer.tile)
=============================================================================
