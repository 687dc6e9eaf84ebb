---------------------------- MODULE PatchValues ----------------------------
(***************************************************************************)
(* The numbers of a patch that are coded with a loss: its depth range, in  *)
(* steps of MinLevel, and its width, in blocks or in steps of a quantiser. *)
(* A patch of its own (intra) codes the value, a predicted one (inter) the *)
(* difference from the patch it refers to; the encoder replaces its own    *)
(* depth range by the coded one, because later patches are predicted from  *)
(* it.  Offsets and depths are numbers of the two-dimensional range        *)
(* 0 .. MaxDepth.                                                          *)
(***************************************************************************)
EXTENDS Integers

CONSTANTS
  MinLevel,   \* minLevel_: the step of depths
  Levels,     \* 2 ^ (geometry bit depth) / MinLevel: the depths a range can say
  Block       \* occupancyResolution_: pixels in a block

ASSUME LevelAssumption == MinLevel \in Nat \ {0} /\ Levels \in Nat \ {0}
ASSUME BlockAssumption == Block \in Nat \ {0}

MaxDepth == Levels * MinLevel - 1

Least(a, b)    == IF a <= b THEN a ELSE b
Greatest(a, b) == IF a <= b THEN b ELSE a

(* division of C++: towards zero *)
Quot(a, b) == IF a >= 0 THEN a \div b ELSE -((-a) \div b)

Ceiling(a, b) == (a + (b - 1)) \div b

-----------------------------------------------------------------------------
(***************************************************************************)
(* Depth ranges.                                                           *)
(***************************************************************************)
(* a number of steps as a depth: the last value of the last step *)
FromSteps(k) == IF k = 0 THEN 0 ELSE k * MinLevel - 1

(* the range the segmenter gives a patch whose largest depth is depth *)
SegmentedSizeD(depth) ==
  FromSteps(Least(IF depth = 0 THEN 0 ELSE (depth - 1) \div MinLevel + 1, Levels - 1))

(* intra: the coded steps *)
IntraRange(sizeD) == IF sizeD = 0 THEN 0 ELSE (sizeD + 1) \div MinLevel

(* inter: the coded steps between the largest depth and the reference's range *)
InterRange(depth, refSizeD) ==
  IF depth = refSizeD THEN 0 ELSE Quot((depth - refSizeD) + 1, MinLevel)

ClampDepth(x) == Least(Greatest(x, 0), MaxDepth)

(* mutant: the encoder goes on with the range the segmenter found *)
EncodedSizeD_NotReplaced(depth, refSizeD) == SegmentedSizeD(depth)

(* the range the encoder goes on with for an inter patch *)
EncodedSizeD(depth, refSizeD) ==
  ClampDepth(refSizeD + FromSteps(InterRange(depth, refSizeD)))

(* mutant: the step's end is subtracted from negative differences too *)
DecodedSizeD_Symmetric(range, refSizeD) ==
  refSizeD + (IF range < 0 THEN range * MinLevel + 1 ELSE FromSteps(range))

(* the decoder's: no bound is applied *)
DecodedSizeD(range, refSizeD) == refSizeD + FromSteps(range)

-----------------------------------------------------------------------------
(***************************************************************************)
(* Widths.  present says that patch sizes are coded in steps of q pixels   *)
(* (asps_patch_size_quantizer_present_flag), otherwise in blocks.          *)
(***************************************************************************)
(* the segmenter's two widths of a patch whose points span pixels columns *)
BlocksOf(pixels)     == (pixels - 1) \div Block + 1
PixelsOf(pixels, q)  == Ceiling(pixels, q) * q

(* intra: the coded size *)
IntraSize(present, q, px, blocks) ==
  IF present THEN (px - 1) \div q ELSE blocks - 1

(* inter: the difference of the two *)
InterSize(present, q, px, blocks, refPx, refBlocks) ==
  IF present THEN px \div q - refPx \div q ELSE blocks - refBlocks

(* what the decoder makes of them: <<pixels, blocks>>; without a quantiser  *)
(* it leaves the pixels at 0                                                *)
DecodedIntra(present, q, size) ==
  IF present THEN <<(size + 1) * q, Ceiling((size + 1) * q, Block)>>
             ELSE <<0, size + 1>>

DecodedInter(present, q, size, refPx, refBlocks) ==
  IF present THEN <<refPx + size * q, Ceiling(refPx + size * q, Block)>>
             ELSE <<0, size + refBlocks>>
=============================================================================
