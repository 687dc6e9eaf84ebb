-------------------------- MODULE TileInformation --------------------------
(***************************************************************************)
(* Which rows of the auxiliary video the tiles of a frame own, and how a   *)
(* frame finds the parameter set that says so.  Raw points are put into    *)
(* that video in rows of whole units (64 pixels); the heights are written  *)
(* into the tile information of an atlas frame parameter set (AFPS); a     *)
(* frame takes the first AFPS whose tile information equals its own, or a  *)
(* new copy of the first one.                                              *)
(***************************************************************************)
EXTENDS Integers, Sequences, FiniteSetsExt

CONSTANT Unit   \* the alignment of the rows: 64 pixels

ASSUME UnitAssumption == Unit \in Nat \ {0}

(* heights of the tiles of a frame whose raw points take the given pixels *)
placeAuxiliaryPointsTiles(pixels) ==
  [t \in DOMAIN pixels |-> ((pixels[t] + (Unit - 1)) \div Unit) * Unit]

(* first row of a tile: both sides add up the heights of the tiles before it *)
TopOf(heights, t) == MapThenSumSet(LAMBDA i : heights[i], 1 .. t - 1)

(* the tile information of a frame: for one tile the height is written as *)
(* it is, for several in units                                            *)
generateAfti(heights) ==
  [single |-> Len(heights) = 1,
   rows   |-> IF Len(heights) = 1 THEN heights
              ELSE [t \in DOMAIN heights |-> heights[t] \div Unit]]

(* mutant: the heights are never looked at *)
SameInformation_NoRows(a, b) == a.single = b.single

(* operator==: with one tile nothing else is compared.  The partition into  *)
(* tiles is the same in all frames here                                     *)
SameInformation(a, b) ==
  /\ a.single = b.single
  /\ ~a.single => a.rows = b.rows

(* the parameter set of a frame, and the list with it *)
IndexOf(list, afti) == Min({i \in 1 .. Len(list) : SameInformation(afti, list[i])})

WithInformation(list, afti) ==
  IF \E i \in 1 .. Len(list) : SameInformation(afti, list[i]) THEN list
  ELSE Append(list, afti)

(* the decoder's heights *)
setTileSizeAndLocation(afti) == [t \in DOMAIN afti.rows |-> afti.rows[t] * Unit]

(* the flag that says a patch is in the auxiliary video is in the stream *)
(* only for a tile that has rows                                         *)
CodesFlag(afti, t) == afti.rows[t] # 0
=============================================================================
