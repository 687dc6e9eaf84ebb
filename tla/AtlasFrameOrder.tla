--------------------------- MODULE AtlasFrameOrder ---------------------------
(***************************************************************************)
(* How the decoder recovers which frame an atlas tile layer belongs to.    *)
(* A tile header carries only the least significant bits of its frame's    *)
(* atlas frame order count (AFOC).  The decoder derives the full count of  *)
(* every tile layer of a group of frames from the one before it, sizes its *)
(* frame list from the largest, and then builds the tiles one by one:      *)
(* a change of the count starts a frame (it is laid out once), the last    *)
(* tile layer of a count ends it (its hash is computed), and a P tile      *)
(* takes its patches from the frames its reference list names.             *)
(***************************************************************************)
EXTENDS Integers, Sequences

CONSTANTS
  HalfLsb,        \* half of 2 ^ ( asps_log2_max_atlas_frame_order_cnt_lsb )
  MaxFrame,       \* bound: the frames of a group are numbered 0 .. MaxFrame
  NumTiles,       \* tiles of every frame
  NumRefEntries,  \* entries of the ASPS reference list (maxNumRefAtlasFrame_)
  MaxAhead,       \* a coded frame is at most this far after the previous one
  MaxBack,        \*   or at most this far before it
  SizeMod,        \* 2 ^ (width of size_t), capped
  Garbage         \* what a read past the end of a std::vector may return

MaxLsb == 2 * HalfLsb

ASSUME LsbAssumption   == HalfLsb \in Nat \ {0}
ASSUME FrameAssumption == MaxFrame \in Nat /\ NumTiles \in Nat \ {0}
                          /\ NumRefEntries \in Nat \ {0}
(* the range of displacements the derivation can tell apart; the encoder   *)
(* of this repository codes the frames in order (MaxAhead = 1, MaxBack = 0)*)
ASSUME OrderAssumption == MaxAhead \in 1 .. HalfLsb /\ MaxBack \in 0 .. HalfLsb - 1
ASSUME WidthAssumption == SizeMod \in Nat /\ SizeMod > MaxFrame + MaxLsb
ASSUME GarbageAssumption == Garbage \subseteq Int

Frames    == 0 .. MaxFrame
TileTypes == {"I_TILE", "P_TILE"}

TileLayers == [frame : Frames, tile : 0 .. NumTiles - 1, type : TileTypes]

VARIABLES
  phase,    \* "read", "derive", "build" or "done"
  coded,    \* the tile layers in coding order, as their writer meant them
  afoc,     \* the derived counts: [ msb, val ] per tile layer
  next,     \* the tile layer the current loop is at
  context   \* the decoder's frames, numbered 1 .. frameCount

vars == <<phase, coded, afoc, next, context>>

(* the header's field: the low bits of the frame order count *)
calculateAFOCLsb(frame) == frame % MaxLsb

Lsb(i) == calculateAFOCLsb(coded[i].frame)

(* size_t subtraction *)
SubSizeT(a, b) == IF a >= b THEN a - b ELSE (a + SizeMod) - b

(* mutant: half a period ahead is taken for a step back *)
AfocMsb_TieBack(lsb, prevLsb, prevMsb) ==
  IF lsb < prevLsb /\ prevLsb - lsb >= HalfLsb THEN prevMsb + MaxLsb
  ELSE IF lsb > prevLsb /\ lsb - prevLsb >= HalfLsb THEN SubSizeT(prevMsb, MaxLsb)
  ELSE prevMsb

(* the most significant part of the count of tile layer i from the one before *)
AfocMsb(lsb, prevLsb, prevMsb) ==
  IF lsb < prevLsb /\ prevLsb - lsb >= HalfLsb THEN prevMsb + MaxLsb
  ELSE IF lsb > prevLsb /\ lsb - prevLsb > HalfLsb THEN SubSizeT(prevMsb, MaxLsb)
  ELSE prevMsb

calculateAFOCval(i) ==
  LET msb == IF i = 1 THEN 0 ELSE AfocMsb(Lsb(i), Lsb(i - 1), afoc[i - 1].msb)
  IN  [msb |-> msb, val |-> msb + Lsb(i)]

-----------------------------------------------------------------------------
(***************************************************************************)
(* Reference lists.                                                        *)
(***************************************************************************)
MinOf(a, b) == IF a < b THEN a ELSE b

(* the encoder's list: the frames 1, 2, .. NumRefEntries before this one *)
EncoderRefAfocList(frame) == [j \in 1 .. MinOf(NumRefEntries, frame) |-> frame - j]

EncoderNumRefIdxActive(frame) == MinOf(frame, NumRefEntries)

(* mutant: the default is left in force while the list is still short *)
OverrideFlag_FullListOnly(frame) ==
  LET active == EncoderNumRefIdxActive(frame)
  IN  active > 0 /\ frame >= NumRefEntries /\ active # NumRefEntries

(* num_ref_idx_active_override_flag: afps_num_ref_idx_default_active_minus1 + 1
   and the ASPS list both have NumRefEntries entries, so the two branches on
   the size of the list ask the same question *)
OverrideFlag(frame) ==
  LET active == EncoderNumRefIdxActive(frame)
  IN  active > 0 /\ active # NumRefEntries

(* the flag and the number are only in the header when the list has several entries *)
getNumRefIdxActive(frame) ==
  IF OverrideFlag(frame) /\ NumRefEntries > 1
  THEN EncoderNumRefIdxActive(frame)
  ELSE NumRefEntries

(* mutant: the sign of the differences is inverted *)
DecoderRefAfocList_SignInverted(frame, garbage) ==
  [k \in 1 .. NumRefEntries |-> frame + k]

(* the decoder rebuilds the list from the differences of the ASPS list, all
   of them 1: entry 1 from the frame, entry k from entry k - 1 of its own list.
   A negative entry is not appended, so from there on entry k - 1 may be past
   the end of the vector, and what is read there is any value. *)
DecoderRefAfocList(frame, garbage) ==
  LET list[k \in 0 .. NumRefEntries] ==
        IF k = 0 THEN <<>>
        ELSE LET sofar  == list[k - 1]
                 base   == IF k = 1 THEN frame
                           ELSE IF k - 1 <= Len(sofar) THEN sofar[k - 1] ELSE garbage
                 refPOC == base - 1
             IN  IF refPOC >= 0 THEN Append(sofar, refPOC) ELSE sofar
  IN  list[NumRefEntries]

(* the frames a P tile may take patches from *)
ActiveRefs(list, active) == {list[k] : k \in 1 .. MinOf(active, Len(list))}

-----------------------------------------------------------------------------
Init ==
  /\ phase   = "read"
  /\ coded   = <<>>
  /\ afoc    = <<>>
  /\ next    = 1
  /\ context = <<>>

CodedFrames == {coded[i].frame : i \in DOMAIN coded}

(* which tile layer a writer may put next: the next tile of the current frame,
   or the first tile of a frame not coded yet and near enough *)
FollowsCodingOrder(frame, tile) ==
  IF coded = <<>> THEN frame = 0 /\ tile = 0
  ELSE LET last == coded[Len(coded)]
       IN  IF last.tile + 1 < NumTiles
           THEN frame = last.frame /\ tile = last.tile + 1
           ELSE /\ tile = 0
                /\ frame \notin CodedFrames
                /\ frame <= last.frame + MaxAhead
                /\ last.frame <= frame + MaxBack

(* a tile layer NAL unit is read; a P tile only refers to coded frames *)
ReadTileLayer(frame, tile, type) ==
  /\ phase = "read"
  /\ FollowsCodingOrder(frame, tile)
  /\ type = "P_TILE" =>
       /\ frame > 0
       /\ ActiveRefs(EncoderRefAfocList(frame), EncoderNumRefIdxActive(frame)) \subseteq CodedFrames
  /\ coded' = Append(coded, [frame |-> frame, tile |-> tile, type |-> type])
  /\ UNCHANGED <<phase, afoc, next, context>>

(* the atlas sub-stream ends behind the last tile of a frame *)
StartDerivation ==
  /\ phase = "read"
  /\ coded # <<>>
  /\ coded[Len(coded)].tile = NumTiles - 1
  /\ phase' = "derive"
  /\ UNCHANGED <<coded, afoc, next, context>>

DeriveAfoc ==
  /\ phase = "derive"
  /\ next <= Len(coded)
  /\ afoc' = Append(afoc, calculateAFOCval(next))
  /\ next' = next + 1
  /\ UNCHANGED <<phase, coded, context>>

EmptyFrame == [located |-> 0, tiles |-> <<>>, hashed |-> 0, refs |-> {}]

frameCount == CHOOSE n \in {afoc[i].val + 1 : i \in DOMAIN afoc} :
                \A i \in DOMAIN afoc : afoc[i].val + 1 <= n

ResizeContext ==
  /\ phase = "derive"
  /\ next > Len(coded)
  /\ context' = [n \in 1 .. frameCount |-> EmptyFrame]
  /\ phase' = "build"
  /\ next' = 1
  /\ UNCHANGED <<coded, afoc>>

(* mutant: a frame before its predecessor in order does not start a frame *)
StartsFrame_Forward(i) == i = 1 \/ afoc[i].val > afoc[i - 1].val

StartsFrame(i) == i = 1 \/ afoc[i].val # afoc[i - 1].val
EndsFrame(i)   == i = Len(coded) \/ afoc[i].val # afoc[i + 1].val

(* the references a tile layer is decoded with (none for an I tile or frame 0) *)
TileRefs(i, garbage) ==
  IF coded[i].type = "I_TILE" \/ afoc[i].val = 0 THEN {}
  ELSE ActiveRefs(DecoderRefAfocList(afoc[i].val, garbage), getNumRefIdxActive(afoc[i].val))

BuildTile(garbage) ==
  /\ phase = "build"
  /\ next <= Len(coded)
  /\ LET f == afoc[next].val + 1
     IN  context' = [context EXCEPT
           ![f].located = IF StartsFrame(next) THEN @ + 1 ELSE @,
           ![f].tiles   = Append(@, coded[next].tile),
           ![f].refs    = @ \cup TileRefs(next, garbage),
           ![f].hashed  = IF EndsFrame(next) THEN @ + 1 ELSE @]
  /\ next' = next + 1
  /\ UNCHANGED <<phase, coded, afoc>>

Finish ==
  /\ phase = "build"
  /\ next > Len(coded)
  /\ phase' = "done"
  /\ UNCHANGED <<coded, afoc, next, context>>

Next ==
  \/ \E frame \in Frames, tile \in 0 .. NumTiles - 1, type \in TileTypes :
       ReadTileLayer(frame, tile, type)
  \/ StartDerivation
  \/ DeriveAfoc
  \/ ResizeContext
  \/ \E garbage \in Garbage : BuildTile(garbage)
  \/ Finish

Spec == Init /\ [][Next]_vars

-----------------------------------------------------------------------------
(***************************************************************************)
(* Properties.                                                             *)
(***************************************************************************)

(* A frame's lists are as long as the tile layers the decoder put in it. *)
TypeOK ==
  /\ phase \in {"read", "derive", "build", "done"}
  /\ coded \in Seq(TileLayers)
  /\ afoc \in Seq([msb : 0 .. SizeMod - 1, val : 0 .. SizeMod - 1])
  /\ next \in Nat \ {0}
  /\ context \in Seq([located : Nat, tiles : Seq(0 .. NumTiles - 1), hashed : Nat, refs : SUBSET Frames])

(* The derived count of every tile layer is the frame its writer meant, across
   every wrap of the low bits in either direction, as long as the coding order
   stays inside the displacements the derivation can tell apart
   (PCCContext::calculateAFOCval). *)
AfocExact == \A i \in DOMAIN afoc : afoc[i].val = coded[i].frame

(* When the decoder is done, every coded frame was laid out once, holds each of
   its tiles once, in order, and its hash was computed once: the two tests on
   neighbouring counts (first and last tile layer of a frame) cut the list of
   tile layers exactly at the frames
   (PCCDecoder::createPatchFrameDataStructure). *)
FramesCutExactly ==
  phase = "done" =>
    \A f \in CodedFrames :
      /\ context[f + 1].located = 1
      /\ context[f + 1].hashed = 1
      /\ context[f + 1].tiles = [t \in 1 .. NumTiles |-> t - 1]

(* A tile layer only takes patches from frames that are complete when it is
   built, whatever the reads past the end of the reference list return
   (PCCFrameContext::setRefAfocList, getNumRefIdxActive). *)
ReferencesComplete ==
  [][\A f \in DOMAIN context' :
       f \in DOMAIN context =>
         \A r \in context'[f].refs \ context[f].refs :
           r + 1 \in DOMAIN context /\ context[r + 1].hashed > 0]_vars

(* The reference frames the decoder may use for a frame are those the encoder
   could choose from (PCCFrameContext::constructAtghRefListStruct and
   setRefAfocList for the encoder, setRefAfocList for the decoder). *)
ReferencesAsEncoded ==
  \A f \in DOMAIN context :
    context[f].refs \subseteq
      ActiveRefs(EncoderRefAfocList(f - 1), EncoderNumRefIdxActive(f - 1))

=============================================================================
