---------------------------- MODULE AtlasSubStream ----------------------------
(***************************************************************************)
(* The atlas data of a group as a sample stream of NAL units.              *)
(* The writer codes every unit twice: once into a scratch stream to learn  *)
(* its size, once into the sub-stream behind the size field.  The first    *)
(* pass codes every tile layer as a skipped frame (NAL_SKIP_R), the second *)
(* one with its own type, and the tile header depends on the type.         *)
(* The reader attaches the SEI messages to the tile layers, and the        *)
(* reconstruction of every tile looks them up.                             *)
(***************************************************************************)
EXTENDS SampleStreamFormat, FiniteSets

CONSTANTS
  MaxFrames,   \* bound: frames of the group
  MaxTiles,    \* bound: tiles of a frame
  MaxAfps,     \* bound: atlas frame parameter sets
  HeaderBits,  \* bits of a tile header before its byte alignment, without the IRAP flag
  DataBytes    \* bytes of a tile's data unit, with the trailing bits

ASSUME LayoutAssumption == MaxFrames \in Nat \ {0} /\ MaxTiles \in Nat \ {0} /\ MaxAfps \in Nat \ {0}
ASSUME BytesAssumption  == HeaderBits \subseteq Nat \ {0} /\ DataBytes \subseteq Nat \ {0}

nalHeaderSize == 2   \* bytes of a NAL unit header
ParameterSetSize == 3
SeiSize == 2         \* bytes of a parameter set and of an SEI message, header excluded

(* the group the writer is given: a tile layer per tile of every frame *)
Groups ==
  [frames    : 1 .. MaxFrames,
   tiles     : 1 .. MaxTiles,
   afps      : 1 .. MaxAfps,
   constrained : BOOLEAN,  \* constrainedPack_
   smoothing : BOOLEAN,    \* a smoothing SEI before the first tile layer
   hash      : BOOLEAN,    \* a hash SEI after the last tile of every frame
   bits      : [1 .. MaxTiles -> HeaderBits],   \* by tile, the same in every frame
   data      : DataBytes]

VARIABLES
  group,
  prefixSEI, \* messages read before the tile layer they belong to
  asps, afps,  \* parameter sets read
  tileLayers,  \* tile layers read, with their SEI messages
  applied      \* per reconstructed tile, whether a smoothing SEI was found

vars == <<group, phase, written, precision, stream, pos, prefixSEI, asps, afps, tileLayers, applied>>

-----------------------------------------------------------------------------
Layers(g) == g.frames * g.tiles

(* frame and tile of the l-th tile layer *)
FrameOf(g, l) == (l - 1) \div g.tiles
TileOf(g, l)  == (l - 1) % g.tiles

(* the tile layer's NAL unit type: only with a constrained packing, and     *)
(* never in frame 0, it is one of a trailing frame (R or N, neither is IRAP) *)
NaluType(g, l) == IF g.constrained /\ FrameOf(g, l) > 0 THEN "NAL_TRAIL_R" ELSE "NAL_IDR_N_LP"

IsIrap(type) == type = "NAL_IDR_N_LP"

Prefixed(g, l) == g.smoothing /\ l = 1

Suffixed(g, l) == g.hash /\ TileOf(g, l) = g.tiles - 1

(* the NAL units of a tile layer, and of the group, in the order of writing *)
LayerUnits(g, l) ==
  (IF Prefixed(g, l) THEN <<<<"PREFIX_SEI", l>>>> ELSE <<>>)
  \o <<<<"TILE", l>>>>
  \o (IF Suffixed(g, l) THEN <<<<"SUFFIX_SEI", l>>>> ELSE <<>>)

NalUnits(g) ==
  <<<<"ASPS", 1>>>> \o [k \in 1 .. g.afps |-> <<"AFPS", k>>]
  \o FlattenSeq([l \in 1 .. Layers(g) |-> LayerUnits(g, l)])

-----------------------------------------------------------------------------
(***************************************************************************)
(* Sizes.                                                                  *)
(***************************************************************************)
(* atlasTileHeader: types of IRAP frames have one flag more *)
TileHeaderBits(bits, type) == IF IsIrap(type) THEN bits + 1 ELSE bits

(* byteAlignment: a one, then zeros to the end of the byte *)
Aligned(bits) == (bits \div ByteBits) + 1

ASSUME SizesAssumption ==   \* Measure adds one to the longest size in a uint32_t
  \A b \in HeaderBits, d \in DataBytes : nalHeaderSize + Aligned(b) + d < UnsignedLimit - 1

(* bytes of a unit whose tile layer is coded as one of NAL type t *)
UnitSize(g, u, t) ==
  nalHeaderSize +
    CASE u[1] \in {"ASPS", "AFPS"}            -> ParameterSetSize
      [] u[1] \in {"PREFIX_SEI", "SUFFIX_SEI"} -> SeiSize
      [] u[1] = "TILE" -> Aligned(TileHeaderBits(g.bits[TileOf(g, u[2]) + 1], t)) + g.data

(* mutant: the header of the NAL unit is not counted *)
MeasuredSize_NoHeader(g, u) == UnitSize(g, u, "NAL_SKIP_R") - nalHeaderSize

(* the first pass, and the second *)
MeasuredSize(g, u) == UnitSize(g, u, "NAL_SKIP_R")
WrittenSize(g, u)  == UnitSize(g, u, IF u[1] = "TILE" THEN NaluType(g, u[2]) ELSE "NAL_SKIP_R")

MaxMeasured(g) == Max({MeasuredSize(g, NalUnits(g)[i]) : i \in DOMAIN NalUnits(g)})

-----------------------------------------------------------------------------
Init ==
  /\ group \in Groups
  /\ phase = "measure" /\ written = 0 /\ precision = 0 /\ stream = <<>>
  /\ pos = 0 /\ prefixSEI = <<>> /\ asps = 0 /\ afps = 0 /\ tileLayers = <<>> /\ applied = <<>>

readerVars == <<pos, prefixSEI, asps, afps, tileLayers, applied>>

Measure ==
  /\ phase = "measure"
  /\ precision' = BytesFor(MaxMeasured(group) + 1)
  /\ stream' = <<HeaderByte(precision')>>
  /\ phase' = "write"
  /\ UNCHANGED <<group, written, readerVars>>

(* sampleStreamNalUnit of the writer: the field holds the measured size *)
WriteNalUnit ==
  /\ phase = "write" /\ written < Len(NalUnits(group))
  /\ LET u == NalUnits(group)[written + 1]
     IN  stream' = stream \o SizeField(MeasuredSize(group, u), precision) \o UnitBytes(u, WrittenSize(group, u))
  /\ written' = written + 1
  /\ UNCHANGED <<group, phase, precision, readerVars>>

OpenStream ==
  /\ phase = "write" /\ written = Len(NalUnits(group))
  /\ phase' = "read" /\ pos' = 1
  /\ UNCHANGED <<group, written, precision, stream, prefixSEI, asps, afps, tileLayers, applied>>

(* mutant: the messages stay for the next tile layer *)
PendingAfter_Kept(kind, pending, u) == IF kind = "PREFIX_SEI" THEN Append(pending, u) ELSE pending

(* prefix messages wait for the next tile layer, which takes them *)
PendingAfter(kind, pending, u) ==
  CASE kind = "PREFIX_SEI" -> Append(pending, u) [] kind = "TILE" -> <<>> [] OTHER -> pending

(* suffix messages belong to the tile layer read last *)
LayersAfter(list, pending, u) ==
  CASE u[1] = "TILE"       -> Append(list, [layer |-> u[2], prefix |-> pending, suffix |-> <<>>])
    [] u[1] = "SUFFIX_SEI" -> [list EXCEPT ![Len(list)].suffix = Append(@, u)]
    [] OTHER               -> list

(* sampleStreamNalUnit of the reader.  A unit cut short is parsed past its  *)
(* end, a size read from other bytes means nothing: the reader is lost.     *)
ReadNalUnit ==
  /\ phase = "read" /\ pos < Len(stream)
  /\ LET field == Slice(stream, pos + 1, pos + precision)
         n     == FieldValue(field)
         bytes == Slice(stream, pos + precision + 1, pos + precision + n)
         u     == bytes[1][2]
         whole == /\ IsSizeField(field, precision) /\ n > 0 /\ Len(bytes) = n
                  /\ bytes[1][1] = "unit" /\ bytes = UnitBytes(u, WrittenSize(group, u))
     IN  IF whole
           THEN /\ pos' = pos + precision + n
                /\ asps' = IF u[1] = "ASPS" THEN asps + 1 ELSE asps
                /\ afps' = IF u[1] = "AFPS" THEN afps + 1 ELSE afps
                /\ tileLayers' = LayersAfter(tileLayers, prefixSEI, u)
                /\ prefixSEI' = PendingAfter(u[1], prefixSEI, u)
                /\ UNCHANGED phase
           ELSE /\ phase' = "lost"
                /\ UNCHANGED <<pos, asps, afps, tileLayers, prefixSEI>>
  /\ UNCHANGED <<group, written, precision, stream, applied>>

EndOfSubStream ==
  /\ phase = "read" /\ pos = Len(stream)
  /\ phase' = "reconstruct"
  /\ UNCHANGED <<group, written, precision, stream, readerVars>>

(* mutant: the index the comment of the lookup suggests *)
getAtlasTileLayerIndex_Real(f, t) == f * group.tiles + t

(* the reader sets no encFrameIndex, so that no entry matches: always the first *)
getAtlasTileLayerIndex(f, t) == 0

(* the tile layer itself, then the earlier ones down to, but without, index 0 *)
seiIsPresentInReceivedData(index) ==
  \/ tileLayers[index + 1].prefix # <<>>
  \/ \E i \in 1 .. index - 1 : tileLayers[i + 1].prefix # <<>>

(* the parameters of the next tile's reconstruction *)
ReconstructTile ==
  /\ phase = "reconstruct" /\ Len(applied) < Layers(group)
  /\ LET l == Len(applied) + 1
     IN  applied' = Append(applied,
           seiIsPresentInReceivedData(getAtlasTileLayerIndex(FrameOf(group, l), TileOf(group, l))))
  /\ phase' = IF Len(applied') = Layers(group) THEN "done" ELSE "reconstruct"
  /\ UNCHANGED <<group, written, precision, stream, pos, prefixSEI, asps, afps, tileLayers>>

Next == Measure \/ WriteNalUnit \/ OpenStream \/ ReadNalUnit \/ EndOfSubStream \/ ReconstructTile

(* writer, reader and decoder are loops of one thread that never wait *)
Spec == Init /\ [][Next]_vars /\ WF_vars(Next)

-----------------------------------------------------------------------------
(* Nothing of the reader's state leaves its range: it never reads more      *)
(* parameter sets, messages or tile layers than there are, and no message  *)
(* is left without a tile layer.                                            *)
TypeOK ==
  /\ group \in Groups
  /\ phase \in {"measure", "write", "read", "reconstruct", "done", "lost"}
  /\ written \in 0 .. Len(NalUnits(group)) /\ precision \in 0 .. 4
  /\ pos \in 0 .. Len(stream)
  /\ asps \in 0 .. 1 /\ afps \in 0 .. group.afps
  /\ Len(tileLayers) <= Layers(group)
  /\ Len(prefixSEI) <= (IF phase \in {"reconstruct", "done"} THEN 0 ELSE 1)

(* The messages reach the tile layer they were written for, and no other    *)
(* (the pending list of the reader, the suffix added to the last entry).    *)
MessagesAttached ==
  \A l \in DOMAIN tileLayers :
    /\ tileLayers[l].layer = l
    /\ tileLayers[l].prefix # <<>> <=> group.smoothing /\ l = 1
    /\ phase \in {"reconstruct", "done"} =>
         tileLayers[l].suffix = IF Suffixed(group, l) THEN <<<<"SUFFIX_SEI", l>>>> ELSE <<>>

(* The reader is lost only in a sub-stream with a tile layer of an IRAP     *)
(* type whose header the additional flag pushes over a byte boundary.       *)
OnlyBoundaryFails ==
  phase = "lost" =>
    \E l \in 1 .. Layers(group) :
      IsIrap(NaluType(group, l)) /\ (group.bits[TileOf(group, l) + 1] + 1) % ByteBits = 0

(* In every reconstructed tile the smoothing of the sequence is applied if  *)
(* and only if the encoder asked for it: it is signalled once, before the   *)
(* first tile layer, and must be found from every tile of every frame.      *)
SmoothingPersists == \A l \in DOMAIN applied : applied[l] = group.smoothing

(* A group whose tile headers stay clear of the boundary is reconstructed.  *)
GroupReconstructed ==
  (\A t \in 1 .. group.tiles : (group.bits[t] + 1) % ByteBits # 0) ~> (phase = "done" /\ afps = group.afps)
=============================================================================
