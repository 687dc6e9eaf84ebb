# TLA+ models of the TMC2 point cloud codec

This directory holds TLA+ specifications of the MPEG V-PCC test model (TMC2)
kept in `src/mpeg-pcc-tmc2`, the TLC configurations that check them on small
instances, and TLAPS proofs of what holds for every instance. Paths below are
relative to `src/mpeg-pcc-tmc2/source`; `lib/` is left out where the file name
says enough.

Contents: 1 The system - 2 The modules - 3 The runs - 4 Assumptions on
scheduling - 5 What is proved - 6 What the models show to go wrong - 7 What is
not modelled - 8 Plan.

## 1. The system

The encoder cuts a sequence of point clouds into groups of frames (GOFs). Each
GOF is segmented into patches, the patches are matched over time and packed
into tiles of an atlas, geometry, occupancy and attribute images are coded with
a video codec, and the patch data, the parameter sets and the coded videos of
all GOFs are multiplexed into one *sample stream* of V3C units. The decoder
splits that stream into GOFs again, rebuilds the atlas frames from the patch
data, decodes the videos and reconstructs the points.

Components interact by calls on one thread of each process, except for the
parallel loops (TBB) inside the loader, the segmenter, the smoothing and the
reconstruction. Encoder and decoder share nothing but the bitstream: whatever
running state both keep (frame order, reference lists, prediction of the patch
index, messages in force, groups) has to be rebuilt identically from it. The
repository has no unit test of either side.

| component | where | state | operations | what is hard about it | what makes it correct |
|---|---|---|---|---|---|
| GOF loader | `PCCGroupOfFrames.cpp` | a vector of point sets, its size | `load` (parallel), `write` | tasks with missing files resize the vector other tasks hold references into | the size and the frames before it are what the files give |
| Encoder application | `PccAppEncoder.cpp` | start frame, context index, stream | one GOF per turn | the last GOF is short or empty; ids of GOFs are cut to 4 bits | groups are consecutive and all of them reach the stream |
| Decoder application | `PccAppDecoder.cpp` | frame number, unit list | one GOF per turn | a GOF has no end mark | every GOF is rebuilt once, in order, under its number |
| File | `PCCBitstreamWriter::write`, `PCCBitstreamReader::read` | list of units, width of the size fields | size field, copy | width at powers of 256 | what is read is what was written |
| GOF multiplexer | `PCCBitstreamWriter::encode`, `PCCBitstreamReader::decode` | unit queue, parameter sets, videos, statistics | emit or consume the units of a GOF | the next GOF's parameter set is parsed into the current store | a GOF holds its own units only |
| Atlas sub-stream | `atlasSubStream`, `sampleStreamNalUnit` (both sides) | parameter set lists, tile layers, pending SEI | one NAL unit | every unit is coded twice, once for its size; messages wait for the tile layer they belong to | units are told apart; messages reach their tile layer |
| Frame order | `PCCContext::calculateAFOCval`, `PCCFrameContext::setRefAfocList`, `createPatchFrameDataStructure` | counts, frames, reference lists | derive, lay out, close a frame | wrap of the count, short reference lists | the decoder knows the frame of every tile layer, and only refers to complete frames |
| Patch lists | `createPatchFrameDataStructure` (both sides), `spatialConsistencyPack*`, `generateTilesFromImage`, `adjustReferenceAtlasFrames`, `PCCCodec::generatePointCloud` | patch lists by frame and tile, index of the reference patch, running prediction, the patches an EOM patch lists | place, split, match again, reconstruct, reverse, code, decode | each step moves what the indices of the others point to | every index names the patch that was meant; the decoder rebuilds the encoder's patch |
| Patch data units | `PCCPatchSegmenter.cpp`, `createPatchFrameDataStructure` (both sides), `patchInformationData` (writer, reader) | depth ranges, widths, block maps | round, clamp, difference, rebuild | three programs find the reference patch in three ways, and only one of them clamps | the decoder's patch is the one the encoder goes on with; the reader reads as many bits as were written |
| Tile information | `PCCCodec::generateAfti`, `placeAuxiliaryPointsTiles`, `PCCAtlasFrameTileInformationRbsp.h` | heights of the rows of raw points, list of parameter sets | derive, compare, share | frames share a parameter set that compares equal | the decoder finds the rows the encoder used |
| Group parameters | `PCCEncoder::encode`, `generateSegments` | `params_` of the encoder object, a shared sum | add a distance, decide, restore | unlocked sum; one object for all groups | every group starts from the options |
| Segmentation | `PCCPatchSegmenter.cpp`, `PCCNormalsGenerator.cpp` | labels, scores, normals | refine, smooth normals (parallel) | values are read while others are written; vectors shared by all workers | simultaneous rounds; iterations stay apart |
| Smoothing | `PCCCodec::smoothPointCloud`, `PCCEncoder::presmoothPointCloudColor` | positions or colours, a second vector | compute, copy back (parallel) | as above; two builds with loops of their own | one simultaneous step, and its result is kept |
| Packing | `PCCEncoder.cpp` (`pack*`, GPA) | occupancy of the canvas | place a patch, grow | overlaps, alignment over frames | patches do not overlap |
| Tiles | `PCCEncoder.cpp`, `PCCDecoder.cpp` | partition, tile sizes | derive on both sides | two programs, one partition | both sides agree |
| Reconstruction | `PCCCodec.cpp` | point clouds | generate points, transfer colours | numeric | encoder's and decoder's clouds are equal |
| Video coding | `PccLibVideoEncoder`, `PccLibVideoDecoder`, `PCCVideoBitstream.cpp` | byte streams | codecs, byte stream to sample stream and back | start code emulation, last unit | units survive the conversion |
| Metrics, checksum, conformance | `PccLibMetrics`, `PccLibConformance` | result lists | compare | missing frames | - |

`PROJECT.json` lists the same components with their status, and under
"hazards" the lines at which each of them is hard to test.

## 2. The modules

Mutants: next to some definitions a module has one of the same name with a
suffix (`getVps_Last`), preceded by a comment "mutant". It is what a plausible
bug would make of the definition; nothing uses it. With it in the place of the
definition a property must be violated, which shows that the property looks at
what the definition does.

### Groups, from one program to the other

**`GroupDelivery`** is the abstract specification: the coder cuts a sequence
into consecutive groups, then the reconstruction receives each of them once, in
order and under its first frame number.

**`V3CGroups`** is the detailed one: the loop of the encoder application
(`EncodeGroup`, `EncodeEmptyGroup`), the units `PCCBitstreamWriter::encode`
appends for a group, in order (`GofUnits`), and the decoder's loop (`StartGroup`,
`DecodeUnit`, `EndOfStream`, `Rebuild`). The reader consumes units until it
meets the *second* parameter set, which it has by then parsed into the store of
the current group; the statistics are corrected and the unit stays in the list.
`syntax` is `PCCHighLevelSyntax`: the list of parameter sets, the active id and,
per atlas, the atlas data and the videos. Lookups (`getVps`, `Entries`) go by
position and type as in the code. Parameter set ids are numbers modulo `VpsIds`
(16 in the code). A unit is its type, its group, its place in the video layout
and its size. `DeliverySpec` is `GroupDelivery` under the mapping that takes a
rebuilt group to its first frame and its length.

### The file and the atlas sub-stream

**`Digits`** is what writing and reading a number in a fixed count of digits does:
`Digit` is the k-th, the high one first, and what does not fit is cut off; `Number`
takes the digits together again. **`SampleStreamFormat`** has what both streams
share: the widths (`ceilLog2`,
`BytesFor`), size fields that cut off what does not fit, the bytes of a unit
(each named by its unit and its place, so that a reader that has lost its place
reads something else), and the reader's slices. `UnsignedLimit` is where a `uint32_t`
ends: both writers take the maximum of the sizes in one.

**`V3CSampleStream`** is the file: `WriteHeader`, `WriteUnit`, `CloseFile`,
`ReadHeader`, `ReadUnit`, `EndOfFile` (its names begin with File where
`AtlasSubStream` has the same, as the proofs of both are in one module).
**`AtlasSubStream`** is the atlas data of
a group: the measuring pass (`Measure`), in which every tile layer is coded as a
skipped one, the writing pass (`WriteNalUnit`), the reader with its list of
pending messages (`ReadNalUnit`), and the lookup of the smoothing message for
every tile (`ReconstructTile`). Parameter sets and messages have constant sizes;
tile headers have a number of bits around a byte boundary.

### Frame order and references

**`AtlasFrameOrder`**: tile layers are read in a coding order (`ReadTileLayer`),
then the decoder derives the count of each from its low bits (`DeriveAfoc`),
sizes its list of frames (`ResizeContext`) and builds the tiles (`BuildTile`):
a change of the count starts a frame, the last tile layer of a count closes it.
`EncoderRefAfocList` and `DecoderRefAfocList` are the two sides of
`setRefAfocList`; what the decoder reads past the end of its own list while
this is short is any number of `Garbage`. The encoder of the repository codes
the frames in order; the model allows any order whose displacements the
derivation can tell apart (`MaxAhead`, `MaxBack`), which the decoder has to
handle.

### Patches

**`PatchMatching`** follows the index by which an inter patch names a patch of
an earlier frame through every step that changes the lists it points into:
`PlaceFrame` (matched patches first; split into tiles with the remapping of
indices), `adjustReferenceAtlasFrames` (matching again with several reference
frames), `ReverseOrder` (patch precedence), `CodeGroup` (the index relative to a
prediction, tile types) and `DecodeFrame`. Which of the admissible matches is the
best is a nondeterministic choice; a patch's position stands for everything
that is coded as a difference. The EOM patch of a tile (`members`) lists patches of
the tile by index, is made with the tiles, is used by the encoder's own
reconstruction (`generatePointCloud`) before the lists are reversed, and by the
decoder's after. A tile whose EOM patch has no members is where the encoder stops
(`CodeEmptyEom`).

**`TileLayers`** follows the numbers of the patches: `EncodeTile` (which replaces
the depth range of a patch by the coded one), `ReadTile` (where the reader needs the
number of blocks of an inter patch to know how many bits its block map has) and
`BuildTile`. It is built from two modules of pure operators: **`PatchValues`**
has the roundings of depth ranges and widths on the three sides (`SegmentedSizeD`,
`InterRange`, `EncodedSizeD`, `DecodedSizeD`, `IntraSize`, `InterSize`, ...), and
**`TileInformation`** the rows of raw points in the auxiliary video, the parameter
set that says where they are, and the comparison by which frames share one. A
read past the end of the units of the tile layer before has any of the sizes
`GarbageSizes`. Height and width are coded alike, so that the model has one
dimension; positions and offsets are multiples of what they are coded in.

### Parallel loops

**`ParallelFor`** is `tbb::parallel_for` in a task arena as the code uses it:
items are taken in any order by any worker, and the loop ends when all bodies
have. The modules below extend it.
**`SynchronousRounds`** is the abstract specification of a pass over all points:
in each round every point gets the value its rule gives for the values all
points had before.

- **`SegmentationRefinement`**: `refineSegmentation`, two loops per iteration
  (`ScorePoint`, `LabelPoint`) and the exchange of the vectors (`SwapPartitions`).
  The score that picks a label is the operator constant `Best`.
- **`ParallelSmoothing`**: `smoothPointCloud` and `presmoothPointCloudColor`
  (`kind`, chosen by `Init`), the loop that computes (`SmoothPoint`) and the one
  that copies back (`CopyPoint`), whose body is empty for colours in a build with
  TBB, so that what a run says of them (`ColoursSmoothed`) is an expected violation. The smoothed value is the operator constant `Smoothed`.
- **`FrameLoader`**: `PCCGroupOfFrames::load`. A task with a missing file resizes
  the vector in two steps (`BeginResize`, `EndResize`), so that other tasks can
  take, read or cut off elements between them; an element used outside of the
  vector, destroyed while it is read into, or two resizes at once have no
  defined outcome, and are recorded in `fault`.
- **`GroupParameters`**: `encode` and `generateSegments` over several groups. The
  addition to the shared float is two steps (`ReadSum`, `WriteSum`). `params` are
  the parameters the encoder object keeps between groups. Its names say Group or
  Segment where those of `FrameLoader` would clash in the module of their proofs.
- **`NormalSmoothing`**: `smoothNormals`, in place and with three vectors that all
  workers share (`n0`, `n1`, `n2`): each statement that reads or writes one of them
  is a step (`LoadOwn`, `ResetSum`, `LoadNeighbour`, `AddNeighbour`, `WeighNormal`,
  `StoreNormal`), so that another worker's can come between any two. A normal is known
  by its point and its version, and what is computed in `n1` by the normals that went
  into it, as the own one of a point or in a sum; normalizing a vector, which leaves
  that as it is, is no step. Its names say Normals,
  as in `NormalsSpec`, where the proofs of both smoothing modules would confuse them.

### Video streams

**`VideoByteStream`** is the coded video on its way: `NaluToSample` and
`NaluToBytes` are one turn of the loops of `byteStreamToSampleStream` and
`sampleStreamToByteStream`, on bytes, with the search for the next start code and
the look-ahead that finds its size. `SampleSize` and `SizeAt` are the digits of
`Digits`, `Parsed` is the external decoder's search for start codes.
Its names say Video (`VideoSpec`), as all sample streams are proved about in one module.

Type invariants: each module with variables states one (`TypeOK`), which documents
the state. Those of `FrameLoader`, `GroupParameters` (`ParametersTypeOK`), `NormalSmoothing`,
`ParallelSmoothing`, `SegmentationRefinement` (`RefinementTypeOK`), `V3CSampleStream`
(`FileTypeOK`), `AtlasSubStream` and `VideoByteStream` (`VideoTypeOK`) are proved; the runs leave all of them out and check
what can go wrong.

### Proofs

The modules `..._proofs` hold the theorems of a component; `ParallelSmoothing_proofs`
those of `NormalSmoothing` too, `ParallelLoops_proofs` those of `FrameLoader`,
`SegmentationRefinement` and `GroupParameters`, `SampleStreams_proofs` those of the file,
the atlas sub-stream and the video streams. **`InductionLemmas`** is what several of them need
and the library of the prover has only with an operator as a parameter: a set of
numbers has a least one (`LeastNumber`, `LargestNumber`), induction up to a bound
(`PrefixInduction`), a recursion over numbers has a solution (`PrefixRecursion`,
`RecursionFromOne`) and only one (`SameFromOne`), and the sums over finite sets
(`SumOverSet`, `SumsAgree`, `SumsGrow`).

How they fit together: `FrameLoader` gives the number of frames of a group,
which `V3CGroups` takes as the smaller of what was asked for and what is on
disk (`CountIsOfMissing` with the last files missing); within a group
`NormalSmoothing`, `SegmentationRefinement` and `GroupParameters` run before
`PatchMatching`; the lists that leaves are what `TileLayers` codes, its tile layers
are what `AtlasSubStream` carries, the decoder orders them as in
`AtlasFrameOrder`, and the result is one "AD" unit of `V3CGroups`. The videos of
`V3CGroups` are what `VideoByteStream` makes, and all units are those of
`V3CSampleStream`.

## 3. The runs

Twelve configurations. Eleven pass; `colour_smoothing` is expected to find its property,
which states what the documentation says, violated. The programs stop at the end, so that deadlock is
not checked (`TileLayers` stutters at its end instead).

| run | instance | what it checks |
|---|---|---|
| `v3c_groups` | up to 5 frames in groups of 2, any number of files on disk, 1 or 2 maps, 0 or 1 partitions, auxiliary videos or none, ids modulo 2 | `GroupsReassembled`: each group has its own parameter set, atlas data and videos; `VideosUnambiguous`; `StatisticsAgree`; `AllGroupsDecoded` (liveness); `DeliverySpec` (refinement) |
| `v3c_sample_stream` | up to 3 units of sizes around one and two bytes (of 2 bits), with and without forced precision | `UnitsReadBack`; `OnlyPowersFail`: the only files that cannot be read are those whose longest unit is exactly a power of the byte base; `FileIsRead` (liveness) |
| `atlas_sub_stream` | up to 2 frames of 2 tiles, headers one bit before, at and after a byte boundary | `MessagesAttached`; `SmoothingPersists`; `OnlyBoundaryFails`: the reader is lost only at a header that the additional flag pushes over the boundary; `GroupReconstructed` (liveness) |
| `atlas_frame_order` | 7 frames of 2 tiles, counts of 2 bits, 3 references, every coding order up to 2 ahead and 1 back | `AfocExact`; `FramesCutExactly`; `ReferencesAsEncoded`; `ReferencesComplete` (action property) |
| `patch_matching` | 3 frames of 2 tiles, up to 2 patches of 4 kinds that differ from the first in one of view, tile and orientation; 2 references, reversed, or both; with EOM points up to 3 patches, reversed, or 2 with 2 references | `IndicesNameTheirPatch`; `PatchesDecoded`; `PatchesKept`; `EomOfItsPatches`: both reconstructions take the EOM points from the same patches |
| `tile_layers` | groups of 2 or 3 frames in families: chains of 3 depths, pairs of widths with 5 quantisers, pairs of patches with block maps, thresholds around both field widths, raw points in 1 or 2 tiles | `PatchesRebuilt`; `DepthDoesNotDrift`; `BlockMapsAgree`: when the reader stays in step; `AuxiliaryAsCoded`: when the rows of raw points are found |
| `segmentation_refinement` | 4 points, 2 workers, 2 labels, 3 iterations from every labelling | `Synchronous` (refinement of `SynchronousRounds`) |
| `smoothing` | 3 points, 2 workers; positions of 3 values, or normals in 2 iterations by 1 or 2 workers | `GeometrySmoothed`; `Synchronous` (refinement of `SynchronousRounds`); `SmoothedInOrder`: normals, one worker; `IterationsInStep`: any |
| `colour_smoothing` | 4 points, 3 values, 2 workers | `ColoursSmoothed`, violated: the smoothed colours are dropped |
| `frame_loader` | 5 frames, 2 workers, every set of missing files | `LastMayBeMissing`; `CountIsOfMissing`; `LoadedUpToGap`; `Ends` (liveness) |
| `group_parameters` | 2 groups of 3 frames, 2 workers, 8 sets of options | `OnlyFarSwitchedOff`, `FarSwitchedOff`: what lost additions can and cannot change; `ModeRestored`; `RawTilesAccumulate` |
| `video_stream` | up to 3 units of each coding, among them the shortest and such that look like part of a start code | `UnitsSurvive`; `SamplesAreUnits` |

Why the bounds are enough to see the interesting cases:

- `v3c_groups`: three groups, one more than there are ids, so that two groups
  share an id and a store meets it twice; a last group that is short, and an
  empty one; both sides of every layout option.
- `v3c_sample_stream`, `atlas_sub_stream`: a byte of 2 or 3 bits moves the powers
  of 256 to sizes 4, 16 or 8, and the sizes lie on, before and behind them.
- `atlas_frame_order`: 7 frames wrap a 2-bit count, forwards and back again,
  with displacements of exactly half a period forwards; the reference list is
  short for three frames and full afterwards.
- `patch_matching`: three frames are the least for a chain of references and for
  matching again (it begins with frame 2); two patches the least for a change of
  order, and two tiles for the remapping; three patches in two tiles give a list
  whose EOM patch names one of two.
- `tile_layers`: 16 depths in steps of 4 give every remainder and both ends of the
  range; widths up to two blocks and a pixel give every position in a block; the
  fields of the block threshold have 2 and 3 bits instead of 6 and 8, and the
  thresholds go over both. Each family varies what its property is about and
  keeps the rest fixed, since the fields are coded independently of each other.
- `smoothing`: two iterations have the end of one between them; three points
  give a middle one with two neighbours, and neighbours in front and behind. The module
  `MCSmoothing` chooses at the start which of the two kinds of smoothing runs, by
  itself: they share nothing.
- `video_stream`: three units have a first, a middle and a last; start codes of 3
  and 4 bytes in front of each.
- the parallel loops: two workers are enough for any two bodies to overlap; with
  three points or four an iteration has points that are done or to come while two are
  at work.
- `group_parameters`: two groups show what is left over from the first; three
  frames let an addition of each worker be lost and one survive.

## 4. Assumptions on scheduling

The coders are loops of one thread that never wait for anything, so that
`V3CGroups`, `V3CSampleStream` and `AtlasSubStream` have `WF_vars(Next)` in their
specification: a thread that has a next step takes it. `VideoByteStream` has it
for the same reason. In `FrameLoader` `FairSpec` says it of the workers together
(TBB keeps running bodies while there are any; none of the bodies waits for
another); no fairness between workers is assumed, and none is needed, as the
number of steps is finite. The other properties are safety properties and are
checked and proved without fairness. Builds with TBB are modelled, as it is the
default; one worker is the `nbThread=1` case.

## 5. What is proved

TLAPS checks the theorems below for every value of the constants the ASSUMEs
of the modules allow.

| theorem | module | statement |
|---|---|---|
| `GroupsAreReassembled` | `V3CGroups_proofs` | `Spec => []GroupsReassembled` |
| `FrameNumbersAreThose` | `V3CGroups_proofs` | `Spec => []FrameNumbersAgree` |
| `ProgramsDeliver` | `V3CGroups_proofs` | `Spec => DeliverySpec` (refinement) |
| `VideosAreUnambiguous`, `StatisticsAreThose` | `V3CGroups_proofs` | `Spec => []VideosUnambiguous`, `Spec => []StatisticsAgree` |
| `NoGroupIsRejected` | `V3CGroups_proofs` | `Spec => [](phase # "exited")` |
| `AfocIsExact` | `AtlasFrameOrder_proofs` | `Spec => []AfocExact` |
| `FramesAreCut`, `ReferencesAreEncoded` | `AtlasFrameOrder_proofs` | `Spec => []FramesCutExactly`, `Spec => []ReferencesAsEncoded` |
| `ReferencesAreComplete` | `AtlasFrameOrder_proofs` | `Spec => ReferencesComplete` (action property) |
| `LoopsAreComplete`, `RefinementIsSynchronous`, `RefinementTypes` | `ParallelLoops_proofs` | `LoopsComplete`, refinement and types |
| `GeometryIsSmoothed`, `SmoothingIsSynchronous`, `SmoothingTypes` | `ParallelSmoothing_proofs` | invariants, refinement and types |
| `IterationsStayInStep`, `NormalsAreSmoothedInOrder`, `NormalTypes` | `ParallelSmoothing_proofs` | `NormalsSpec => []IterationsInStep`, `NormalsSpec => []SmoothedInOrder`, types |
| `LastMissingIsSafe`, `CountIsThatOfMissing`, `FramesBeforeGapAreLoaded`, `LoaderTypes` | `ParallelLoops_proofs` | invariants and types |
| `ModeIsRestored`, `FarIsSwitchedOff`, `OnlyFarAreSwitchedOff`, `RawTilesStay`, `GroupTypes` | `ParallelLoops_proofs` | invariants and types |
| `WhatIsReadWasWritten`, `OnlyPowersEndTheReader` | `SampleStreams_proofs` | `FileSpec => []UnitsReadBack`, `FileSpec => []OnlyPowersFail` |
| `WholeFileIsRead`, `FileTypes` | `SampleStreams_proofs` | a reader at the end of a file has read all of it; types |
| `MessagesReachTheirTiles`, `SmoothingOfAllTiles` | `SampleStreams_proofs` | `Spec => []MessagesAttached`, `Spec => []SmoothingPersists` |
| `OnlyTheFlagLosesTheReader` | `SampleStreams_proofs` | `Spec => []OnlyBoundaryFails` |
| `WholeSubStreamIsRead`, `SubStreamTypes` | `SampleStreams_proofs` | a reader at the end of a sub-stream has all of the group; types |
| `UnitsReachTheDecoder`, `SamplesOfTheUnits`, `VideoTypes` | `SampleStreams_proofs` | `VideoSpec => []UnitsSurvive`, `VideoSpec => []SamplesAreUnits`, types |
| `ClampIsIdle`, `IntraExact`, `WidthsExact`, `BlocksKept` | `TileLayers_proofs` | the arithmetic of one patch, for every step, bit depth, block and quantiser |
| `RangesDoNotDrift` | `TileLayers_proofs` | `Spec => []CodedDepths`: the depth ranges of the encoder, along any chain of predictions |
| `RebuiltPatchesAreCoded`, `DecodedDepthsDoNotDrift` | `TileLayers_proofs` | `Spec => []PatchesRebuilt`, `Spec => []DepthDoesNotDrift` |
| `BlockMapsAreRead`, `AuxiliaryIsAsCoded` | `TileLayers_proofs` | `Spec => []BlockMapsAgree`, `Spec => []AuxiliaryAsCoded` |
| `PatchesAreKept`, `IndicesFindTheirPatch` | `PatchMatching_proofs` | `Spec => []PatchesKept`, `Spec => []IndicesNameTheirPatch` |
| `PatchesAreDecoded`, `EomPointsFindTheirPatches` | `PatchMatching_proofs` | `Spec => []PatchesDecoded`, `Spec => []EomOfItsPatches` |

**Groups.** `GroupsReassembled` is not inductive: nothing in it says what the
unit list looks like. `IInv` adds that the groups leave no gap and end where the
encoder stands (`GroupsInv`), that the list is group after group, each beginning
with a parameter set followed by its atlas data (`StreamShape`), and that the
store holds units of the current group only, except for one parameter set
behind its own (`StoreInv`). That the store never has more than these two is why
ids modulo any number greater than 1 do not collide: two consecutive numbers
have different residues, and the lookup finds the first. `GofUnitsShape` is the
lemma about the writer (what a group appends), `StreamGrows` that appending
keeps the shape, and one lemma per action the rest. The refinement follows from
`IInv`: an `EncodeGroup` is a `Code` step, a `Rebuild` a `Deliver` step.

The counts need more than the shape, namely where in the group the decoder stands.
`UnitsInv` says that every coded group stands in the stream as its `GofUnits`, and
that the encoder's counts are the last of a sequence `p` of counts, one for each
unit (`Reading`). `StatInv` says that between two units there is a number `n` of
units read for which the store has the videos among the first `n`, the front of the
queue is behind them, and the decoder has counted `p[n]` (`ReadTo`). The parameter
set of the next group is counted before the decoder knows that it is one, and
`LookAheadUndone` is the lemma that putting it back takes the count back with it.
`VideosApart` says that the types under which a group's videos are stored are
different and are those asked for, for any number of maps and partitions; so the
lookup finds one video and the decoder never gives up.

**Frame order.** `AfocInv` says that for every count derived so far both the
count and its most significant part are exact, and that two neighbours in
coding order are at most half a period apart. `MsbStepExact` is the arithmetic
core: with `f = q * MaxLsb + l` and a neighbour within half a period the
quotients differ by at most one, and the comparison of the low bits tells in
which direction. A displacement of exactly half a period is taken forwards,
so that the assumption on steps back is one less than that on steps ahead.
`CodedInv` is about the coding order: a tile layer continues the frame of the one
before it or starts a frame that is new, and a P tile only refers to frames coded
before. `FramesInv` says what the decoder has of every frame when it is at tile
layer `n` (`BuiltUpTo`): it was laid out once, has the tiles up to the last of its
tile layers in front of `n`, and is closed once, if that was its last tile. With
exact counts and that, the frames are cut where the encoder cut them, and a
reference names a frame that is closed.

**Parallel loops.** The argument is the same for all loops: `Processed(i)` (item
`i` was taken and nobody is at it) is reached exactly when the body of `i` ends,
which writes only element `i`, and when the loop ends all items are processed.
So an invariant of the form "every processed item has its value"
becomes "all have" at the end, which is the barrier the next loop starts from.
For the refinements the abstract round happens at the exchange of the vectors,
or when the copying begins.

**Normals.** `NormalInv` makes no claim about *which* normals are in the shared
vectors, only that they are `Latest`, of this iteration or the one before, as soon
as some worker has gone on from loading or resetting them (`VectorInv`); before
that they may be of any iteration, but nobody uses them. What is in `n1` between `ResetSum`
and `StoreNormal` may come from several workers, as own normals of several points or in
a sum, but each of them has loaded it in this iteration. It rests on `VersionInv`
(the normals replaced in this iteration are those of the processed points).
`OrderInv` adds what is true of a worker that is alone: whatever has been taken lies
in front of what has not, and the vectors hold the sum of the first neighbours of
its own point as they are now (`Loaded`), to which its own normal is added before it
is stored; this is what `InTurn` says of the point
when it is stored.

**Loader.** `SizeInv`: the vector is as long as the group until a missing frame
has been dealt with, and from then on as long as the number of a missing frame.
`LoadedInv`: a frame in front of every gap stays loaded, since a resize only
destroys what is behind a gap. `LastInv`: where only the last file may be missing,
the element is there until its own task ends, and no other task resizes.

**Group parameters.** `FarSwitchedOff` is about a race on a float: additions can be
lost, but the last one to be written holds its own frame's distance. `SumInv` says
so of every moment ("once a frame has been processed the sum is far, if every frame
alone is"), and needs `WorkersInv`: only a worker with a frame has read the sum.
In the other direction, `LossyInv` is about an upper bound: the sum and every copy
of it a worker has read are at most the sum of the distances of the frames that
are done, since an addition adds a frame's distance to a copy made before that frame
was done. `TilesInv` counts the groups that have begun, `ModeInv` says where the mode of the
options is to be found while a group is coded.

**Tile layers.** `ClampIsIdle` is the question the code raises: the encoder clamps a
predicted depth range to the bit depth (`PCCEncoder.cpp:8203`) and the decoder does not.
For a reference range of whole steps inside the bit depth and any depth inside it
the sum never leaves it, so that both have the same range, again of whole steps,
and at most one step off the depth. `RangesDoNotDrift` carries that along the
chains: the run's invariant is about patches that are coded, and a step refers to a
frame further back, so that the inductive invariant `DepthInv` says of every *place*
in coding order that has been reached that its tile's ranges are near the depths.
From `LevelAssumption`, `BlockAssumption` and `MatchAssumption` (a match is a patch of
an earlier frame, a depth fits the bit depth, both of which the matching and the
segmenter see to).

The other three sides follow the tile layers. `LayersInv`: the tile layer at every
place has the units of its tile, made from the ranges the encoder went on with.
`BuildInv`: the tiles whose place the decoder has reached are built, each patch
`AsCoded`; the decoder's running patch index is the sum the encoder's differences
were taken from, by induction along the units of a layer. `ReadInv`: the reader,
under the four conditions of `MapsCanBeRead`, has given every patch the number of
blocks it has. `SetsInv`: the set that a frame shares says what its own would say,
as far as the comparison looks. `QuantizerAssumption` (a quantiser not coarser than
a block divides it; both are powers of two) and `GroupAssumption` (the shape of a
group) are used here. The conditions in the four properties are those under which
the code does what they say; section 6 has what happens without them.

**Patch lists.** For any number of frames, tiles and patches, any segmentation, any
admissible matching and any number of reference frames. A selection from a list
(`Chosen`) is what a loop that pushes back elements gives; `PlacesInOrder` and
`ChosenAt` say that it is the elements at the selected places in ascending order, of
which there is only one (`AscendingSame`): that is all the proofs need. The four properties say nothing of the
steps before, so that `Inv` adds what holds at each: the patches of a placed frame
are numbered in order (`NumberedInv`) and frames to come have none (`UnplacedInv`);
every list is that of the frame's own patches, as placed, reversed from the moment the
reversal has passed it, or empty (`KeptInv`, which gives `PatchesKept`); and the index
of every inter patch names its patch (`NamesInv`), but for the frames that are yet to be
matched again while an emptied tile lies before them, and for indices that
`IndexMoved` leaves out. The remapping is a loop that goes on with the index it has
replaced; a patch's place in its frame is never less than in its tile, so that it finds
no second one (`RemapBestIs`). The reversal maps a place `i` of `n` to `n - i + 1` in both lists
of a reference at a time. Where no index was moved the decoder's running index is the
encoder's (`PredIndexRuns`, `DecoderPredIndexRuns`), so that a unit leads to the patch it
was coded from, of which the decoder has the view and the orientation since its
frame is an earlier one (`DecodedInv`, by induction along the frames). `MembersInv` and
`EomInv` follow the EOM patch: it lists the places of the tile's patches as placed, and
the decoder's counting from the end undoes the reversal. The assumptions are
those on the constants: settings, and segmentations of the kinds of patches there are.

**Sample streams.** For any number and sizes of units, any group, any width of a byte.
`DigitsHold` is about the digits: n of them hold a value that is smaller than the
n-th power of the base, and of that power itself they hold nothing, 0. That a width is enough follows from
`ceilLog2Is` and `BytesForIs`: n bytes hold every number up to the power, the
power itself excluded, which is exactly the file that ends the reader. The other
half of the argument is where things are. A written stream is the header byte and
then chunk by chunk (`Laid`: every chunk begins where the one before ends, and has
its bytes there), which an append keeps. `ChunkIsRead` is what a reader finds that
stands at the start of a chunk: the field is a size field, and if it holds the
unit's size the slice is the unit. So `FileInv` says that the reader is at the start
of the chunk behind the units it has read; nothing else could be said of it if it
ever were not, and the case in which it stops being so is the power.

For the sub-stream the units of a group are first laid out themselves (`NalUnitsAre`:
the parameter sets, then the list of every tile layer). `UnitSizesAre` compares the
two passes: the sizes of a unit differ only (`OverBoundary`) for a tile layer of an IRAP type whose
header has the additional bit behind a byte boundary; in every other case the
reader reads on (`ReadStep`), and what it has is, by the layers it has completed
(`Complete`) and the one it is in (`InLayer`: its message pending, or its entry
without the suffix). `MessagesAttached` asks for the suffix at the end only; the
invariant has it from the moment the layer is complete. The two assumptions on the
constants that these proofs need beyond positive sizes are that a `uint32_t`, in which
both writers keep the longest size, holds them (`UnitsAssumption`), in the sub-stream
even with the one that is added to it (`SizesAssumption`). `UnsignedLimitIs` and
`BytesForIs` then say that a field never has more than four bytes, which are also
what the reader can put together. From a unit of four gigabytes on, the cast
(`PCCBitstreamWriter.cpp:67`) leaves another maximum, and nothing is claimed.

**Video streams.** For any number of legal units of any length, start codes of three and
four bytes in any combination, every coding and flag. A stream is laid out again, each
chunk a start code and its unit (`IsStream`). Inside of a legal unit no start code begins
(`NoCodeInUnit`), so that the search from behind one start code stops at the next, if
that is five bytes before the end (`EndOfNaluIs`). All but the last unit are that far,
since every one takes four bytes with its start code; the last is not if it has one byte
behind a start code of three (`LastButOneIsFound`). Then the last two are one sample:
a stream of m + 1 units is one of m of which the last is two with three bytes between
them (`StreamJoined`), and the other way round (`StreamSplit`). `Kept` are the units that
the samples are, and `KeptIs` says of the stream of the encoder that it is one of theirs in
which all turns find their unit. The invariant `VideoInv` says per loop what has been made so
far: the first samples (`Collecting`), then the first units behind start codes of which
the next size is known but those after it are not (`Replacing`: any sizes do, which
`LaterCodesOpen` exploits). A size is read back by `DigitsHold`; `SizeAssumption`, which says that two units
that stay together have a size that an `int32_t` holds (the type of `naluSize`), is what
makes it fit. At last `ParsedIs`: the start codes in a stream are at the places they were put
to and nowhere else (`CodeIsThere`, `NoOtherCode`), so that the k-th that is found is
the k-th there is (`KthIs`), and what lies between two of them without zeros at its end is
the unit (`UnitEnds`).

**Recursion.** A function defined by recursion is, in TLA+, a function that
satisfies its equation *if there is one*. So each use shows first that one exists
(`PrefixRecursion` builds it up to any bound, with no operator as a parameter: the
step is a function, `StepsIn`), and then proves what it computes by induction on
sets of numbers (`PrefixInduction`). Sums over sets are defined by a recursion that
removes chosen elements; `IteratorSums` shows that any order gives the same.

**Only model-checked.** Liveness (`AllGroupsDecoded`, `FileIsRead`,
`GroupReconstructed`, `Ends`) is outside of what the prover does; `WholeFileIsRead` and
`WholeSubStreamIsRead` are the part of it that is a safety property. Every other
property of the passing runs is stated by a theorem.

## 6. What the models show to go wrong

`ColoursSmoothed` is violated (finding in `PROJECT.json`): `doc/README.options.md:103`
says that `flagColorPreSmoothing` enables the smoothing of colours before they are
coded, but in a TBB build, the default, the loop that should copy the smoothed colours back
(`PCCEncoder.cpp:6650`) has an empty body, so that the pass never changes a colour; the
loop of the other build (`:6653`) copies them.

Properties that hold state the exact place where something stops to work:

- `LastMayBeMissing`, `LoadedUpToGap`: after a missing file the task of the next frame
  indexes the vector behind its end (`PCCGroupOfFrames.cpp:65`, `:69`), with any
  number of threads. Only a missing last file is safe, and only what is in front of
  the first gap is sure to be loaded.
- `RawTilesAccumulate`: `encode` adds the tile for raw points to a parameter that
  lives for the whole sequence (`PCCEncoder.cpp:83`) and never takes it back; with
  tiles made from regions the second group ends the program.
- `SmoothedInOrder`, `IterationsInStep`: the workers of `smoothNormals` share the
  vectors they compute with (`PCCNormalsGenerator.cpp:555`). With one worker every
  normal is made of its neighbours' latest ones; with several a normal may be made
  of any point's, and only the iterations stay apart.
- `SamplesAreUnits`: the search for the next start code ends four bytes before the
  stream does, so that a last unit of one byte behind a short start code is taken for
  a part of the unit before; `UnitsSurvive` shows that a decoder gets the same
  stream all the same.
- `BlockMapsAgree`: the reader sizes the block map of an inter patch by the tile
  layer it parsed last (`PCCBitstreamReader.cpp:1211`), and compares with a threshold
  of six bits. It stays in step with one tile, references to the frame before, sizes
  in blocks and a threshold of 1 to 64; the model loses it without any one of these.
- `PatchesRebuilt`: with a size quantiser coarser than a block the decoder's patches
  cover other blocks than the encoder's.
- `AuxiliaryAsCoded`: tile information of frames with one tile compares equal whatever
  the rows of raw points (`PCCAtlasFrameTileInformationRbsp.h:71`), so that the flag of
  a raw patch is lost when the group's first frame has none; and the height for one
  tile is written in pixels (`PCCCodec.cpp:1784`) and read in units of 64
  (`PCCDecoder.cpp:1767`).
- `EomOfItsPatches`: a tile that is emptied (see `PatchesKept`) keeps an EOM patch that
  names its patches. A tile of which no patch has EOM points stops the encoder: an
  assertion (`PCCEncoder.cpp:8322`), or a count that wraps and is never written to
  its end (`CodeEmptyEom`).
- `IndicesNameTheirPatch`: with patch precedence and several reference frames an index
  moves when the list of the frame before has another length than that of the
  reference frame (`PCCEncoder.cpp:8027`, "only 1 previous frame").
- `OnlyPowersFail`: the writer takes `ceilLog2( max )` bits for a size field
  (`PCCBitstreamWriter.cpp:71`), which does not hold `max` itself when it is a power
  of 256; the size is then written as 0.
- `OnlyBoundaryFails`: tile layers are measured as `NAL_SKIP_R` and written with
  their own type, whose header may have one flag more
  (`PCCBitstreamWriter.cpp:392`, `:972`).
- `PatchesKept`: with several reference frames a tile of which no patch finds a
  reference is left without any patch (`PCCEncoder.cpp:1018-1027`).
- `AllGroupsDecoded`: when the files end exactly at the end of a group, the
  encoder goes on with an empty one and writes no stream
  (`EncodeEmptyGroup`, phase "crashed").

## 7. What is not modelled

Video codecs, colour conversion, metrics, checksums and the conformance
library (external, or without state beyond counters); the geometry of
segmentation, packing and reconstruction (floating point; their shared state is
modelled where threads meet on it); image generation and padding; the syntax
inside parameter sets and messages; several atlases, long-term references and
reference lists in tile headers, and merge and skip patches, which this encoder
never writes; where raw and EOM patches are packed; tiles made from segments; the
checks of the command line. `PROJECT.json` gives the
reason for each component.

Abstractions inside the models: `FrameLoader` does not convert the colours of a
loaded frame; `ParallelSmoothing` leaves out the marking of boundary points;
forced precisions above four bytes (undefined shifts) and units of four gigabytes and
more (their size is cast to a `uint32_t`) are excluded; in the
parallel modules the body of a loop is one step where it only writes its own
element. In `TileLayers` the two dimensions are one and the two-dimensional depth
range is not larger than the three-dimensional one. A stream the reader has lost
is not followed further.

## 8. Plan

What is left, in the order of importance.

1. `Packing`: patches never overlap, the canvas only grows; orientation transforms as
   pure operators; the global patch allocation, which moves patches of several frames
   together.
2. `TilePartition`: widths and heights on both sides, tiles made from segments, and the
   patch that is moved to an empty one of them after the EOM patches have been given
   their members (`PCCEncoder.cpp:5204`).
3. The codes of parameter sets and tile headers as the writer lists them
   (`PCCBitstreamWriter.cpp:491-1435`) and as the reader, who knows only what it has read
   or its defaults, lists them (`PCCBitstreamReader.cpp:256-1375`); the payload of
   smoothing messages, of which two functions of the decoder read a different number
   (`PCCDecoder.cpp:624`, `:721`).
4. `BitCodes`: fixed-width, `ue(v)` and `se(v)` codes at the limits of their widths.
5. Compositions: `PatchMatching` with `AtlasFrameOrder` (the reference list in force
   when an index is looked up), `FrameLoader` with `V3CGroups` (the count a load
   with gaps hands to the encoder).
