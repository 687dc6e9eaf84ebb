------------------------- MODULE TileLayers_proofs -------------------------
(***************************************************************************)
(* Proofs about TileLayers for groups of any number of frames, tiles,      *)
(* reference frames and patches, and for every step of depths, bit depth,  *)
(* quantiser and block.  First the arithmetic of one patch: coded without  *)
(* a further loss when it is on its own, the encoder's clamp of a predicted*)
(* range idle, widths coming back as they were.  Then the way of all       *)
(* patches: the encoder's ranges, the tile layers written, what the reader *)
(* makes of them, the decoder's running index, and the rows of raw points. *)
(***************************************************************************)
EXTENDS TileLayers, InductionLemmas, SequenceTheorems, TLAPS

-----------------------------------------------------------------------------
(***************************************************************************)
(* Division.                                                               *)
(***************************************************************************)
LEMMA QuotientBounds ==
  ASSUME NEW a \in Nat, NEW m \in Nat \ {0}
  PROVE  /\ a \div m \in Nat
         /\ m * (a \div m) <= a
         /\ a < m * (a \div m) + m
  OBVIOUS

(* a multiple that is not smaller has a factor that is not smaller *)
LEMMA Cancel ==
  ASSUME NEW m \in Nat \ {0}, NEW q \in Int, NEW k \in Int, m * q < m * k + m
  PROVE  q <= k
<1>1. SUFFICES ASSUME q >= k + 1 PROVE FALSE
  OBVIOUS
<1>2. PICK d \in Nat : q = k + 1 + d
  <2>1. q - (k + 1) \in Nat
    BY <1>1
  <2> QED BY <2>1
<1>3. m * q = m * k + m + m * d
  BY <1>2
<1>4. m * d >= 0
  OBVIOUS
<1> QED BY <1>3, <1>4

(* multiples keep their order *)
LEMMA Monotone ==
  ASSUME NEW m \in Nat, NEW q \in Int, NEW k \in Int, q <= k
  PROVE  m * q <= m * k
<1>1. PICK d \in Nat : k = q + d
  <2>1. k - q \in Nat
    OBVIOUS
  <2> QED BY <2>1
<1>2. m * k = m * q + m * d
  BY <1>1
<1>3. m * d >= 0
  OBVIOUS
<1> QED BY <1>2, <1>3

-----------------------------------------------------------------------------
(***************************************************************************)
(* Depth ranges.                                                           *)
(***************************************************************************)
LEMMA MaxDepthIsNat == MaxDepth \in Nat /\ MaxDepth + 1 = MinLevel * Levels
<1>1. MinLevel * Levels \in Nat /\ MinLevel * Levels >= MinLevel * 1
  BY LevelAssumption, Monotone
<1> QED BY <1>1, LevelAssumption DEF MaxDepth

(* An intra patch: the steps the encoder writes are those the segmenter has *)
(* cut the range to, they fit the field, and the decoder's range is the     *)
(* encoder's (PCCEncoder.cpp:8263, PCCDecoder.cpp:913).                     *)
THEOREM IntraExact ==
  ASSUME NEW depth \in 0 .. MaxDepth
  PROVE  /\ SegmentedSizeD(depth) \in 0 .. MaxDepth
         /\ IntraRange(SegmentedSizeD(depth)) \in 0 .. Levels - 1
         /\ FromSteps(IntraRange(SegmentedSizeD(depth))) = SegmentedSizeD(depth)
         /\ -MinLevel <= SegmentedSizeD(depth) - depth
         /\ SegmentedSizeD(depth) - depth <= MinLevel
<1> USE LevelAssumption, MaxDepthIsNat
<1> DEFINE steps == IF depth = 0 THEN 0 ELSE (depth - 1) \div MinLevel + 1
           k     == Least(steps, Levels - 1)
<1>1. SegmentedSizeD(depth) = FromSteps(k)
  BY DEF SegmentedSizeD
<1>2. /\ steps \in 0 .. Levels
      /\ MinLevel * steps >= depth
      /\ depth # 0 => MinLevel * steps <= depth - 1 + MinLevel
      /\ depth = 0 <=> steps = 0
  <2>1. CASE depth = 0
    BY <2>1
  <2>2. CASE depth # 0
    <3> DEFINE q == (depth - 1) \div MinLevel
    <3>1. depth - 1 \in Nat
      BY <2>2
    <3>2. q \in Nat /\ MinLevel * q <= depth - 1 /\ depth - 1 < MinLevel * q + MinLevel
      BY <3>1, QuotientBounds
    <3> HIDE DEF q
    <3>3. MinLevel * q < MinLevel * (Levels - 1) + MinLevel
      BY <3>2
    <3>4. q <= Levels - 1
      BY <3>2, <3>3, Cancel
    <3>5. steps = q + 1
      BY <2>2 DEF q
    <3> HIDE DEF steps
    <3>6. MinLevel * steps = MinLevel * q + MinLevel
      BY <3>2, <3>5
    <3> QED BY <2>2, <3>2, <3>4, <3>5, <3>6
  <2> QED BY <2>1, <2>2
<1> HIDE DEF steps
<1>3. k \in 0 .. Levels - 1 /\ (k = steps \/ (k = Levels - 1 /\ steps = Levels))
  BY <1>2 DEF Least
<1> HIDE DEF k
<1>4. CASE k = 0
  <2>1. FromSteps(k) = 0 /\ IntraRange(0) = 0
    BY <1>4 DEF FromSteps, IntraRange
  <2>2. depth <= MinLevel
    <3>1. CASE steps = 0
      BY <1>2, <3>1
    <3>2. CASE steps = Levels /\ Levels = 1
      BY <1>2, <3>2
    <3> QED BY <1>3, <1>4, <3>1, <3>2
  <2>3. FromSteps(0) = 0
    BY DEF FromSteps
  <2> QED BY <1>1, <2>1, <2>2, <2>3
<1>5. CASE k # 0
  <2>1. FromSteps(k) = MinLevel * k - 1
    BY <1>3, <1>5 DEF FromSteps
  <2>2. MinLevel * 1 <= MinLevel * k /\ MinLevel * k <= MinLevel * (Levels - 1)
    BY <1>3, <1>5, Monotone
  <2>3. FromSteps(k) \in 0 .. MaxDepth
    BY <2>1, <2>2, <1>3
  <2>4. /\ IntraRange(FromSteps(k)) \in 0 .. Levels - 1
        /\ FromSteps(IntraRange(FromSteps(k))) = FromSteps(k)
    <3>1. CASE FromSteps(k) = 0
      <4>1. IntraRange(0) = 0 /\ FromSteps(0) = 0
        BY DEF IntraRange, FromSteps
      <4> QED BY <3>1, <4>1
    <3>2. CASE FromSteps(k) # 0
      <4> DEFINE q == (MinLevel * k) \div MinLevel
      <4>1. MinLevel * k \in Nat
        BY <2>2, <1>3
      <4>2. q \in Nat /\ MinLevel * q <= MinLevel * k /\ MinLevel * k < MinLevel * q + MinLevel
        BY <4>1, QuotientBounds
      <4>3. IntraRange(FromSteps(k)) = q
        BY <3>2, <2>1, <4>1 DEF IntraRange
      <4> HIDE DEF q
      <4>4. k <= q
        BY <4>2, <1>3, Cancel
      <4>5. MinLevel * q < MinLevel * k + MinLevel
        BY <4>2, <4>1
      <4>6. q <= k
        BY <4>2, <4>5, <1>3, Cancel
      <4>7. q = k
        BY <4>2, <4>4, <4>6, <1>3
      <4> QED BY <4>3, <4>7, <1>3
    <3> QED BY <3>1, <3>2
  <2>5. -MinLevel <= FromSteps(k) - depth /\ FromSteps(k) - depth <= MinLevel
    <3>1. CASE k = steps
      BY <3>1, <1>2, <1>5, <2>1, <2>3
    <3>2. CASE k = Levels - 1 /\ steps = Levels
      <4>1. MinLevel * k = MinLevel * Levels - MinLevel
        BY <3>2
      <4>2. MinLevel * Levels <= depth - 1 + MinLevel
        BY <3>2, <1>2
      <4> QED BY <4>1, <4>2, <2>1, <2>3
    <3> QED BY <1>3, <3>1, <3>2
  <2> QED BY <1>1, <1>3, <2>3, <2>4, <2>5
<1> QED BY <1>4, <1>5

(* An inter patch: whatever the largest depth of the patch and the range of *)
(* its reference, the coded steps lead from the reference to a range that   *)
(* is no more than one step off the depth and never outside the bit depth,  *)
(* so the encoder's clamp does nothing and the decoder, which has none,     *)
(* comes to the same range (PCCEncoder.cpp:8203, PCCDecoder.cpp:995).       *)
THEOREM ClampIsIdle ==
  ASSUME NEW depth \in 0 .. MaxDepth, NEW ref \in 0 .. MaxDepth
  PROVE  /\ EncodedSizeD(depth, ref) = DecodedSizeD(InterRange(depth, ref), ref)
         /\ EncodedSizeD(depth, ref) \in 0 .. MaxDepth
         /\ -MinLevel <= EncodedSizeD(depth, ref) - depth
         /\ EncodedSizeD(depth, ref) - depth <= MinLevel
<1> USE LevelAssumption, MaxDepthIsNat
<1> DEFINE r == InterRange(depth, ref)
           d == ref + FromSteps(r)
<1>1. SUFFICES /\ d \in 0 .. MaxDepth
               /\ -MinLevel <= d - depth
               /\ d - depth <= MinLevel
  <2>1. EncodedSizeD(depth, ref) = ClampDepth(d) /\ DecodedSizeD(r, ref) = d
    BY DEF EncodedSizeD, DecodedSizeD
  <2> HIDE DEF d
  <2>2. d \in 0 .. MaxDepth => ClampDepth(d) = d
    BY DEF ClampDepth, Least, Greatest
  <2> QED BY <2>1, <2>2
<1>2. CASE depth = ref
  <2>1. r = 0
    BY <1>2 DEF InterRange
  <2>2. d = ref
    BY <2>1 DEF FromSteps
  <2> QED BY <1>2, <2>2
<1>3. CASE depth > ref
  <2> DEFINE a == (depth - ref) + 1
             q == a \div MinLevel
  <2>1. a \in Nat
    BY <1>3
  <2>2. q \in Nat /\ MinLevel * q <= a /\ a < MinLevel * q + MinLevel
    BY <2>1, QuotientBounds
  <2>3. r = q
    BY <1>3, <2>1 DEF InterRange, Quot
  <2> HIDE DEF r, q
  <2>4. CASE q = 0
    <3>1. d = ref
      BY <2>3, <2>4 DEF FromSteps
    <3>2. MinLevel * q = 0
      BY <2>4
    <3> QED BY <1>3, <2>2, <3>1, <3>2
  <2>5. CASE q # 0
    <3>1. d = ref + (MinLevel * q - 1)
      BY <2>2, <2>3, <2>5 DEF FromSteps
    <3>2. MinLevel * 1 <= MinLevel * q
      BY <2>2, <2>5, Monotone
    <3>3. MinLevel * q \in Int
      BY <2>2
    <3> HIDE DEF d
    <3> QED BY <1>3, <2>2, <3>1, <3>2, <3>3
  <2> QED BY <2>4, <2>5
<1>4. CASE depth < ref
  <2> DEFINE b == (ref - depth) - 1
             q == b \div MinLevel
  <2>1. b \in Nat
    BY <1>4
  <2>2. q \in Nat /\ MinLevel * q <= b /\ b < MinLevel * q + MinLevel
    BY <2>1, QuotientBounds
  <2>3. r = -q
    <3>1. (depth - ref) + 1 = -b
      OBVIOUS
    <3>2. InterRange(depth, ref) = Quot(-b, MinLevel)
      BY <1>4, <3>1 DEF InterRange
    <3>3. CASE b = 0
      <4>1. q = 0
        <5>1. MinLevel * q < MinLevel * 0 + MinLevel
          BY <2>2, <3>3
        <5>2. q <= 0
          BY <2>2, <5>1, Cancel
        <5> QED BY <2>2, <5>2
      <4>2. Quot(-b, MinLevel) = q
        BY <3>3 DEF Quot
      <4> QED BY <3>2, <4>1, <4>2
    <3>4. CASE b # 0
      <4>1. ~(-b >= 0) /\ -(-b) = b
        BY <2>1, <3>4
      <4>2. Quot(-b, MinLevel) = -q
        BY <4>1 DEF Quot
      <4> QED BY <3>2, <4>2
    <3> QED BY <3>3, <3>4
  <2> HIDE DEF r, q
  <2>4. CASE q = 0
    <3>1. r = 0
      <4>1. r = 0 - q
        BY <2>2, <2>3
      <4> QED BY <2>4, <4>1
    <3>2. d = ref
      BY <3>1 DEF FromSteps
    <3>3. MinLevel * q = 0
      BY <2>4
    <3> QED BY <1>4, <2>2, <3>2, <3>3
  <2>5. CASE q # 0
    <3>1. d = ref - MinLevel * q - 1
      <4>1. -q # 0 /\ (-q) * MinLevel = -(MinLevel * q)
        BY <2>2, <2>5
      <4> QED BY <2>2, <2>3, <4>1 DEF FromSteps
    <3>2. MinLevel * 1 <= MinLevel * q
      BY <2>2, <2>5, Monotone
    <3>3. MinLevel * q \in Int
      BY <2>2
    <3> HIDE DEF d
    <3> QED BY <1>4, <2>2, <3>1, <3>2, <3>3
  <2> QED BY <2>4, <2>5
<1> QED BY <1>2, <1>3, <1>4

-----------------------------------------------------------------------------
(***************************************************************************)
(* Widths.                                                                 *)
(***************************************************************************)
LEMMA QuotientIs ==
  ASSUME NEW m \in Nat \ {0}, NEW a \in Nat, NEW k \in Nat, m * k <= a, a < m * k + m
  PROVE  a \div m = k
<1> DEFINE q == a \div m
<1>1. q \in Nat /\ m * q <= a /\ a < m * q + m
  BY QuotientBounds
<1> HIDE DEF q
<1>2. m * q \in Int /\ m * k \in Int
  BY <1>1
<1>3. m * q < m * k + m /\ m * k < m * q + m
  BY <1>1, <1>2
<1>4. q <= k /\ k <= q
  BY <1>1, <1>3, Cancel
<1>5. q = k
  BY <1>1, <1>4
<1> QED BY <1>5 DEF q

(* a rounded-up quotient covers its number by less than one divisor *)
LEMMA CeilingBounds ==
  ASSUME NEW m \in Nat \ {0}, NEW a \in Nat \ {0}
  PROVE  /\ Ceiling(a, m) \in Nat \ {0}
         /\ a <= m * Ceiling(a, m)
         /\ m * Ceiling(a, m) < a + m
<1> DEFINE q == (a + (m - 1)) \div m
<1>1. a + (m - 1) \in Nat
  OBVIOUS
<1>2. q \in Nat /\ m * q <= a + (m - 1) /\ a + (m - 1) < m * q + m
  BY <1>1, QuotientBounds
<1>3. Ceiling(a, m) = q
  BY DEF Ceiling
<1> HIDE DEF q
<1>4. m * q \in Int
  BY <1>2
<1>5. a <= m * q /\ m * q < a + m
  BY <1>2, <1>4
<1>6. q # 0
  BY <1>5
<1> QED BY <1>2, <1>3, <1>5, <1>6

(* a rounded width is a whole number of steps of the quantiser *)
LEMMA WholeSteps ==
  ASSUME NEW q \in Nat \ {0}, NEW pixels \in Nat \ {0}
  PROVE  \E k \in Nat \ {0} : /\ PixelsOf(pixels, q) = q * k
                              /\ PixelsOf(pixels, q) \div q = k
                              /\ (PixelsOf(pixels, q) - 1) \div q = k - 1
<1>1. PICK k \in Nat \ {0} : k = Ceiling(pixels, q)
  BY CeilingBounds
<1>2. PixelsOf(pixels, q) = q * k
  BY <1>1 DEF PixelsOf
<1>3. (q * k) \div q = k
  <2>1. q * k \in Nat
    OBVIOUS
  <2> QED BY <2>1, QuotientIs
<1>4. (q * k - 1) \div q = k - 1
  <2>1. q * (k - 1) = q * k - q /\ q * k \in Nat /\ k - 1 \in Nat
    OBVIOUS
  <2>2. q * 1 <= q * k
    BY Monotone
  <2>3. q * k - 1 \in Nat
    BY <2>1, <2>2
  <2>4. q * (k - 1) <= q * k - 1 /\ q * k - 1 < q * (k - 1) + q
    BY <2>1
  <2> QED BY <2>1, <2>3, <2>4, QuotientIs
<1> QED BY <1>2, <1>3, <1>4

(* With a quantiser the decoder rebuilds the width in pixels that the       *)
(* segmenter rounded up, from the size of an intra patch and from the       *)
(* difference of an inter patch alike (PCCEncoder.cpp:8185-8191 and         *)
(* 8253-8255, PCCDecoder.cpp:915 and 981).                                  *)
THEOREM WidthsExact ==
  ASSUME NEW q \in Nat \ {0}, NEW pixels \in Nat \ {0}, NEW old \in Nat \ {0},
         NEW blocks, NEW oldBlocks
  PROVE  /\ DecodedIntra(TRUE, q, IntraSize(TRUE, q, PixelsOf(pixels, q), blocks))[1]
              = PixelsOf(pixels, q)
         /\ DecodedInter(TRUE, q, InterSize(TRUE, q, PixelsOf(pixels, q), blocks,
                                            PixelsOf(old, q), oldBlocks),
                         PixelsOf(old, q), oldBlocks)[1]
              = PixelsOf(pixels, q)
<1>1. PICK k \in Nat \ {0} : PixelsOf(pixels, q) = q * k /\ (q * k) \div q = k
                            /\ (q * k - 1) \div q = k - 1
  BY WholeSteps
<1>2. PICK o \in Nat \ {0} : PixelsOf(old, q) = q * o /\ (q * o) \div q = o
  BY WholeSteps
<1>3. DecodedIntra(TRUE, q, IntraSize(TRUE, q, q * k, blocks))[1] = q * k
  <2>1. IntraSize(TRUE, q, q * k, blocks) = k - 1
    BY <1>1 DEF IntraSize
  <2>2. DecodedIntra(TRUE, q, k - 1)[1] = ((k - 1) + 1) * q
    BY DEF DecodedIntra
  <2>3. ((k - 1) + 1) * q = q * k
    OBVIOUS
  <2> QED BY <2>1, <2>2, <2>3
<1>4. DecodedInter(TRUE, q, InterSize(TRUE, q, q * k, blocks, q * o, oldBlocks), q * o, oldBlocks)[1] = q * k
  <2>1. InterSize(TRUE, q, q * k, blocks, q * o, oldBlocks) = k - o
    BY <1>1, <1>2 DEF InterSize
  <2>2. DecodedInter(TRUE, q, k - o, q * o, oldBlocks)[1] = q * o + (k - o) * q
    BY DEF DecodedInter
  <2>3. q * o + (k - o) * q = q * k
    OBVIOUS
  <2> QED BY <2>1, <2>2, <2>3
<1> QED BY <1>1, <1>2, <1>3, <1>4

(* A quantiser that divides the block does not change the blocks a patch    *)
(* covers, so the decoder, which derives them from the pixels, has as many  *)
(* as the segmenter (PCCPatchSegmenter.cpp:1052-1078, PCCDecoder.cpp:917).  *)
THEOREM BlocksKept ==
  ASSUME NEW q \in Nat \ {0}, NEW j \in Nat \ {0}, Block = q * j, NEW pixels \in Nat \ {0}
  PROVE  Ceiling(PixelsOf(pixels, q), Block) = BlocksOf(pixels)
<1> USE BlockAssumption
<1>1. PICK k \in Nat \ {0} : k = Ceiling(pixels, q) /\ pixels <= q * k /\ q * k < pixels + q
  BY CeilingBounds
<1>2. PixelsOf(pixels, q) = q * k
  BY <1>1 DEF PixelsOf
<1>3. PICK n \in Nat : /\ n = (pixels - 1) \div Block
                       /\ Block * n <= pixels - 1
                       /\ pixels - 1 < Block * n + Block
  <2>1. pixels - 1 \in Nat
    OBVIOUS
  <2> QED BY <2>1, QuotientBounds
<1>4. PICK w \in Int : w = q * k
  OBVIOUS
<1>5. PICK z \in Int : z = Block * n
  OBVIOUS
<1>6. w <= z + Block
  <2>1. z + Block = q * (j * (n + 1))
    BY <1>5
  <2>2. j * (n + 1) \in Nat
    OBVIOUS
  <2>3. pixels <= q * (j * (n + 1))
    BY <1>3, <1>5, <2>1
  <2>4. PICK y \in Nat : y = j * (n + 1)
    BY <2>2
  <2>5. q * y \in Int /\ q * k < q * y + q
    BY <1>1, <2>3, <2>4
  <2>6. k <= y
    BY <2>5, Cancel
  <2>7. q * k <= q * y
    BY <2>6, Monotone
  <2> QED BY <1>4, <2>1, <2>4, <2>7
<1>7. z < w
  BY <1>1, <1>3, <1>4, <1>5
<1>8. (w + (Block - 1)) \div Block = n + 1
  <2>1. Block * (n + 1) = z + Block
    BY <1>5
  <2>2. w + (Block - 1) \in Nat /\ n + 1 \in Nat
    BY <1>1, <1>4
  <2>3. Block * (n + 1) <= w + (Block - 1) /\ w + (Block - 1) < Block * (n + 1) + Block
    BY <1>6, <1>7, <2>1
  <2> QED BY <2>2, <2>3, QuotientIs
<1>9. Ceiling(q * k, Block) = n + 1
  BY <1>4, <1>8 DEF Ceiling
<1>10. BlocksOf(pixels) = n + 1
  BY <1>3 DEF BlocksOf
<1> QED BY <1>2, <1>9, <1>10

-----------------------------------------------------------------------------
(***************************************************************************)
(* The encoder.                                                            *)
(***************************************************************************)
LEMMA AppendAny ==
  ASSUME NEW S, NEW s \in Seq(S), NEW x
  PROVE  Append(s, x) \in Seq(S \cup {x}) /\ Len(Append(s, x)) = Len(s) + 1
<1>1. s \in Seq(S \cup {x})
  BY SeqMonotonic
<1> QED BY <1>1, AppendProperties

(* tile layers are numbered frame by frame *)
LEMMA Numbering ==
  ASSUME NEW T \in Nat \ {0}, NEW n \in Nat
  PROVE  /\ n \div T \in Nat
         /\ (n % T) + 1 \in 1 .. T
         /\ T * (n \div T) + ((n % T) + 1) = n + 1
  OBVIOUS

(* a place in coding order has one frame and one tile *)
LEMMA NumberedOnce ==
  ASSUME NEW T \in Nat \ {0}, NEW f \in Int, NEW g \in Int,
         NEW t \in 1 .. T, NEW u \in 1 .. T, T * f + t = T * g + u
  PROVE  f = g /\ t = u
<1>1. T * f < T * g + T /\ T * g < T * f + T
  <2>1. T * f \in Int /\ T * g \in Int
    OBVIOUS
  <2> QED BY <2>1
<1>2. f <= g /\ g <= f
  BY <1>1, Cancel
<1>3. f = g
  BY <1>2
<1> QED BY <1>3

(* the place of a tile in the order of the layers *)
Place(f, t) == NumTiles * (f - 1) + t

(* every patch of a tile has a range, near its depth *)
NearDepths(f, t) ==
  /\ DOMAIN sizeD[f][t] = DOMAIN Patches(f, t)
  /\ \A i \in DOMAIN Patches(f, t) :
       /\ sizeD[f][t][i] \in 0 .. MaxDepth
       /\ -MinLevel <= sizeD[f][t][i] - Patches(f, t)[i].depth
       /\ sizeD[f][t][i] - Patches(f, t)[i].depth <= MinLevel

(* the strengthening: all tiles whose place has been reached are done *)
DepthInv ==
  /\ group \in Groups
  /\ \E S : layers \in Seq(S)
  /\ DOMAIN sizeD = 1 .. NumFrames
  /\ \A f \in 1 .. NumFrames : DOMAIN sizeD[f] = 1 .. NumTiles
  /\ \A f \in 1 .. NumFrames, t \in 1 .. NumTiles :
       Place(f, t) <= Len(layers) => NearDepths(f, t)

(* what the theorem says: the patches of every tile layer coded so far *)
CodedDepths ==
  \A l \in 1 .. Len(layers) : NearDepths(FrameOf(l), TileOf(l))

(* a group has a frame and a tile, and frames and tiles as the first has *)
LEMMA Sizes ==
  ASSUME group \in Groups
  PROVE  /\ NumFrames \in Nat \ {0} /\ NumTiles \in Nat \ {0}
         /\ \A f \in 1 .. NumFrames, t \in 1 .. NumTiles :
              Patches(f, t) \in Seq(PatchType) /\ group.raw[f][t] \in Nat
         /\ \A f \in 1 .. NumFrames : group.raw[f] \in Seq(Nat) /\ Len(group.raw[f]) = NumTiles
<1>1. /\ group.frames \in Seq(Seq(Seq(PatchType))) /\ group.raw \in Seq(Seq(Nat))
      /\ Len(group.frames) # 0 /\ Len(group.frames[1]) # 0 /\ Len(group.raw) = Len(group.frames)
      /\ \A f \in 1 .. Len(group.frames) :
           Len(group.frames[f]) = Len(group.frames[1]) /\ Len(group.raw[f]) = Len(group.frames[1])
  BY GroupAssumption
<1>2. NumFrames \in Nat \ {0} /\ NumFrames = Len(group.frames)
  BY <1>1 DEF NumFrames
<1>3. \A f \in 1 .. NumFrames : group.frames[f] \in Seq(Seq(PatchType)) /\ group.raw[f] \in Seq(Nat)
  BY <1>1, <1>2
<1>4. NumTiles \in Nat \ {0} /\ NumTiles = Len(group.frames[1])
  BY <1>1, <1>2, <1>3 DEF NumTiles
<1>5. ASSUME NEW f \in 1 .. NumFrames, NEW t \in 1 .. NumTiles
      PROVE  Patches(f, t) \in Seq(PatchType) /\ group.raw[f][t] \in Nat
  <2>1. Len(group.frames[f]) = NumTiles /\ Len(group.raw[f]) = NumTiles
    BY <1>1, <1>2, <1>4
  <2> QED BY <1>3, <2>1 DEF Patches
<1> QED BY <1>1, <1>2, <1>3, <1>4, <1>5

(* a patch has its fields, and its match is a patch of an earlier frame *)
LEMMA PatchAt ==
  ASSUME group \in Groups, NEW f \in 1 .. NumFrames, NEW t \in 1 .. NumTiles,
         NEW i \in DOMAIN Patches(f, t), NEW p, p = Patches(f, t)[i]
  PROVE  /\ p.best \in Nat \cup {NoMatch} /\ p.ref \in Nat
         /\ p.depth \in 0 .. MaxDepth /\ p.pixels \in Nat \ {0}
         /\ IsInter(f, t, i) =>
              /\ p.best \in Nat
              /\ RefFrame(f, p.ref) \in 1 .. f - 1 /\ RefFrame(f, p.ref) \in 1 .. NumFrames
              /\ p.best + 1 \in DOMAIN Patches(RefFrame(f, p.ref), t)
<1>1. p \in PatchType /\ NumFrames \in Nat \ {0}
  BY Sizes
<1>2. /\ p.best \in Nat \cup {NoMatch} /\ p.ref \in Nat
      /\ p.depth \in 0 .. MaxDepth /\ p.pixels \in Nat \ {0}
  BY <1>1 DEF PatchType
<1>3. ASSUME IsInter(f, t, i)
      PROVE  /\ p.best \in Nat
             /\ RefFrame(f, p.ref) \in 1 .. f - 1 /\ RefFrame(f, p.ref) \in 1 .. NumFrames
             /\ p.best + 1 \in DOMAIN Patches(RefFrame(f, p.ref), t)
  <2>1. f > 1 /\ p.best # NoMatch
    BY <1>3 DEF IsInter, TileType
  <2>2. f \in 2 .. Len(group.frames) /\ t \in 1 .. Len(group.frames[1]) /\ i \in DOMAIN group.frames[f][t]
    BY <2>1 DEF NumFrames, NumTiles, Patches
  <2>3. p.ref \in 0 .. f - 2 /\ p.best + 1 \in DOMAIN group.frames[f - 1 - p.ref][t]
    BY <2>1, <2>2, MatchAssumption DEF Patches
  <2> QED BY <1>1, <1>2, <2>1, <2>3 DEF RefFrame, Patches
<1> QED BY <1>2, <1>3

(* the tile layer after n others is that of a tile, at its place *)
LEMMA NextPlace ==
  ASSUME group \in Groups, NEW n \in Nat, n < NumLayers
  PROVE  /\ FrameOf(n + 1) \in 1 .. NumFrames /\ TileOf(n + 1) \in 1 .. NumTiles
         /\ Place(FrameOf(n + 1), TileOf(n + 1)) = n + 1
<1> DEFINE f == FrameOf(n + 1)
           t == TileOf(n + 1)
<1>1. NumFrames \in Nat \ {0} /\ NumTiles \in Nat \ {0}
  BY Sizes
<1>2. f = n \div NumTiles + 1 /\ t = (n % NumTiles) + 1
  <2>1. (n + 1) - 1 = n
    OBVIOUS
  <2> QED BY <2>1 DEF FrameOf, TileOf
<1>3. /\ n \div NumTiles \in Nat
      /\ (n % NumTiles) + 1 \in 1 .. NumTiles
      /\ NumTiles * (n \div NumTiles) + ((n % NumTiles) + 1) = n + 1
  BY <1>1, Numbering
<1> HIDE DEF f, t
<1>4. f - 1 \in Nat /\ f \in Nat /\ t \in 1 .. NumTiles /\ NumTiles * (f - 1) + t = n + 1
  <2>1. f - 1 = n \div NumTiles
    BY <1>2, <1>3
  <2> QED BY <1>2, <1>3, <2>1
<1>5. f - 1 <= NumFrames - 1
  <2>1. NumTiles * (f - 1) \in Int /\ NumTiles * (f - 1) <= n
    BY <1>1, <1>4
  <2>2. NumTiles * (NumFrames - 1) + NumTiles = NumFrames * NumTiles /\ NumFrames * NumTiles \in Int
    BY <1>1
  <2>3. NumTiles * (f - 1) < NumTiles * (NumFrames - 1) + NumTiles
    BY <2>1, <2>2 DEF NumLayers
  <2> QED BY <1>1, <1>4, <2>3, Cancel
<1> QED BY <1>1, <1>4, <1>5 DEF f, t, Place

(* places are numbers, each of one tile, and grow with the frame *)
LEMMA Places ==
  ASSUME group \in Groups, NEW f \in 1 .. NumFrames, NEW t \in 1 .. NumTiles,
         NEW g \in 1 .. NumFrames, NEW u \in 1 .. NumTiles
  PROVE  /\ Place(f, t) \in Nat \ {0}
         /\ Place(f, t) = Place(g, u) => f = g /\ t = u
         /\ g < f => Place(g, u) < Place(f, t)
<1>1. NumFrames \in Nat \ {0} /\ NumTiles \in Nat \ {0} /\ f - 1 \in Nat /\ g - 1 \in Nat
  BY Sizes
<1>2. NumTiles * (f - 1) \in Nat /\ NumTiles * (g - 1) \in Nat
  BY <1>1
<1>3. ASSUME Place(f, t) = Place(g, u) PROVE f = g /\ t = u
  <2>1. f - 1 = g - 1 /\ t = u
    BY <1>1, <1>3, NumberedOnce DEF Place
  <2> QED BY <2>1
<1>4. ASSUME g < f PROVE Place(g, u) < Place(f, t)
  <2>1. NumTiles * (g - 1) <= NumTiles * (f - 2)
    BY <1>1, <1>4, Monotone
  <2>2. NumTiles * (f - 2) = NumTiles * (f - 1) - NumTiles
    BY <1>1
  <2> QED BY <1>1, <1>2, <2>1, <2>2 DEF Place
<1> QED BY <1>2, <1>3, <1>4 DEF Place

(* before the first tile layer no place has been reached *)
LEMMA DepthInit == Init => DepthInv
<1> SUFFICES ASSUME Init PROVE DepthInv
  OBVIOUS
<1>1. group \in Groups /\ layers = <<>>
  BY DEF Init
<1>2. layers \in Seq({}) /\ Len(layers) = 0
  BY <1>1
<1>3. /\ DOMAIN sizeD = 1 .. NumFrames
      /\ \A f \in 1 .. NumFrames : DOMAIN sizeD[f] = 1 .. NumTiles
  BY DEF Init, NumFrames, NumTiles
<1>4. ASSUME NEW f \in 1 .. NumFrames, NEW t \in 1 .. NumTiles
      PROVE  ~(Place(f, t) <= Len(layers))
  <2>1. NumTiles \in Nat \ {0} /\ f - 1 \in Nat
    BY <1>1, Sizes
  <2>2. NumTiles * (f - 1) \in Nat
    BY <2>1
  <2> QED BY <1>2, <2>2 DEF Place
<1> QED BY <1>1, <1>2, <1>3, <1>4 DEF DepthInv

(* the step that codes a tile: its references are in earlier frames, whose *)
(* places have all been reached                                             *)
LEMMA DepthEncode == DepthInv /\ EncodeTile => DepthInv'
<1> SUFFICES ASSUME DepthInv, EncodeTile PROVE DepthInv'
  OBVIOUS
<1>1. group \in Groups /\ group' = group /\ NumFrames \in Nat \ {0} /\ NumTiles \in Nat \ {0}
  BY Sizes DEF DepthInv, EncodeTile
<1>2. NumFrames' = NumFrames /\ NumTiles' = NumTiles
  BY <1>1 DEF NumFrames, NumTiles
<1>3. PICK S : layers \in Seq(S)
  BY DEF DepthInv
<1>4. PICK n \in Nat : Len(layers) = n
  BY <1>3
<1>5. PICK x : layers' = Append(layers, x)
  BY DEF EncodeTile
<1>6. layers' \in Seq(S \cup {x}) /\ Len(layers') = n + 1
  BY <1>3, <1>4, <1>5, AppendAny
<1>7. n < NumFrames * NumTiles
  BY <1>4 DEF EncodeTile, NumLayers
<1>8. PICK f, t : f = FrameOf(n + 1) /\ t = TileOf(n + 1)
  OBVIOUS
<1>9. f \in 1 .. NumFrames /\ t \in 1 .. NumTiles /\ Place(f, t) = n + 1
  BY <1>1, <1>7, <1>8, NextPlace DEF NumLayers
<1>11. PICK new : /\ sizeD' = [sizeD EXCEPT ![f][t] = new]
                  /\ DOMAIN new = DOMAIN Patches(f, t)
                  /\ \A i \in DOMAIN Patches(f, t) : new[i] = RangeAfter(f, t, i)
  <2> DEFINE made == [i \in DOMAIN Patches(f, t) |-> RangeAfter(f, t, i)]
  <2>1. sizeD' = [sizeD EXCEPT ![f][t] = made]
    BY <1>4, <1>8 DEF EncodeTile
  <2>2. DOMAIN made = DOMAIN Patches(f, t)
    OBVIOUS
  <2>3. \A i \in DOMAIN Patches(f, t) : made[i] = RangeAfter(f, t, i)
    OBVIOUS
  <2> HIDE DEF made
  <2> QED BY <2>1, <2>2, <2>3
<1>12. /\ DOMAIN sizeD' = 1 .. NumFrames
       /\ \A g \in 1 .. NumFrames : DOMAIN sizeD'[g] = 1 .. NumTiles
  BY <1>11, <1>9 DEF DepthInv
<1>13. sizeD'[f][t] = new
  BY <1>11, <1>9 DEF DepthInv
<1>14. ASSUME NEW i \in DOMAIN Patches(f, t)
       PROVE  /\ RangeAfter(f, t, i) \in 0 .. MaxDepth
              /\ -MinLevel <= RangeAfter(f, t, i) - Patches(f, t)[i].depth
              /\ RangeAfter(f, t, i) - Patches(f, t)[i].depth <= MinLevel
  <2>1. PICK p : p = Patches(f, t)[i]
    OBVIOUS
  <2>2. p.depth \in 0 .. MaxDepth
    BY <1>1, <1>9, <2>1, PatchAt
  <2>3. CASE ~IsInter(f, t, i)
    <3>1. RangeAfter(f, t, i) = SegmentedSizeD(p.depth)
      BY <2>1, <2>3 DEF RangeAfter
    <3>2. /\ SegmentedSizeD(p.depth) \in 0 .. MaxDepth
          /\ -MinLevel <= SegmentedSizeD(p.depth) - p.depth
          /\ SegmentedSizeD(p.depth) - p.depth <= MinLevel
      BY <2>2, IntraExact
    <3> QED BY <2>1, <3>1, <3>2
  <2>4. CASE IsInter(f, t, i)
    <3>1. PICK g : g = RefFrame(f, p.ref)
      OBVIOUS
    <3>2. g \in 1 .. f - 1 /\ g \in 1 .. NumFrames /\ p.best + 1 \in DOMAIN Patches(g, t)
      BY <1>1, <1>9, <2>1, <2>4, <3>1, PatchAt
    <3>3. Place(g, t) <= Len(layers)
      <4>1. Place(g, t) \in Nat /\ Place(g, t) < Place(f, t)
        BY <1>1, <1>9, <3>2, Places
      <4> QED BY <1>4, <1>9, <4>1
    <3>6. NearDepths(g, t)
      BY <1>9, <3>2, <3>3 DEF DepthInv
    <3>7. sizeD[g][t][p.best + 1] \in 0 .. MaxDepth
      BY <3>2, <3>6 DEF NearDepths
    <3>8. RangeAfter(f, t, i) = EncodedSizeD(p.depth, sizeD[g][t][p.best + 1])
      BY <2>1, <2>4, <3>1 DEF RangeAfter
    <3>9. /\ EncodedSizeD(p.depth, sizeD[g][t][p.best + 1]) \in 0 .. MaxDepth
          /\ -MinLevel <= EncodedSizeD(p.depth, sizeD[g][t][p.best + 1]) - p.depth
          /\ EncodedSizeD(p.depth, sizeD[g][t][p.best + 1]) - p.depth <= MinLevel
      BY <2>2, <3>7, ClampIsIdle
    <3> QED BY <2>1, <3>8, <3>9
  <2> QED BY <2>3, <2>4
<1>15. \A g, u : Patches(g, u)' = Patches(g, u)
  BY <1>1 DEF Patches
<1>16. NearDepths(f, t)'
  <2>1. Patches(f, t)' = Patches(f, t)
    BY <1>15
  <2>2. \A i \in DOMAIN Patches(f, t) :
          /\ new[i] \in 0 .. MaxDepth
          /\ -MinLevel <= new[i] - Patches(f, t)[i].depth
          /\ new[i] - Patches(f, t)[i].depth <= MinLevel
    BY <1>11, <1>14
  <2> QED BY <1>11, <1>13, <2>1, <2>2 DEF NearDepths
<1>17. ASSUME NEW g \in 1 .. NumFrames, NEW u \in 1 .. NumTiles, (Place(g, u) <= Len(layers))'
       PROVE  NearDepths(g, u)'
  <2>1. Place(g, u) \in Nat /\ Place(g, u)' = Place(g, u)
    BY <1>1, <1>2, Places DEF Place
  <2>2. CASE Place(g, u) <= n
    <3>1. NearDepths(g, u)
      BY <1>4, <2>2 DEF DepthInv
    <3>2. ~(g = f /\ u = t)
      BY <1>9, <2>2
    <3>3. sizeD'[g][u] = sizeD[g][u]
      BY <1>9, <1>11, <3>2 DEF DepthInv
    <3>4. Patches(g, u)' = Patches(g, u)
      BY <1>15
    <3> QED BY <3>1, <3>3, <3>4 DEF NearDepths
  <2>3. CASE Place(g, u) = n + 1
    <3>1. g = f /\ u = t
      BY <1>1, <1>9, <2>3, Places
    <3> QED BY <1>16, <3>1
  <2> QED BY <1>6, <1>17, <2>1, <2>2, <2>3
<1>18. \A g \in 1 .. NumFrames, u \in 1 .. NumTiles :
         (Place(g, u) <= Len(layers))' => NearDepths(g, u)'
  BY <1>17
<1>19. \E R : layers' \in Seq(R)
  BY <1>6
<1> QED BY <1>1, <1>2, <1>12, <1>18, <1>19 DEF DepthInv

(* every step keeps the depth of the tiles already coded *)
LEMMA DepthNext == DepthInv /\ [Next]_vars => DepthInv'
<1> SUFFICES ASSUME DepthInv, [Next]_vars PROVE DepthInv'
  OBVIOUS
<1>1. CASE EncodeTile
  BY <1>1, DepthEncode
<1>2. ASSUME UNCHANGED <<group, layers, sizeD>> PROVE DepthInv'
  <2>1. NumFrames' = NumFrames /\ NumTiles' = NumTiles
    BY <1>2 DEF NumFrames, NumTiles
  <2>2. \A f, t : Place(f, t)' = Place(f, t) /\ NearDepths(f, t)' = NearDepths(f, t)
    BY <1>2, <2>1 DEF Place, NearDepths, Patches
  <2> QED BY <1>2, <2>1, <2>2 DEF DepthInv
<1>3. CASE EndEncode
  BY <1>2, <1>3 DEF EndEncode
<1>4. CASE ReadTile
  BY <1>2, <1>4 DEF ReadTile
<1>5. CASE EndRead
  BY <1>2, <1>5 DEF EndRead
<1>6. CASE BuildTile
  BY <1>2, <1>6 DEF BuildTile
<1>7. CASE EndBuild
  BY <1>2, <1>7 DEF EndBuild
<1>8. CASE Finished \/ UNCHANGED vars
  BY <1>2, <1>8 DEF Finished, vars
<1> QED BY <1>1, <1>3, <1>4, <1>5, <1>6, <1>7, <1>8 DEF Next

-----------------------------------------------------------------------------
(***************************************************************************)
(* What has been coded: every tile layer is that of its place, and its     *)
(* ranges are those the encoder went on with.                              *)
(***************************************************************************)
LayersInv ==
  /\ Len(layers) <= NumLayers
  /\ phase # "encode" => Len(layers) = NumLayers
  /\ \A l \in 1 .. Len(layers) :
       /\ layers[l].frame = FrameOf(l) /\ layers[l].tile = TileOf(l)
       /\ layers[l].units = Units(FrameOf(l), TileOf(l))
       /\ layers[l].raw = (group.raw[FrameOf(l)][TileOf(l)] > 0)
  /\ \A f \in 1 .. NumFrames, t \in 1 .. NumTiles :
       Place(f, t) <= Len(layers) =>
         \A i \in DOMAIN Patches(f, t) : sizeD[f][t][i] = RangeAfter(f, t, i)

(* what a tile is coded as depends on its references only *)
LEMMA CodedFromReferences ==
  ASSUME group \in Groups, group' = group, NEW f \in 1 .. NumFrames, NEW t \in 1 .. NumTiles,
         \A g \in 1 .. NumFrames : g < f => sizeD'[g][t] = sizeD[g][t]
  PROVE  /\ Units(f, t)' = Units(f, t)
         /\ \A i \in DOMAIN Patches(f, t) : RangeAfter(f, t, i)' = RangeAfter(f, t, i)
<1>1. /\ \A g, u : Patches(g, u)' = Patches(g, u)
      /\ \A i : IsInter(f, t, i)' = IsInter(f, t, i)
      /\ PredIndex(f, t)' = PredIndex(f, t)
  BY DEF Patches, IsInter, TileType, PredIndex
<1>2. ASSUME NEW i \in DOMAIN Patches(f, t), IsInter(f, t, i)
      PROVE  LET p == Patches(f, t)[i]
             IN  sizeD'[RefFrame(f, p.ref)][t] = sizeD[RefFrame(f, p.ref)][t]
  <2>1. PICK p : p = Patches(f, t)[i]
    OBVIOUS
  <2>2. RefFrame(f, p.ref) \in 1 .. f - 1 /\ RefFrame(f, p.ref) \in 1 .. NumFrames
    BY <1>2, <2>1, PatchAt
  <2> QED BY <2>1, <2>2
<1>3. ASSUME NEW i \in DOMAIN Patches(f, t)
      PROVE  /\ RangeAfter(f, t, i)' = RangeAfter(f, t, i)
             /\ IsInter(f, t, i) => InterUnit(f, t, i)' = InterUnit(f, t, i)
             /\ IntraUnit(f, t, i)' = IntraUnit(f, t, i)
  <2>1. RangeAfter(f, t, i)' = RangeAfter(f, t, i)
    BY <1>1, <1>2 DEF RangeAfter, RefFrame
  <2>2. IsInter(f, t, i) => InterUnit(f, t, i)' = InterUnit(f, t, i)
    BY <1>1, <1>2 DEF InterUnit, RefFrame, RefPatchIndex, Pixels, Blocks
  <2>3. IntraUnit(f, t, i)' = IntraUnit(f, t, i)
    BY <1>1 DEF IntraUnit, Pixels, Blocks
  <2> QED BY <2>1, <2>2, <2>3
<1>4. Units(f, t)' = Units(f, t)
  BY <1>1, <1>3 DEF Units
<1> QED BY <1>3, <1>4

LEMMA LayersInit == Init => LayersInv
<1> SUFFICES ASSUME Init PROVE LayersInv
  OBVIOUS
<1>1. DepthInv /\ group \in Groups /\ layers = <<>> /\ phase = "encode"
  BY DepthInit DEF Init
<1>2. Len(layers) = 0
  BY <1>1
<1>3. NumLayers \in Nat
  BY <1>1, Sizes DEF NumLayers
<1>4. \A f \in 1 .. NumFrames, t \in 1 .. NumTiles : ~(Place(f, t) <= 0)
  BY <1>1, Places
<1> QED BY <1>1, <1>2, <1>3, <1>4 DEF LayersInv

(* the layer that is appended is that of its place; those before refer to  *)
(* places before it                                                        *)
LEMMA LayersEncode == DepthInv /\ LayersInv /\ EncodeTile => LayersInv'
<1> SUFFICES ASSUME DepthInv, LayersInv, EncodeTile PROVE LayersInv'
  OBVIOUS
<1>1. group \in Groups /\ group' = group /\ phase' = phase
      /\ NumFrames \in Nat \ {0} /\ NumTiles \in Nat \ {0}
  BY Sizes DEF DepthInv, EncodeTile
<1>2. NumFrames' = NumFrames /\ NumTiles' = NumTiles /\ NumLayers' = NumLayers
  BY <1>1 DEF NumFrames, NumTiles, NumLayers
<1>3. PICK S : layers \in Seq(S)
  BY DEF DepthInv
<1>4. PICK n \in Nat : Len(layers) = n
  BY <1>3
<1>5. phase = "encode" /\ n < NumLayers
  BY <1>4 DEF EncodeTile
<1>6. PICK f, t : f = FrameOf(n + 1) /\ t = TileOf(n + 1)
  OBVIOUS
<1>7. f \in 1 .. NumFrames /\ t \in 1 .. NumTiles /\ Place(f, t) = n + 1
  BY <1>1, <1>5, <1>6, NextPlace
<1>8. PICK x : /\ layers' = Append(layers, x)
               /\ x.frame = f /\ x.tile = t /\ x.units = Units(f, t)
               /\ x.raw = (group.raw[f][t] > 0)
  BY <1>4, <1>6 DEF EncodeTile
<1>9. /\ Len(layers') = n + 1 /\ layers'[n + 1] = x
      /\ \A l \in 1 .. n : layers'[l] = layers[l]
  BY <1>3, <1>4, <1>8
<1>10. /\ \A g \in 1 .. NumFrames, u \in 1 .. NumTiles : ~(g = f /\ u = t) => sizeD'[g][u] = sizeD[g][u]
       /\ \A i \in DOMAIN Patches(f, t) : sizeD'[f][t][i] = RangeAfter(f, t, i)
  <2> DEFINE made == [i \in DOMAIN Patches(f, t) |-> RangeAfter(f, t, i)]
  <2>1. sizeD' = [sizeD EXCEPT ![f][t] = made]
    BY <1>4, <1>6 DEF EncodeTile
  <2>2. \A i \in DOMAIN Patches(f, t) : made[i] = RangeAfter(f, t, i)
    OBVIOUS
  <2> HIDE DEF made
  <2> QED BY <1>7, <2>1, <2>2 DEF DepthInv
<1>11. ASSUME NEW g \in 1 .. NumFrames, NEW u \in 1 .. NumTiles, Place(g, u) <= n + 1
       PROVE  /\ Units(g, u)' = Units(g, u)
              /\ \A i \in DOMAIN Patches(g, u) : RangeAfter(g, u, i)' = RangeAfter(g, u, i)
  <2>1. ASSUME NEW h \in 1 .. NumFrames, h < g PROVE ~(h = f /\ u = t)
    <3>1. Place(h, u) \in Nat /\ Place(g, u) \in Nat /\ Place(h, u) < Place(g, u)
      BY <1>1, <2>1, Places
    <3> QED BY <1>7, <1>11, <3>1
  <2>2. \A h \in 1 .. NumFrames : h < g => sizeD'[h][u] = sizeD[h][u]
    BY <1>10, <2>1
  <2> QED BY <1>1, <2>2, CodedFromReferences
<1>12. ASSUME NEW l \in 1 .. n + 1
       PROVE  /\ layers'[l].frame = FrameOf(l)' /\ layers'[l].tile = TileOf(l)'
              /\ layers'[l].units = Units(FrameOf(l), TileOf(l))'
              /\ layers'[l].raw = (group'.raw[FrameOf(l)'][TileOf(l)'] > 0)
  <2>1. FrameOf(l)' = FrameOf(l) /\ TileOf(l)' = TileOf(l)
    BY <1>2 DEF FrameOf, TileOf
  <2>2. PICK g, u : g = FrameOf(l) /\ u = TileOf(l)
    OBVIOUS
  <2>3. g \in 1 .. NumFrames /\ u \in 1 .. NumTiles /\ Place(g, u) = l
    <3>1. PICK k \in Nat : l = k + 1
      <4>1. l - 1 \in Nat /\ l = (l - 1) + 1
        OBVIOUS
      <4> QED BY <4>1
    <3>2. k < NumLayers
      BY <1>5, <3>1, <1>1 DEF NumLayers
    <3> QED BY <1>1, <2>2, <3>1, <3>2, NextPlace
  <2>4. Units(FrameOf(l), TileOf(l))' = Units(g, u)
    <3>1. Units(g, u)' = Units(g, u)
      BY <1>11, <2>3
    <3>2. Units(FrameOf(l), TileOf(l))' = Units(g, u)'
      <4>1. FrameOf(l)' = g /\ TileOf(l)' = u
        BY <2>1, <2>2
      <4> QED BY <1>1, <4>1 DEF Units
    <3> QED BY <3>1, <3>2
  <2>5. CASE l <= n
    <3>1. l \in 1 .. Len(layers) /\ layers'[l] = layers[l]
      BY <1>4, <1>9, <2>5
    <3> QED BY <1>1, <2>1, <2>2, <2>4, <3>1 DEF LayersInv
  <2>6. CASE l = n + 1
    BY <1>1, <1>6, <1>8, <1>9, <2>1, <2>2, <2>4, <2>6
  <2> QED BY <2>5, <2>6
<1>13. ASSUME NEW g \in 1 .. NumFrames, NEW u \in 1 .. NumTiles, Place(g, u) <= n + 1,
              NEW i \in DOMAIN Patches(g, u)
       PROVE  sizeD'[g][u][i] = RangeAfter(g, u, i)'
  <2>1. RangeAfter(g, u, i)' = RangeAfter(g, u, i)
    BY <1>11, <1>13
  <2>2. CASE g = f /\ u = t
    BY <1>10, <2>1, <2>2
  <2>3. CASE ~(g = f /\ u = t)
    <3>1. Place(g, u) \in Nat /\ Place(g, u) # n + 1
      BY <1>1, <1>7, <2>3, Places
    <3>2. Place(g, u) <= Len(layers)
      BY <1>4, <1>13, <3>1
    <3> QED BY <1>10, <2>1, <2>3, <3>2 DEF LayersInv
  <2> QED BY <2>2, <2>3
<1>14. /\ \A g, u : Patches(g, u)' = Patches(g, u) /\ Place(g, u)' = Place(g, u)
       /\ Len(layers') <= NumLayers
  BY <1>1, <1>2, <1>5, <1>9 DEF Patches, Place, NumLayers
<1>15. \A l \in 1 .. Len(layers') :
         /\ layers'[l].frame = FrameOf(l)' /\ layers'[l].tile = TileOf(l)'
         /\ layers'[l].units = Units(FrameOf(l), TileOf(l))'
         /\ layers'[l].raw = (group'.raw[FrameOf(l)'][TileOf(l)'] > 0)
  BY <1>9, <1>12
<1>16. \A g \in 1 .. NumFrames', u \in 1 .. NumTiles' :
         (Place(g, u) <= Len(layers))' =>
           \A i \in DOMAIN Patches(g, u)' : sizeD'[g][u][i] = RangeAfter(g, u, i)'
  BY <1>2, <1>9, <1>13, <1>14
<1> QED BY <1>1, <1>2, <1>5, <1>14, <1>15, <1>16 DEF LayersInv

LEMMA LayersNext == DepthInv /\ LayersInv /\ [Next]_vars => LayersInv'
<1> SUFFICES ASSUME DepthInv, LayersInv, [Next]_vars PROVE LayersInv'
  OBVIOUS
<1>1. CASE EncodeTile
  BY <1>1, LayersEncode
<1>2. ASSUME UNCHANGED <<group, layers, sizeD>>, phase' # "encode" => Len(layers) = NumLayers
      PROVE  LayersInv'
  <2>1. /\ NumFrames' = NumFrames /\ NumTiles' = NumTiles /\ NumLayers' = NumLayers
        /\ \A f, t : Place(f, t)' = Place(f, t) /\ Patches(f, t)' = Patches(f, t)
        /\ \A l : FrameOf(l)' = FrameOf(l) /\ TileOf(l)' = TileOf(l)
    BY <1>2 DEF NumFrames, NumTiles, NumLayers, Place, FrameOf, TileOf, Patches
  <2>2. \A f, t : PredIndex(f, t)' = PredIndex(f, t)
    BY <1>2 DEF PredIndex, IsInter, TileType, Patches
  <2>3. \A f, t, i : RangeAfter(f, t, i)' = RangeAfter(f, t, i)
    BY <1>2 DEF RangeAfter, IsInter, TileType, Patches
  <2>4. \A f, t : Units(f, t)' = Units(f, t)
    <3>1. ASSUME NEW f, NEW t, NEW i
          PROVE  InterUnit(f, t, i)' = InterUnit(f, t, i)
      <4>1. RefPatchIndex(f, t, i)' = RefPatchIndex(f, t, i)
        BY <2>1, <2>2 DEF RefPatchIndex
      <4> QED BY <1>2, <2>1, <4>1 DEF InterUnit, Pixels
    <3>2. \A f, t, i : IntraUnit(f, t, i)' = IntraUnit(f, t, i)
      BY <1>2 DEF IntraUnit, Patches, Pixels
    <3>3. \A f, t, i : IsInter(f, t, i)' = IsInter(f, t, i)
      BY <1>2 DEF IsInter, TileType, Patches
    <3> QED BY <2>1, <3>1, <3>2, <3>3 DEF Units
  <2> QED BY <1>2, <2>1, <2>3, <2>4 DEF LayersInv
<1>3. CASE EndEncode
  BY <1>2, <1>3 DEF EndEncode
<1>4. CASE ReadTile
  BY <1>2, <1>4 DEF ReadTile, LayersInv
<1>5. CASE EndRead
  BY <1>2, <1>5 DEF EndRead, LayersInv
<1>6. CASE BuildTile
  BY <1>2, <1>6 DEF BuildTile, LayersInv
<1>7. CASE EndBuild
  BY <1>2, <1>7 DEF EndBuild, LayersInv
<1>8. CASE Finished \/ UNCHANGED vars
  BY <1>2, <1>8 DEF Finished, vars, LayersInv
<1> QED BY <1>1, <1>3, <1>4, <1>5, <1>6, <1>7, <1>8 DEF Next

(* a coded layer is that of a tile, at its place *)
LEMMA LayerPlace ==
  ASSUME DepthInv, LayersInv, NEW l \in 1 .. Len(layers)
  PROVE  /\ FrameOf(l) \in 1 .. NumFrames /\ TileOf(l) \in 1 .. NumTiles
         /\ Place(FrameOf(l), TileOf(l)) = l
<1>1. group \in Groups /\ Len(layers) \in Nat /\ Len(layers) <= NumLayers /\ NumLayers \in Nat
  BY Sizes DEF DepthInv, LayersInv, NumLayers
<1>2. PICK k \in Nat : l = k + 1
  <2>1. l - 1 \in Nat /\ l = (l - 1) + 1
    BY <1>1
  <2> QED BY <2>1
<1>3. k < NumLayers
  BY <1>1, <1>2
<1> QED BY <1>1, <1>2, <1>3, NextPlace

(* However many frames, tiles and references, the range the encoder goes on *)
(* with for a patch is at most one step off the patch's largest depth, so   *)
(* predicting from coded ranges does not add up their rounding              *)
(* (PCCEncoder.cpp:8199-8205).                                              *)
THEOREM RangesDoNotDrift == Spec => []CodedDepths
<1>1. Init => DepthInv /\ LayersInv
  BY DepthInit, LayersInit
<1>2. DepthInv /\ LayersInv /\ [Next]_vars => (DepthInv /\ LayersInv)'
  BY DepthNext, LayersNext
<1>3. DepthInv /\ LayersInv => CodedDepths
  <2> SUFFICES ASSUME DepthInv, LayersInv, NEW l \in 1 .. Len(layers)
               PROVE  NearDepths(FrameOf(l), TileOf(l))
    BY DEF CodedDepths
  <2>1. /\ FrameOf(l) \in 1 .. NumFrames /\ TileOf(l) \in 1 .. NumTiles
        /\ Place(FrameOf(l), TileOf(l)) <= Len(layers)
    BY LayerPlace DEF DepthInv
  <2> QED BY <2>1 DEF DepthInv
<1> QED BY <1>1, <1>2, <1>3, PTL DEF Spec

-----------------------------------------------------------------------------
(***************************************************************************)
(* The running patch index.                                                *)
(***************************************************************************)
(* the values the encoder's index takes, as a function that solves its     *)
(* recursion                                                               *)
LEMMA PredIndexSolves ==
  ASSUME group \in Groups, NEW f \in 1 .. NumFrames, NEW t \in 1 .. NumTiles
  PROVE  LET n == Len(Patches(f, t))
             q == PredIndex(f, t)
         IN  /\ n \in Nat /\ DOMAIN Patches(f, t) = 1 .. n
             /\ \A k \in 1 .. n :
                  /\ q[k] \in Int
                  /\ k = 1 => q[k] = 0
                  /\ k # 1 /\ ~IsInter(f, t, k - 1) => q[k] = q[k - 1]
                  /\ k # 1 /\ IsInter(f, t, k - 1) => q[k] = Patches(f, t)[k - 1].best + 1
<1>1. PICK n \in Nat : n = Len(Patches(f, t)) /\ DOMAIN Patches(f, t) = 1 .. n
  <2>1. Patches(f, t) \in Seq(PatchType)
    BY Sizes
  <2> QED BY <2>1
<1> DEFINE Best(k) == Patches(f, t)[k].best
           step == [k \in 2 .. n |-> [d \in Int |->
                      IF ~IsInter(f, t, k - 1) THEN d ELSE d + (Best(k - 1) - d) + 1]]
<1>2. ASSUME NEW k \in 2 .. n PROVE IsInter(f, t, k - 1) => Best(k - 1) \in Nat
  <2>1. k - 1 \in DOMAIN Patches(f, t)
    BY <1>1
  <2> QED BY <2>1, PatchAt
<1>3. \A k \in 2 .. n, d \in Int :
        /\ ~IsInter(f, t, k - 1) => step[k][d] = d
        /\ IsInter(f, t, k - 1) => step[k][d] = d + (Best(k - 1) - d) + 1
  OBVIOUS
<1> HIDE DEF step
<1>4. StepsIn(step, 2 .. n, Int)
  BY <1>2, <1>3 DEF StepsIn
<1>5. PICK p : Recursion(p, 1, n, Int, 0, step)
  BY <1>4, RecursionFromOne
<1>6. /\ p \in [1 .. n -> Int]
      /\ \A k \in 1 .. n :
           /\ k = 1 => p[k] = 0
           /\ k # 1 /\ ~IsInter(f, t, k - 1) => p[k] = p[k - 1]
           /\ k # 1 /\ IsInter(f, t, k - 1) => p[k] = p[k - 1] + (Best(k - 1) - p[k - 1]) + 1
  <2>1. ASSUME NEW k \in 1 .. n, k # 1 PROVE k \in 2 .. n /\ p[k - 1] \in Int
    BY <2>1, <1>5 DEF Recursion
  <2> QED BY <1>3, <1>5, <2>1 DEF Recursion
<1>7. p = [k \in 1 .. n |-> IF k = 1 THEN 0
                            ELSE IF ~IsInter(f, t, k - 1) THEN p[k - 1]
                            ELSE p[k - 1] + (Best(k - 1) - p[k - 1]) + 1]
  BY <1>6
<1>8. PICK q : q = PredIndex(f, t)
  OBVIOUS
<1>9. q = [k \in 1 .. n |-> IF k = 1 THEN 0
                            ELSE IF ~IsInter(f, t, k - 1) THEN q[k - 1]
                            ELSE q[k - 1] + (Best(k - 1) - q[k - 1]) + 1]
  BY <1>1, <1>7, <1>8 DEF PredIndex
<1>10. \A k \in 1 .. n :
         /\ k = 1 => q[k] = 0
         /\ k # 1 /\ ~IsInter(f, t, k - 1) => q[k] = q[k - 1]
         /\ k # 1 /\ IsInter(f, t, k - 1) => q[k] = q[k - 1] + (Best(k - 1) - q[k - 1]) + 1
  BY <1>9
<1>11. \A k \in 1 .. n : q[k] \in Int
  <2> DEFINE T == {k \in 0 .. n : k > 0 => q[k] \in Int}
  <2>1. 0 \in T
    OBVIOUS
  <2>2. ASSUME NEW k \in 1 .. n, k - 1 \in T PROVE k \in T
    <3>1. CASE k = 1
      BY <1>10, <3>1
    <3>2. CASE k # 1
      <4>1. k \in 2 .. n /\ q[k - 1] \in Int
        BY <2>2, <3>2
      <4> QED BY <1>2, <1>10, <3>2, <4>1
    <3> QED BY <3>1, <3>2
  <2>3. \A k \in 0 .. n : k \in T
    <3> HIDE DEF T
    <3> QED BY <2>1, <2>2, PrefixInduction
  <2> QED BY <2>3
<1>12. ASSUME NEW k \in 1 .. n, k # 1, IsInter(f, t, k - 1) PROVE q[k] = Best(k - 1) + 1
  <2>1. k \in 2 .. n /\ k - 1 \in 1 .. n
    BY <1>12
  <2>2. Best(k - 1) \in Nat /\ q[k - 1] \in Int
    BY <1>2, <1>11, <1>12, <2>1
  <2> QED BY <1>10, <1>12, <2>2
<1> QED BY <1>1, <1>8, <1>10, <1>11, <1>12

(* The reader and the decoder, which advance an index of their own, find   *)
(* the patch the encoder matched (PCCEncoder.cpp:8179, PCCDecoder.cpp:957, *)
(* PCCBitstreamReader.cpp:1211).                                           *)
LEMMA IndexFound ==
  ASSUME group \in Groups, NEW f \in 1 .. NumFrames, NEW t \in 1 .. NumTiles,
         NEW i \in DOMAIN Patches(f, t), IsInter(f, t, i)
  PROVE  ReaderIndex(Units(f, t), i) = Patches(f, t)[i].best
<1>1. PICK n \in Nat : n = Len(Patches(f, t)) /\ DOMAIN Patches(f, t) = 1 .. n
  <2>1. Patches(f, t) \in Seq(PatchType)
    BY Sizes
  <2> QED BY <2>1
<1>2. PICK q : q = PredIndex(f, t)
  OBVIOUS
<1>3. \A k \in 1 .. n :
        /\ q[k] \in Int
        /\ k = 1 => q[k] = 0
        /\ k # 1 /\ ~IsInter(f, t, k - 1) => q[k] = q[k - 1]
        /\ k # 1 /\ IsInter(f, t, k - 1) => q[k] = Patches(f, t)[k - 1].best + 1
  BY <1>1, <1>2, PredIndexSolves
<1>4. PICK units : units = Units(f, t)
  OBVIOUS
<1>5. \A k \in 1 .. n :
        /\ units[k].inter <=> IsInter(f, t, k)
        /\ IsInter(f, t, k) => units[k].refPatch = Patches(f, t)[k].best - q[k]
  <2>1. TAKE k \in 1 .. n
  <2>2. units[k] = IF IsInter(f, t, k) THEN InterUnit(f, t, k) ELSE IntraUnit(f, t, k)
    BY <1>1, <1>4 DEF Units
  <2>3. InterUnit(f, t, k).inter /\ InterUnit(f, t, k).refPatch = Patches(f, t)[k].best - q[k]
    BY <1>2 DEF InterUnit, RefPatchIndex
  <2>4. ~IntraUnit(f, t, k).inter
    BY DEF IntraUnit
  <2> QED BY <2>2, <2>3, <2>4
<1>6. \A k \in 1 .. n : IsInter(f, t, k) => Patches(f, t)[k].best \in Nat
  BY <1>1, PatchAt
<1>7. i \in 1 .. n
  BY <1>1
<1> DEFINE p == [j \in 1 .. i |-> q[j]]
<1>8. \A j \in 1 .. i :
        p[j] = IF j = 1 THEN 0
               ELSE IF units[j - 1].inter THEN p[j - 1] + units[j - 1].refPatch + 1
               ELSE p[j - 1]
  <2>1. TAKE j \in 1 .. i
  <2>2. CASE j = 1
    BY <1>3, <1>7, <2>2
  <2>3. CASE j # 1
    <3>1. j \in 1 .. n /\ j - 1 \in 1 .. n /\ j - 1 \in 1 .. i
      BY <1>7, <2>3
    <3>2. p[j] = q[j] /\ p[j - 1] = q[j - 1] /\ q[j - 1] \in Int
      BY <1>3, <3>1
    <3> HIDE DEF p
    <3>3. CASE IsInter(f, t, j - 1)
      <4>1. /\ units[j - 1].inter /\ Patches(f, t)[j - 1].best \in Nat
            /\ units[j - 1].refPatch = Patches(f, t)[j - 1].best - q[j - 1]
        BY <1>5, <1>6, <3>1, <3>3
      <4>2. q[j] = Patches(f, t)[j - 1].best + 1
        BY <1>3, <2>3, <3>1, <3>3
      <4> QED BY <2>3, <3>2, <4>1, <4>2
    <3>4. CASE ~IsInter(f, t, j - 1)
      BY <1>3, <1>5, <2>3, <3>1, <3>2, <3>4
    <3> QED BY <3>3, <3>4
  <2> QED BY <2>2, <2>3
<1>9. p = [j \in 1 .. i |-> IF j = 1 THEN 0
                            ELSE IF units[j - 1].inter THEN p[j - 1] + units[j - 1].refPatch + 1
                            ELSE p[j - 1]]
  <2>1. DOMAIN p = 1 .. i /\ p = [j \in 1 .. i |-> p[j]]
    OBVIOUS
  <2> HIDE DEF p
  <2> QED BY <1>8, <2>1
<1> HIDE DEF p
<1>10. PICK r : /\ r = [j \in 1 .. i |-> IF j = 1 THEN 0
                                         ELSE IF units[j - 1].inter
                                              THEN r[j - 1] + units[j - 1].refPatch + 1
                                         ELSE r[j - 1]]
                /\ ReaderIndex(units, i) = r[i] + units[i].refPatch
  BY <1>9 DEF ReaderIndex
<1>11. r[i] = p[i]
  <2>1. r[1] = p[1]
    BY <1>7, <1>8, <1>10
  <2>2. \A j \in 2 .. i : r[j - 1] = p[j - 1] => r[j] = p[j]
    BY <1>7, <1>8, <1>10
  <2>3. \A j \in 1 .. i : r[j] = p[j]
    BY <1>7, <2>1, <2>2, SameFromOne
  <2> QED BY <1>7, <2>3
<1>12. p[i] = q[i]
  BY <1>7 DEF p
<1> QED BY <1>3, <1>4, <1>5, <1>6, <1>7, <1>10, <1>11, <1>12

-----------------------------------------------------------------------------
(***************************************************************************)
(* The decoder builds the tiles in coding order.                           *)
(***************************************************************************)
(* Built, of any lists *)
LengthsOf(r, n) == MapThenSumSet(LAMBDA f : Len(r[f]), 1 .. n)

(* the number of tiles is the last of sums over the lists' lengths *)
LEMMA LengthsAreSums ==
  ASSUME NEW n \in Nat, NEW r, NEW len \in [1 .. n -> Int], \A f \in 1 .. n : len[f] = Len(r[f])
  PROVE  \E g : SumsOf(g, len, 1 .. n) /\ g[1 .. n] = LengthsOf(r, n)
<1> DEFINE S == 1 .. n
<1>1. IsFiniteSet(S)
  BY FS_Interval
<1>2. PICK v : v = LengthsOf(r, n)
  OBVIOUS
<1>3. PICK h : Iterates(h, len, S)
  <2> HIDE DEF S
  <2> QED BY <1>1, IteratorExists DEF S
<1>4. \A s \in SUBSET S : s # {} => LET x == CHOOSE x \in s : TRUE IN len[x] = Len(r[x])
  OBVIOUS
<1>5. h = [s \in SUBSET S |-> IF s = {} THEN 0
                              ELSE LET x == CHOOSE x \in s : TRUE IN Len(r[x]) + h[s \ {x}]]
  <2> HIDE DEF S
  <2> QED BY <1>3, <1>4 DEF Iterates
<1>6. PICK g : /\ g = [s \in SUBSET S |-> IF s = {} THEN 0
                                          ELSE LET x == CHOOSE x \in s : TRUE IN Len(r[x]) + g[s \ {x}]]
               /\ g[S] = v
  BY <1>2, <1>5 DEF LengthsOf, MapThenSumSet, MapThenFoldSet
<1>7. Iterates(g, len, S)
  <2> HIDE DEF S
  <2> QED BY <1>4, <1>6 DEF Iterates
<1>8. SumsOf(g, len, S)
  <2> HIDE DEF S
  <2> QED BY <1>1, <1>7, IteratorSums DEF S
<1> QED BY <1>2, <1>6, <1>8

(* nothing is built of empty lists, and one tile more when a list grows *)
LEMMA LengthsStart ==
  ASSUME NEW n \in Nat, NEW r, \A f \in 1 .. n : Len(r[f]) = 0
  PROVE  LengthsOf(r, n) = 0
<1> DEFINE len == [f \in 1 .. n |-> 0]
           none == [s \in SUBSET (1 .. n) |-> 0]
<1>1. len \in [1 .. n -> Int] /\ \A f \in 1 .. n : len[f] = 0
  OBVIOUS
<1>2. none \in [SUBSET (1 .. n) -> Int] /\ \A s \in SUBSET (1 .. n) : none[s] = 0
  OBVIOUS
<1> HIDE DEF len, none
<1>3. PICK g : SumsOf(g, len, 1 .. n) /\ g[1 .. n] = LengthsOf(r, n)
  BY <1>1, LengthsAreSums
<1>4. SumsOf(none, len, 1 .. n)
  BY <1>1, <1>2 DEF SumsOf
<1>5. IsFiniteSet(1 .. n)
  BY FS_Interval
<1>6. g[1 .. n] = none[1 .. n]
  <2>1. 1 .. n \in SUBSET (1 .. n) /\ AgreeOn(len, len, 1 .. n)
    BY DEF AgreeOn
  <2> QED BY <1>3, <1>4, <1>5, <2>1, SumsAgree
<1> QED BY <1>2, <1>3, <1>6

LEMMA LengthsGrow ==
  ASSUME NEW n \in Nat, NEW r, NEW q, NEW x \in 1 .. n,
         \A f \in 1 .. n : Len(r[f]) \in Nat,
         Len(q[x]) = Len(r[x]) + 1, \A f \in 1 .. n : f # x => Len(q[f]) = Len(r[f])
  PROVE  LengthsOf(q, n) = LengthsOf(r, n) + 1
<1>1. PICK len \in [1 .. n -> Int] : \A f \in 1 .. n : len[f] = Len(r[f])
  <2> DEFINE l == [f \in 1 .. n |-> Len(r[f])]
  <2>1. l \in [1 .. n -> Int] /\ \A f \in 1 .. n : l[f] = Len(r[f])
    OBVIOUS
  <2> HIDE DEF l
  <2> QED BY <2>1
<1>2. PICK new \in [1 .. n -> Int] : \A f \in 1 .. n : new[f] = Len(q[f])
  <2> DEFINE l == [f \in 1 .. n |-> Len(q[f])]
  <2>1. \A f \in 1 .. n : Len(q[f]) \in Int
    OBVIOUS
  <2>2. l \in [1 .. n -> Int] /\ \A f \in 1 .. n : l[f] = Len(q[f])
    BY <2>1
  <2> HIDE DEF l
  <2> QED BY <2>2
<1>3. PICK g : SumsOf(g, len, 1 .. n) /\ g[1 .. n] = LengthsOf(r, n)
  BY <1>1, LengthsAreSums
<1>4. PICK h : SumsOf(h, new, 1 .. n) /\ h[1 .. n] = LengthsOf(q, n)
  BY <1>2, LengthsAreSums
<1>5. PICK S : S = 1 .. n
  OBVIOUS
<1>6. h[S] = g[S] + (new[x] - len[x])
  <2>0. IsFiniteSet(1 .. n)
    BY FS_Interval
  <2>1. IsFiniteSet(S) /\ x \in S /\ len \in [S -> Int] /\ new \in [S -> Int]
    BY <1>5, <2>0
  <2>2. \A f \in S : f # x => len[f] = new[f]
    BY <1>1, <1>2, <1>5
  <2>3. SumsOf(g, len, S) /\ SumsOf(h, new, S)
    BY <1>3, <1>4, <1>5
  <2>4. g[S] = len[x] + g[S \ {x}] /\ h[S] = new[x] + h[S \ {x}] /\ g[S \ {x}] \in Int
    BY <2>1, <2>3 DEF SumsOf
  <2>5. PICK R \in SUBSET S : R = S \ {x}
    OBVIOUS
  <2>6. AgreeOn(len, new, R)
    BY <2>2, <2>5 DEF AgreeOn
  <2>7. g[R] = h[R]
    <3>1. IsFiniteSet(S) /\ R \in SUBSET S
      BY <2>1
    <3>2. \A a \in SUBSET S : AgreeOn(len, new, a) => g[a] = h[a]
      BY <2>3, <3>1, SumsAgree
    <3> QED BY <2>6, <3>1, <3>2
  <2>8. len[x] \in Int /\ new[x] \in Int
    BY <2>1
  <2> QED BY <2>4, <2>5, <2>7, <2>8
<1>7. g[1 .. n] \in Int
  BY <1>3 DEF SumsOf
<1> QED BY <1>1, <1>2, <1>3, <1>4, <1>5, <1>6, <1>7

(* a rebuilt patch is what the encoder coded *)
AsCoded(f, t, i) ==
  LET d == rebuilt[f][t][i]
      p == Patches(f, t)[i]
  IN  /\ d.sizeD = sizeD[f][t][i]
      /\ group.present => d.pixels = Pixels(p)
      /\ (group.present => group.quantizer <= Block) => d.blocks = Blocks(p)

(* the tiles whose place has been reached are built, each as it was coded *)
BuildInv ==
  /\ phase \in {"encode", "read", "lost"} => rebuilt = [f \in 1 .. NumFrames |-> <<>>]
  /\ Built \in 0 .. Len(layers)
  /\ DOMAIN rebuilt = 1 .. NumFrames
  /\ \A f \in 1 .. NumFrames :
       /\ \E S : rebuilt[f] \in Seq(S)
       /\ Len(rebuilt[f]) \in 0 .. NumTiles
       /\ \A t \in 1 .. NumTiles : t <= Len(rebuilt[f]) <=> Place(f, t) <= Built
       /\ \A t \in 1 .. Len(rebuilt[f]) :
            /\ DOMAIN rebuilt[f][t] = DOMAIN Patches(f, t)
            /\ \A i \in DOMAIN Patches(f, t) : AsCoded(f, t, i)

(* widths come back in pixels, and in blocks unless the quantiser is coarser *)
LEMMA WidthsRebuilt ==
  ASSUME group \in Groups, NEW p \in PatchType, NEW o \in PatchType, NEW px, NEW bl,
         group.present => px = Pixels(o),
         (group.present => group.quantizer <= Block) => bl = Blocks(o)
  PROVE  LET q     == group.quantizer
             intra == DecodedIntra(group.present, q,
                                   IntraSize(group.present, q, Pixels(p), Blocks(p)))
             inter == DecodedInter(group.present, q,
                                   InterSize(group.present, q, Pixels(p), Blocks(p),
                                             Pixels(o), Blocks(o)), px, bl)
         IN  /\ group.present => intra[1] = Pixels(p) /\ inter[1] = Pixels(p)
             /\ (group.present => q <= Block) => intra[2] = Blocks(p) /\ inter[2] = Blocks(p)
<1>1. PICK q \in Nat \ {0} : q = group.quantizer
  BY GroupAssumption
<1>2. PICK a \in Nat \ {0}, b \in Nat \ {0} : a = p.pixels /\ b = o.pixels
  BY DEF PatchType
<1>3. Pixels(p) = PixelsOf(a, q) /\ Pixels(o) = PixelsOf(b, q)
      /\ Blocks(p) = BlocksOf(a) /\ Blocks(o) = BlocksOf(b)
  BY <1>1, <1>2 DEF Pixels, Blocks
<1>4. BlocksOf(a) \in Int /\ BlocksOf(b) \in Int
  <2>1. a - 1 \in Nat /\ b - 1 \in Nat
    OBVIOUS
  <2> QED BY <2>1, BlockAssumption, QuotientBounds DEF BlocksOf
<1>5. PICK s : s = IntraSize(group.present, q, Pixels(p), Blocks(p))
  OBVIOUS
<1>6. PICK d : d = InterSize(group.present, q, Pixels(p), Blocks(p), Pixels(o), Blocks(o))
  OBVIOUS
<1>7. CASE group.present
  <2>1. DecodedIntra(TRUE, q, s)[1] = Pixels(p) /\ DecodedInter(TRUE, q, d, px, bl)[1] = Pixels(p)
    <3>1. PICK k \in Nat \ {0} : /\ PixelsOf(a, q) = q * k
                                /\ PixelsOf(a, q) \div q = k
                                /\ (PixelsOf(a, q) - 1) \div q = k - 1
      BY WholeSteps
    <3>2. PICK h \in Nat \ {0} : PixelsOf(b, q) = q * h /\ PixelsOf(b, q) \div q = h
      BY WholeSteps
    <3>3. s = k - 1 /\ d = k - h /\ px = q * h
      BY <1>3, <1>5, <1>6, <1>7, <3>1, <3>2 DEF IntraSize, InterSize
    <3>4. DecodedIntra(TRUE, q, s)[1] = (s + 1) * q /\ DecodedInter(TRUE, q, d, px, bl)[1] = px + d * q
      BY DEF DecodedIntra, DecodedInter
    <3>5. (k - 1 + 1) * q = q * k /\ q * h + (k - h) * q = q * k
      OBVIOUS
    <3> QED BY <1>3, <3>1, <3>3, <3>4, <3>5
  <2>2. /\ DecodedIntra(TRUE, q, s)[2] = Ceiling(DecodedIntra(TRUE, q, s)[1], Block)
        /\ DecodedInter(TRUE, q, d, px, bl)[2] = Ceiling(DecodedInter(TRUE, q, d, px, bl)[1], Block)
    BY DEF DecodedIntra, DecodedInter
  <2>3. q <= Block => Ceiling(Pixels(p), Block) = Blocks(p)
    <3>1. SUFFICES ASSUME q <= Block PROVE Ceiling(PixelsOf(a, q), Block) = BlocksOf(a)
      BY <1>3
    <3>2. Block % q = 0
      BY <1>1, <3>1, QuantizerAssumption
    <3>3. PICK j \in Nat : Block = q * j
      <4>1. Block = q * (Block \div q) + (Block % q) /\ Block \div q \in Nat
        BY BlockAssumption
      <4>2. PICK j \in Nat : j = Block \div q
        BY <4>1
      <4>3. Block = q * j
        BY <3>2, <4>1, <4>2
      <4> QED BY <4>3
    <3>4. j # 0
      BY <3>3, BlockAssumption
    <3> QED BY <3>3, <3>4, BlocksKept
  <2>4. DecodedIntra(group.present, q, s) = DecodedIntra(TRUE, q, s)
        /\ DecodedInter(group.present, q, d, px, bl) = DecodedInter(TRUE, q, d, px, bl)
    BY <1>7 DEF DecodedIntra, DecodedInter
  <2> QED BY <1>1, <1>5, <1>6, <1>7, <2>1, <2>2, <2>3, <2>4
<1>8. CASE ~group.present
  <2>1. s = BlocksOf(a) - 1 /\ d = BlocksOf(a) - BlocksOf(b) /\ bl = BlocksOf(b)
    BY <1>3, <1>5, <1>6, <1>8 DEF IntraSize, InterSize
  <2>2. DecodedIntra(group.present, q, s)[2] = s + 1
        /\ DecodedInter(group.present, q, d, px, bl)[2] = d + bl
    BY <1>8 DEF DecodedIntra, DecodedInter
  <2>3. s + 1 = BlocksOf(a) /\ d + bl = BlocksOf(a)
    BY <1>4, <2>1
  <2> QED BY <1>1, <1>3, <1>5, <1>6, <1>8, <2>2, <2>3
<1> QED BY <1>7, <1>8

(* A patch is rebuilt as it was coded, when the tiles of the frames before *)
(* have been.                                                              *)
LEMMA RebuiltAsCoded ==
  ASSUME group \in Groups, NEW f \in 1 .. NumFrames, NEW t \in 1 .. NumTiles,
         NEW i \in DOMAIN Patches(f, t),
         \A g \in 1 .. NumFrames : g <= f => NearDepths(g, t),
         sizeD[f][t][i] = RangeAfter(f, t, i),
         \A g \in 1 .. NumFrames : g < f => \A k \in DOMAIN Patches(g, t) : AsCoded(g, t, k),
         NEW p, p = Patches(f, t)[i], NEW d, d = Rebuild(f, t, Units(f, t), i)
  PROVE  /\ d.sizeD = sizeD[f][t][i]
         /\ group.present => d.pixels = Pixels(p)
         /\ (group.present => group.quantizer <= Block) => d.blocks = Blocks(p)
<1>1. PICK u : /\ u = Units(f, t)[i]
               /\ u = IF IsInter(f, t, i) THEN InterUnit(f, t, i) ELSE IntraUnit(f, t, i)
  BY DEF Units
<1>2. p \in PatchType /\ p.depth \in 0 .. MaxDepth
  BY Sizes, PatchAt
<1>3. CASE ~IsInter(f, t, i)
  <2>1. /\ ~u.inter /\ u.range = IntraRange(SegmentedSizeD(p.depth))
        /\ u.size = IntraSize(group.present, group.quantizer, Pixels(p), Blocks(p))
    BY <1>1, <1>3 DEF IntraUnit
  <2>2. PICK w : /\ w = DecodedIntra(group.present, group.quantizer, u.size)
                 /\ d = [sizeD |-> FromSteps(u.range % Levels), pixels |-> w[1], blocks |-> w[2]]
    BY <1>1, <2>1 DEF Rebuild
  <2>3. FromSteps(u.range % Levels) = SegmentedSizeD(p.depth)
    <3>1. /\ IntraRange(SegmentedSizeD(p.depth)) \in 0 .. Levels - 1
          /\ FromSteps(IntraRange(SegmentedSizeD(p.depth))) = SegmentedSizeD(p.depth)
      BY <1>2, IntraExact
    <3>2. \A k \in 0 .. Levels - 1 : k % Levels = k
      BY LevelAssumption
    <3> QED BY <2>1, <3>1, <3>2
  <2>4. sizeD[f][t][i] = SegmentedSizeD(p.depth)
    BY <1>3 DEF RangeAfter
  <2>5. /\ group.present => w[1] = Pixels(p)
        /\ (group.present => group.quantizer <= Block) => w[2] = Blocks(p)
    <3>1. PICK px, bl : px = Pixels(p) /\ bl = Blocks(p)
      OBVIOUS
    <3> QED BY <1>2, <2>1, <2>2, <3>1, WidthsRebuilt
  <2> QED BY <2>2, <2>3, <2>4, <2>5
<1>4. CASE IsInter(f, t, i)
  <2>1. PICK g : g = RefFrame(f, p.ref)
    OBVIOUS
  <2>2. /\ g \in 1 .. f - 1 /\ g \in 1 .. NumFrames /\ p.best \in Nat
        /\ p.best + 1 \in DOMAIN Patches(g, t)
    BY <1>4, <2>1, PatchAt
  <2>3. PICK k \in DOMAIN Patches(g, t) : k = p.best + 1
    BY <2>2
  <2>4. PICK old : old = rebuilt[g][t][k]
    OBVIOUS
  <2>5. PICK o : o = Patches(g, t)[k] /\ o \in PatchType
    BY <2>2, Sizes
  <2>6. /\ old.sizeD = sizeD[g][t][k] /\ sizeD[g][t][k] \in 0 .. MaxDepth
        /\ group.present => old.pixels = Pixels(o)
        /\ (group.present => group.quantizer <= Block) => old.blocks = Blocks(o)
    <3>1. g < f /\ g <= f
      BY <2>2
    <3>2. NearDepths(g, t) /\ AsCoded(g, t, k)
      BY <2>2, <3>1
    <3> QED BY <2>4, <2>5, <3>2 DEF NearDepths, AsCoded
  <2>7. /\ u.inter /\ u.ref = p.ref /\ u.range = InterRange(p.depth, sizeD[g][t][k])
        /\ u.size = InterSize(group.present, group.quantizer, Pixels(p), Blocks(p), Pixels(o), Blocks(o))
    BY <1>1, <1>4, <2>1, <2>3, <2>5 DEF InterUnit
  <2>8. BestMatchIdx(Units(f, t), i) + 1 = k
    BY <1>4, <2>3, IndexFound DEF BestMatchIdx
  <2>9. PICK w : /\ w = DecodedInter(group.present, group.quantizer, u.size, old.pixels, old.blocks)
                 /\ d = [sizeD |-> DecodedSizeD(u.range, old.sizeD), pixels |-> w[1], blocks |-> w[2]]
    BY <1>1, <2>1, <2>4, <2>7, <2>8 DEF Rebuild
  <2>10. d.sizeD = sizeD[f][t][i]
    <3>1. EncodedSizeD(p.depth, sizeD[g][t][k]) = DecodedSizeD(u.range, sizeD[g][t][k])
      BY <1>2, <2>6, <2>7, ClampIsIdle
    <3>2. RangeAfter(f, t, i) = EncodedSizeD(p.depth, sizeD[g][t][k])
      BY <1>4, <2>1, <2>3 DEF RangeAfter
    <3> QED BY <2>6, <2>9, <3>1, <3>2
  <2>11. /\ group.present => w[1] = Pixels(p)
         /\ (group.present => group.quantizer <= Block) => w[2] = Blocks(p)
    <3>1. PICK px, bl : px = old.pixels /\ bl = old.blocks
      OBVIOUS
    <3>2. /\ group.present => px = Pixels(o)
          /\ (group.present => group.quantizer <= Block) => bl = Blocks(o)
      BY <2>6, <3>1
    <3> QED BY <1>2, <2>5, <2>7, <2>9, <3>1, <3>2, WidthsRebuilt
  <2> QED BY <2>9, <2>10, <2>11
<1> QED BY <1>3, <1>4


LEMMA BuiltIsLengths == Built = LengthsOf(rebuilt, NumFrames)
  BY DEF Built, LengthsOf

LEMMA BuildInit == Init => BuildInv
<1> SUFFICES ASSUME Init PROVE BuildInv
  OBVIOUS
<1>1. group \in Groups /\ NumFrames \in Nat \ {0} /\ NumTiles \in Nat \ {0} /\ layers = <<>>
  BY Sizes DEF Init
<1>2. rebuilt = [f \in 1 .. NumFrames |-> <<>>] /\ \A f \in 1 .. NumFrames : rebuilt[f] = <<>>
  BY DEF Init, NumFrames
<1>3. <<>> \in Seq({}) /\ Len(<<>>) = 0
  OBVIOUS
<1>4. Built = 0
  <2>1. Built = LengthsOf(rebuilt, NumFrames)
    BY BuiltIsLengths
  <2>2. \A f \in 1 .. NumFrames : Len(rebuilt[f]) = 0
    BY <1>2, <1>3
  <2> QED BY <1>1, <2>1, <2>2, LengthsStart
<1>5. ASSUME NEW f \in 1 .. NumFrames, NEW t \in 1 .. NumTiles
      PROVE  ~(t <= 0) /\ ~(Place(f, t) <= 0)
  BY <1>1, Places
<1> QED BY <1>1, <1>2, <1>3, <1>4, <1>5 DEF BuildInv

(* the next layer is that of the tile after the last of its frame, and the *)
(* frames before are complete up to that tile                              *)
LEMMA BuildStep == DepthInv /\ LayersInv /\ BuildInv /\ BuildTile => BuildInv'
<1> SUFFICES ASSUME DepthInv, LayersInv, BuildInv, BuildTile PROVE BuildInv'
  OBVIOUS
<1>1. /\ group \in Groups /\ NumFrames \in Nat \ {0} /\ NumTiles \in Nat \ {0}
      /\ group' = group /\ sizeD' = sizeD /\ layers' = layers /\ phase' = phase
      /\ phase = "build"
  BY Sizes DEF DepthInv, BuildTile
<1>2. /\ NumFrames' = NumFrames /\ NumTiles' = NumTiles
      /\ \A g, u : Patches(g, u)' = Patches(g, u) /\ Place(g, u)' = Place(g, u)
  BY <1>1 DEF NumFrames, NumTiles, Patches, Place
<1>3. PICK n \in Nat : n = Built /\ n < Len(layers) /\ n < NumLayers /\ Len(layers) = NumLayers
  BY <1>1 DEF BuildInv, BuildTile, LayersInv
<1>4. PICK f, t : f = FrameOf(n + 1) /\ t = TileOf(n + 1)
  OBVIOUS
<1>5. f \in 1 .. NumFrames /\ t \in 1 .. NumTiles /\ Place(f, t) = n + 1
  BY <1>1, <1>3, <1>4, NextPlace
<1>6. Len(layers) \in Nat /\ n + 1 \in 1 .. Len(layers)
  <2>1. Len(layers) \in Nat
    BY <1>1, <1>3 DEF NumLayers
  <2> QED BY <1>3, <2>1
<1>7. /\ layers[n + 1].frame = f /\ layers[n + 1].tile = t
      /\ layers[n + 1].units = Units(f, t)
  BY <1>4, <1>6 DEF LayersInv
<1>8. PICK S : rebuilt[f] \in Seq(S)
  BY <1>5 DEF BuildInv
<1>9. Len(rebuilt[f]) = t - 1
  <2>1. /\ Len(rebuilt[f]) \in 0 .. NumTiles
        /\ \A u \in 1 .. NumTiles : u <= Len(rebuilt[f]) <=> Place(f, u) <= n
    BY <1>3, <1>5 DEF BuildInv
  <2>2. ~(t <= Len(rebuilt[f]))
    BY <1>5, <2>1
  <2>3. t - 1 \in 1 .. NumTiles => t - 1 <= Len(rebuilt[f])
    <3>1. SUFFICES ASSUME t - 1 \in 1 .. NumTiles PROVE Place(f, t - 1) <= n
      BY <2>1
    <3>2. NumTiles * (f - 1) \in Int
      BY <1>1, <1>5
    <3>3. Place(f, t) = NumTiles * (f - 1) + t /\ Place(f, t - 1) = NumTiles * (f - 1) + (t - 1)
      BY DEF Place
    <3> QED BY <1>5, <3>2, <3>3
  <2> QED BY <1>1, <1>5, <2>1, <2>2, <2>3
<1>10. PICK new : /\ rebuilt' = [rebuilt EXCEPT ![f] = Append(@, new)]
                  /\ DOMAIN new = DOMAIN Patches(f, t)
                  /\ \A i \in DOMAIN Patches(f, t) : new[i] = Rebuild(f, t, Units(f, t), i)
  <2> DEFINE made == [i \in DOMAIN Units(f, t) |-> Rebuild(f, t, Units(f, t), i)]
  <2>1. rebuilt' = [rebuilt EXCEPT ![f] = Append(@, made)]
    BY <1>3, <1>7 DEF BuildTile
  <2>2. DOMAIN Units(f, t) = DOMAIN Patches(f, t)
    BY DEF Units
  <2>3. DOMAIN made = DOMAIN Patches(f, t)
        /\ \A i \in DOMAIN Patches(f, t) : made[i] = Rebuild(f, t, Units(f, t), i)
    BY <2>2
  <2> HIDE DEF made
  <2> QED BY <2>1, <2>3
<1>11. /\ DOMAIN rebuilt' = 1 .. NumFrames
       /\ rebuilt'[f] = Append(rebuilt[f], new)
       /\ \A g \in 1 .. NumFrames : g # f => rebuilt'[g] = rebuilt[g]
  BY <1>5, <1>10 DEF BuildInv
<1>12. /\ \E R : rebuilt'[f] \in Seq(R)
       /\ Len(rebuilt'[f]) = t /\ rebuilt'[f][t] = new
       /\ \A u \in 1 .. t - 1 : rebuilt'[f][u] = rebuilt[f][u]
  <2>1. Append(rebuilt[f], new) \in Seq(S \cup {new}) /\ Len(Append(rebuilt[f], new)) = (t - 1) + 1
    BY <1>8, <1>9, AppendAny
  <2>2. Append(rebuilt[f], new)[(t - 1) + 1] = new
        /\ \A u \in 1 .. t - 1 : Append(rebuilt[f], new)[u] = rebuilt[f][u]
    BY <1>8, <1>9
  <2>3. (t - 1) + 1 = t
    BY <1>5
  <2> QED BY <1>11, <2>1, <2>2, <2>3
<1>13. Built' = n + 1
  <2>1. Built = LengthsOf(rebuilt, NumFrames)
    BY BuiltIsLengths
  <2>2. Built' = LengthsOf(rebuilt', NumFrames)
    <3>1. (Built = LengthsOf(rebuilt, NumFrames))'
      BY BuiltIsLengths, PTL
    <3> QED BY <1>2, <3>1
  <2>3. \A g \in 1 .. NumFrames : Len(rebuilt[g]) \in Nat
    BY <1>1 DEF BuildInv
  <2>4. Len(rebuilt'[f]) = Len(rebuilt[f]) + 1
    BY <1>5, <1>9, <1>12
  <2>5. \A g \in 1 .. NumFrames : g # f => Len(rebuilt'[g]) = Len(rebuilt[g])
    BY <1>11
  <2>6. LengthsOf(rebuilt', NumFrames) = LengthsOf(rebuilt, NumFrames) + 1
    <3>1. PICK r, q : r = rebuilt /\ q = rebuilt'
      OBVIOUS
    <3> QED BY <1>1, <1>5, <2>3, <2>4, <2>5, <3>1, LengthsGrow
  <2> QED BY <1>3, <2>1, <2>2, <2>6
<1>14. ASSUME NEW i \in DOMAIN Patches(f, t)
       PROVE  AsCoded(f, t, i)'
  <2>1. ASSUME NEW g \in 1 .. NumFrames, g <= f
        PROVE  Place(g, t) <= n + 1 /\ (g < f => Place(g, t) <= n)
    <3>1. CASE g = f
      BY <1>5, <3>1
    <3>2. CASE g < f
      <4>1. Place(g, t) < Place(f, t) /\ Place(g, t) \in Nat
        BY <1>1, <1>5, <3>2, Places
      <4> QED BY <1>5, <4>1
    <3> QED BY <1>5, <2>1, <3>1, <3>2
  <2>2. ASSUME NEW g \in 1 .. NumFrames, g <= f PROVE NearDepths(g, t)
    <3>1. Place(g, t) \in Nat
      BY <1>1, <1>5, Places
    <3>2. Place(g, t) <= Len(layers)
      BY <1>6, <2>1, <2>2, <3>1
    <3> QED BY <1>5, <3>2 DEF DepthInv
  <2>3. ASSUME NEW g \in 1 .. NumFrames, g < f, NEW k \in DOMAIN Patches(g, t)
        PROVE  AsCoded(g, t, k)
    <3>1. t <= Len(rebuilt[g]) /\ Len(rebuilt[g]) \in 0 .. NumTiles
      BY <1>3, <1>5, <2>1, <2>3 DEF BuildInv
    <3>2. t \in 1 .. Len(rebuilt[g])
      BY <1>1, <1>5, <3>1
    <3> QED BY <2>3, <3>2 DEF BuildInv
  <2>4. sizeD[f][t][i] = RangeAfter(f, t, i)
    BY <1>5, <1>6 DEF LayersInv
  <2>5. PICK p, d : p = Patches(f, t)[i] /\ d = Rebuild(f, t, Units(f, t), i)
    OBVIOUS
  <2>6. /\ d.sizeD = sizeD[f][t][i]
        /\ group.present => d.pixels = Pixels(p)
        /\ (group.present => group.quantizer <= Block) => d.blocks = Blocks(p)
    BY <1>1, <1>5, <2>2, <2>3, <2>4, <2>5, RebuiltAsCoded
  <2>7. rebuilt'[f][t][i] = d
    BY <1>10, <1>12, <2>5
  <2>8. Pixels(p)' = Pixels(p) /\ Blocks(p)' = Blocks(p)
    BY <1>1 DEF Pixels, Blocks
  <2> QED BY <1>1, <1>2, <2>5, <2>6, <2>7, <2>8 DEF AsCoded
<1>15. ASSUME NEW g \in 1 .. NumFrames
       PROVE  /\ \E R : rebuilt'[g] \in Seq(R)
              /\ Len(rebuilt'[g]) \in 0 .. NumTiles
              /\ \A u \in 1 .. NumTiles : u <= Len(rebuilt'[g]) <=> Place(g, u) <= n + 1
              /\ \A u \in 1 .. Len(rebuilt'[g]) :
                   /\ DOMAIN rebuilt'[g][u] = DOMAIN Patches(g, u)
                   /\ \A i \in DOMAIN Patches(g, u) : AsCoded(g, u, i)'
  <2>1. ASSUME NEW u \in 1 .. Len(rebuilt[g])
        PROVE  /\ rebuilt'[g][u] = rebuilt[g][u]
               /\ DOMAIN rebuilt[g][u] = DOMAIN Patches(g, u)
               /\ \A i \in DOMAIN Patches(g, u) : AsCoded(g, u, i)'
    <3>1. rebuilt'[g][u] = rebuilt[g][u]
      BY <1>9, <1>11, <1>12
    <3>2. DOMAIN rebuilt[g][u] = DOMAIN Patches(g, u)
          /\ \A i \in DOMAIN Patches(g, u) : AsCoded(g, u, i)
      BY DEF BuildInv
    <3>3. \A p : Pixels(p)' = Pixels(p) /\ Blocks(p)' = Blocks(p)
      BY <1>1 DEF Pixels, Blocks
    <3>4. \A i : AsCoded(g, u, i) => AsCoded(g, u, i)'
      BY <1>1, <1>2, <3>1, <3>3 DEF AsCoded
    <3> QED BY <3>1, <3>2, <3>4
  <2>2. CASE g # f
    <3>1. rebuilt'[g] = rebuilt[g]
      BY <1>11, <2>2
    <3>2. \A u \in 1 .. NumTiles : Place(g, u) \in Nat /\ Place(g, u) # n + 1
      BY <1>1, <1>5, <2>2, Places
    <3>3. \A u \in 1 .. NumTiles : Place(g, u) <= n + 1 <=> Place(g, u) <= n
      BY <3>2
    <3> QED BY <1>3, <2>1, <3>1, <3>3 DEF BuildInv
  <2>3. CASE g = f
    <3>1. \A u \in 1 .. NumTiles : u <= t <=> Place(f, u) <= n + 1
      <4>1. NumTiles * (f - 1) \in Int
        BY <1>1, <1>5
      <4> QED BY <1>5, <4>1 DEF Place
    <3>2. ASSUME NEW u \in 1 .. t
          PROVE  /\ DOMAIN rebuilt'[f][u] = DOMAIN Patches(f, u)
                 /\ \A i \in DOMAIN Patches(f, u) : AsCoded(f, u, i)'
      <4>1. CASE u = t
        BY <1>10, <1>12, <1>14, <4>1
      <4>2. CASE u # t
        <5>1. u \in 1 .. Len(rebuilt[g])
          BY <1>5, <1>9, <2>3, <4>2
        <5> QED BY <2>1, <2>3, <5>1
      <4> QED BY <4>1, <4>2
    <3> QED BY <1>5, <1>12, <2>3, <3>1, <3>2
  <2> QED BY <2>2, <2>3
<1>16. Built' \in 0 .. Len(layers')
  BY <1>1, <1>6, <1>13
<1> QED BY <1>1, <1>2, <1>11, <1>13, <1>15, <1>16 DEF BuildInv


LEMMA BuildNext == DepthInv /\ LayersInv /\ BuildInv /\ [Next]_vars => BuildInv'
<1> SUFFICES ASSUME DepthInv, LayersInv, BuildInv, [Next]_vars PROVE BuildInv'
  OBVIOUS
<1>1. CASE BuildTile
  BY <1>1, BuildStep
<1>2. /\ group \in Groups /\ NumFrames \in Nat \ {0} /\ NumTiles \in Nat \ {0}
      /\ Len(layers) \in Nat
  BY Sizes DEF DepthInv
<1>3. ASSUME group' = group, rebuilt' = rebuilt
      PROVE  /\ NumFrames' = NumFrames /\ NumTiles' = NumTiles /\ Built' = Built
             /\ \A g, u : Patches(g, u)' = Patches(g, u) /\ Place(g, u)' = Place(g, u)
             /\ \A p : Pixels(p)' = Pixels(p) /\ Blocks(p)' = Blocks(p)
  <2>1. NumFrames' = NumFrames /\ NumTiles' = NumTiles
    BY <1>3 DEF NumFrames, NumTiles
  <2>2. (Built = LengthsOf(rebuilt, NumFrames))'
    BY BuiltIsLengths, PTL
  <2>3. Built' = Built
    BY <1>3, <2>1, <2>2, BuiltIsLengths
  <2> QED BY <1>3, <2>1, <2>3 DEF Patches, Place, Pixels, Blocks
<1>4. CASE EncodeTile
  <2>1. /\ group' = group /\ rebuilt' = rebuilt /\ phase' = phase /\ phase = "encode"
    BY <1>4 DEF EncodeTile
  <2>2. Len(layers') \in Nat /\ Len(layers) <= Len(layers')
    <3>1. PICK S : layers \in Seq(S)
      BY DEF DepthInv
    <3>2. PICK x : layers' = Append(layers, x)
      BY <1>4 DEF EncodeTile
    <3>3. Len(layers') = Len(layers) + 1
      BY <3>1, <3>2, AppendAny
    <3> QED BY <1>2, <3>3
  <2>3. \A f \in 1 .. NumFrames : rebuilt[f] = <<>> /\ Len(rebuilt[f]) = 0
    <3>1. \A f \in 1 .. NumFrames : rebuilt[f] = <<>>
      BY <2>1 DEF BuildInv
    <3> QED BY <3>1
  <2>4. Built' \in 0 .. Len(layers')
    BY <1>2, <1>3, <2>1, <2>2 DEF BuildInv
  <2> QED BY <1>3, <2>1, <2>3, <2>4 DEF BuildInv
<1>5. ASSUME UNCHANGED <<group, sizeD, layers, rebuilt>>,
             phase' \in {"encode", "read", "lost"} => phase \in {"encode", "read", "lost"}
      PROVE  BuildInv'
  <2>1. \A f, t, i : AsCoded(f, t, i)' = AsCoded(f, t, i)
    BY <1>3, <1>5 DEF AsCoded
  <2> QED BY <1>3, <1>5, <2>1 DEF BuildInv
<1>6. CASE EndEncode
  BY <1>5, <1>6 DEF EndEncode
<1>7. CASE ReadTile
  BY <1>5, <1>7 DEF ReadTile
<1>8. CASE EndRead
  BY <1>5, <1>8 DEF EndRead
<1>9. CASE EndBuild
  BY <1>5, <1>9 DEF EndBuild
<1>10. CASE Finished \/ UNCHANGED vars
  BY <1>5, <1>10 DEF Finished, vars
<1> QED BY <1>1, <1>4, <1>6, <1>7, <1>8, <1>9, <1>10 DEF Next

(* what a rebuilt patch is *)
LEMMA RebuiltPatchAt ==
  ASSUME DepthInv, BuildInv, NEW x \in RebuiltPatches
  PROVE  \E f \in 1 .. NumFrames, t \in 1 .. NumTiles :
           \E i \in DOMAIN Patches(f, t) :
             x = <<f, t, i>> /\ AsCoded(f, t, i) /\ NearDepths(f, t)
<1>1. PICK f \in 1 .. NumFrames : \E t \in DOMAIN rebuilt[f] : \E i \in DOMAIN rebuilt[f][t] : x = <<f, t, i>>
  BY DEF RebuiltPatches
<1>2. PICK t \in DOMAIN rebuilt[f] : \E i \in DOMAIN rebuilt[f][t] : x = <<f, t, i>>
  BY <1>1
<1>3. PICK i \in DOMAIN rebuilt[f][t] : x = <<f, t, i>>
  BY <1>2
<1>4. t \in 1 .. Len(rebuilt[f]) /\ Len(rebuilt[f]) \in 0 .. NumTiles
  <2>1. PICK S : rebuilt[f] \in Seq(S)
    BY DEF BuildInv
  <2>2. DOMAIN rebuilt[f] = 1 .. Len(rebuilt[f])
    BY <2>1
  <2> QED BY <2>2 DEF BuildInv
<1>5. group \in Groups /\ NumFrames \in Nat \ {0} /\ NumTiles \in Nat \ {0} /\ Len(layers) \in Nat
  BY Sizes DEF DepthInv
<1>6. t \in 1 .. NumTiles
  BY <1>4, <1>5
<1>7. i \in DOMAIN Patches(f, t) /\ AsCoded(f, t, i)
  BY <1>3, <1>4 DEF BuildInv
<1>8. NearDepths(f, t)
  <2>1. t <= Len(rebuilt[f])
    BY <1>4
  <2>2. Place(f, t) <= Built /\ Built \in 0 .. Len(layers)
    BY <1>6, <2>1 DEF BuildInv
  <2>3. Place(f, t) \in Nat
    BY <1>5, <1>6, Places
  <2>4. Place(f, t) <= Len(layers)
    BY <1>5, <2>2, <2>3
  <2> QED BY <1>6, <2>4 DEF DepthInv
<1> QED BY <1>3, <1>6, <1>7, <1>8

LEMMA BuildInvImplies == DepthInv /\ BuildInv => PatchesRebuilt /\ DepthDoesNotDrift
<1> SUFFICES ASSUME DepthInv, BuildInv PROVE PatchesRebuilt /\ DepthDoesNotDrift
  OBVIOUS
<1>1. ASSUME NEW x \in RebuiltPatches
      PROVE  /\ LET d == rebuilt[x[1]][x[2]][x[3]]
                    p == Patches(x[1], x[2])[x[3]]
                IN  /\ d.sizeD = sizeD[x[1]][x[2]][x[3]]
                    /\ group.present => d.pixels = Pixels(p)
                    /\ (group.present => group.quantizer <= Block) => d.blocks = Blocks(p)
             /\ LET err == rebuilt[x[1]][x[2]][x[3]].sizeD - Patches(x[1], x[2])[x[3]].depth
                IN  -MinLevel <= err /\ err <= MinLevel
  <2>1. PICK f \in 1 .. NumFrames, t \in 1 .. NumTiles :
           \E i \in DOMAIN Patches(f, t) :
             x = <<f, t, i>> /\ AsCoded(f, t, i) /\ NearDepths(f, t)
    BY RebuiltPatchAt
  <2>2. PICK i \in DOMAIN Patches(f, t) : x = <<f, t, i>> /\ AsCoded(f, t, i) /\ NearDepths(f, t)
    BY <2>1
  <2>3. x[1] = f /\ x[2] = t /\ x[3] = i
    BY <2>2
  <2>4. rebuilt[f][t][i].sizeD = sizeD[f][t][i]
    BY <2>2 DEF AsCoded
  <2>5. /\ -MinLevel <= sizeD[f][t][i] - Patches(f, t)[i].depth
        /\ sizeD[f][t][i] - Patches(f, t)[i].depth <= MinLevel
    BY <2>2 DEF NearDepths
  <2> QED BY <2>2, <2>3, <2>4, <2>5 DEF AsCoded
<1> QED BY <1>1 DEF PatchesRebuilt, DepthDoesNotDrift

(* Every patch the decoder rebuilds has the depth range the encoder went on *)
(* with, which it clamps and the decoder does not, and its width, however   *)
(* long the chain of references (PCCEncoder.cpp:8203, PCCDecoder.cpp:995).  *)
THEOREM RebuiltPatchesAreCoded == Spec => []PatchesRebuilt
<1>1. Init => DepthInv /\ LayersInv /\ BuildInv
  BY DepthInit, LayersInit, BuildInit
<1>2. DepthInv /\ LayersInv /\ BuildInv /\ [Next]_vars => (DepthInv /\ LayersInv /\ BuildInv)'
  BY DepthNext, LayersNext, BuildNext
<1>3. DepthInv /\ BuildInv => PatchesRebuilt
  BY BuildInvImplies
<1> QED BY <1>1, <1>2, <1>3, PTL DEF Spec

(* The depth range of a rebuilt patch is at most one step off the patch's   *)
(* largest depth: rounding does not add up along a chain of predictions,    *)
(* on the decoder's side either (PCCEncoder.cpp:8199-8205).                 *)
THEOREM DecodedDepthsDoNotDrift == Spec => []DepthDoesNotDrift
<1>1. Init => DepthInv /\ LayersInv /\ BuildInv
  BY DepthInit, LayersInit, BuildInit
<1>2. DepthInv /\ LayersInv /\ BuildInv /\ [Next]_vars => (DepthInv /\ LayersInv /\ BuildInv)'
  BY DepthNext, LayersNext, BuildNext
<1>3. DepthInv /\ BuildInv => DepthDoesNotDrift
  BY BuildInvImplies
<1> QED BY <1>1, <1>2, <1>3, PTL DEF Spec


-----------------------------------------------------------------------------
(***************************************************************************)
(* The reader.                                                             *)
(***************************************************************************)
(* what the reader needs to find the size of every block map *)
MapsCanBeRead ==
  /\ group.plr /\ NumTiles = 1 /\ PreviousFrameOnly
  /\ ~group.present /\ group.patchSize \in 1 .. ThresholdMod

ReadInv ==
  /\ phase = "encode" => parsed = <<>>
  /\ \E S : parsed \in Seq(S)
  /\ Len(parsed) <= Len(layers)
  /\ \A i \in 1 .. Len(parsed) : parsed[i].flag = FlagRead(layers[i])
  /\ MapsCanBeRead =>
       /\ phase # "lost"
       /\ \A i \in 1 .. Len(parsed) :
            /\ DOMAIN parsed[i].maps = DOMAIN layers[i].units
            /\ \A u \in DOMAIN layers[i].units : parsed[i].maps[u] = layers[i].units[u].map

(* A threshold that fits its field reaches the reader, and a map of the size *)
(* it was written with is read with the flags it was written with.           *)
LEMMA SameSizeInStep ==
  ASSUME group.patchSize \in 1 .. ThresholdMod, NEW b \in Nat
  PROVE  InStep(b, b)
<1>1. PICK s \in Nat : s = group.patchSize /\ s - 1 \in 0 .. ThresholdMod - 1
  BY ThresholdAssumption
<1>2. \A m \in Nat \ {0} : s - 1 \in 0 .. m - 1 => (s - 1) % m = s - 1
  OBVIOUS
<1>3. (s - 1) % ByteMod = s - 1 /\ (s - 1) % ThresholdMod = s - 1
  BY <1>1, <1>2, ThresholdAssumption
<1>4. WriterThreshold = s
  BY <1>1, <1>3 DEF WriterThreshold
<1>5. ReaderThreshold = s
  BY <1>1, <1>3, <1>4 DEF ReaderThreshold
<1>6. ~(b > s) => OneMode(b)
  BY <1>1 DEF OneMode
<1> QED BY <1>1, <1>4, <1>5, <1>6 DEF InStep, WrittenShape, ReadShape, Shape

(* the blocks of a patch are a number *)
LEMMA BlocksAreNat ==
  ASSUME NEW p \in PatchType
  PROVE  Blocks(p) \in Nat
<1>1. PICK a \in Nat : a = p.pixels - 1
  BY DEF PatchType
<1>2. a \div Block \in Nat
  BY BlockAssumption, QuotientBounds
<1> QED BY <1>1, <1>2 DEF Blocks, BlocksOf

(* with one tile, frames and layers are numbered alike *)
LEMMA LayerOfFrame ==
  ASSUME DepthInv, LayersInv, NumTiles = 1, NEW l \in 1 .. Len(layers)
  PROVE  l \in 1 .. NumFrames /\ FrameOf(l) = l /\ TileOf(l) = 1 /\ layers[l].units = Units(l, 1)
<1>1. PICK f, t : f = FrameOf(l) /\ t = TileOf(l)
  OBVIOUS
<1>2. f \in 1 .. NumFrames /\ t \in 1 .. 1 /\ 1 * (f - 1) + t = l
  BY <1>1, LayerPlace DEF Place
<1>3. f = l /\ t = 1
  BY <1>2
<1> QED BY <1>1, <1>2, <1>3 DEF LayersInv

(* the only size the map of a patch may get is the one it was written with *)
LEMMA MapsFound ==
  ASSUME DepthInv, LayersInv, ReadInv, MapsCanBeRead, Len(parsed) < Len(layers),
         NEW units, units = layers[Len(parsed) + 1].units, NEW i \in DOMAIN units
  PROVE  MapSizes(units, i) = {units[i].map} /\ units[i].map \in Nat
<1>1. group \in Groups /\ NumFrames \in Nat \ {0} /\ NumTiles = 1 /\ ~group.present
      /\ Len(layers) \in Nat
  BY Sizes DEF DepthInv, MapsCanBeRead
<1>2. PICK n \in Nat : n = Len(parsed)
  BY DEF ReadInv
<1>3. PICK f : f = n + 1 /\ f \in 1 .. Len(layers)
  BY <1>1, <1>2
<1>4. f \in 1 .. NumFrames /\ units = Units(f, 1)
  BY <1>1, <1>2, <1>3, LayerOfFrame
<1>5. DOMAIN units = DOMAIN Patches(f, 1)
      /\ units[i] = IF IsInter(f, 1, i) THEN InterUnit(f, 1, i) ELSE IntraUnit(f, 1, i)
  BY <1>4 DEF Units
<1>6. PICK p : p = Patches(f, 1)[i] /\ p \in PatchType
  BY <1>1, <1>4, <1>5, Sizes
<1>7. PICK b \in Nat : b = Blocks(p)
  BY <1>6, BlocksAreNat
<1>8. CASE ~IsInter(f, 1, i)
  <2>1. ~units[i].inter /\ units[i].size = b - 1 /\ units[i].map = b
    BY <1>1, <1>5, <1>6, <1>7, <1>8 DEF IntraUnit, IntraSize
  <2>2. MapSizes(units, i) = {units[i].size + 1}
    BY <2>1 DEF MapSizes
  <2>3. (b - 1) + 1 = b
    OBVIOUS
  <2> QED BY <2>1, <2>2, <2>3
<1>9. CASE IsInter(f, 1, i)
  <2>1. units[i].ref = p.ref /\ units[i].inter /\ units[i].map = b
    BY <1>5, <1>6, <1>7, <1>9 DEF InterUnit
  <2>2. p.ref = 0
    BY <1>1, <1>2, <1>3, <1>5, <2>1 DEF MapsCanBeRead, PreviousFrameOnly
  <2>3. PICK k : k = p.best + 1
    OBVIOUS
  <2>4. n \in 1 .. NumFrames /\ RefFrame(f, p.ref) = n /\ k \in DOMAIN Patches(n, 1)
    <3>1. /\ RefFrame(f, p.ref) \in 1 .. f - 1 /\ RefFrame(f, p.ref) \in 1 .. NumFrames
          /\ k \in DOMAIN Patches(RefFrame(f, p.ref), 1)
      BY <1>1, <1>4, <1>5, <1>6, <1>9, <2>3, PatchAt
    <3>2. RefFrame(f, p.ref) = n
      BY <1>2, <1>3, <2>2 DEF RefFrame
    <3> QED BY <3>1, <3>2
  <2>5. PICK o : o = Patches(n, 1)[k] /\ o \in PatchType
    BY <1>1, <2>4, Sizes
  <2>6. PICK c \in Nat : c = Blocks(o)
    BY <2>5, BlocksAreNat
  <2>7. units[i].size = b - c
    BY <1>1, <1>5, <1>6, <1>7, <1>9, <2>3, <2>4, <2>5, <2>6 DEF InterUnit, InterSize
  <2>8. n \in 1 .. Len(layers) /\ layers[n].units = Units(n, 1)
    <3>1. n \in 1 .. Len(layers)
      BY <1>3, <2>4
    <3> QED BY <1>1, <3>1, LayerOfFrame
  <2>9. /\ DOMAIN parsed[n].maps = DOMAIN Units(n, 1)
        /\ \A u \in DOMAIN Units(n, 1) : parsed[n].maps[u] = Units(n, 1)[u].map
    <3>1. n \in 1 .. Len(parsed)
      BY <1>2, <2>4
    <3> QED BY <2>8, <3>1 DEF ReadInv
  <2>10. k \in DOMAIN Units(n, 1) /\ Units(n, 1)[k].map = c
    BY <2>4, <2>5, <2>6 DEF Units, InterUnit, IntraUnit
  <2>11. ReaderIndex(units, i) + 1 = k
    BY <1>1, <1>4, <1>5, <1>6, <1>9, <2>3, IndexFound
  <2>12. MapSizes(units, i) = {units[i].size + c}
    BY <1>2, <2>1, <2>9, <2>10, <2>11 DEF MapSizes
  <2>13. (b - c) + c = b
    OBVIOUS
  <2> QED BY <2>1, <2>7, <2>12, <2>13
<1> QED BY <1>8, <1>9

LEMMA ReadInit == Init => ReadInv
<1> SUFFICES ASSUME Init PROVE ReadInv
  OBVIOUS
<1>1. parsed = <<>> /\ phase = "encode" /\ layers = <<>>
  BY DEF Init
<1>2. parsed \in Seq({}) /\ Len(parsed) = 0 /\ Len(layers) = 0
  BY <1>1
<1> QED BY <1>1, <1>2 DEF ReadInv

LEMMA ReadStep == DepthInv /\ LayersInv /\ ReadInv /\ ReadTile => ReadInv'
<1> SUFFICES ASSUME DepthInv, LayersInv, ReadInv, ReadTile PROVE ReadInv'
  OBVIOUS
<1>1. /\ group' = group /\ layers' = layers /\ sets' = sets /\ phase = "read"
      /\ Len(layers) \in Nat
  BY DEF DepthInv, ReadTile
<1>2. PICK S : parsed \in Seq(S)
  BY DEF ReadInv
<1>3. PICK n \in Nat : n = Len(parsed) /\ n + 1 \in 1 .. Len(layers) /\ n < Len(layers)
  BY <1>1, <1>2 DEF ReadTile
<1>4. PICK units : units = layers[n + 1].units
  OBVIOUS
<1>5. PICK x : /\ parsed' = Append(parsed, x)
               /\ x.flag = FlagRead(layers[n + 1])
               /\ phase' \in {"read", "lost"}
               /\ group.plr => /\ DOMAIN x.maps = DOMAIN units
                               /\ \A i \in DOMAIN units : x.maps[i] \in MapSizes(units, i)
                               /\ phase' = IF \A i \in DOMAIN units : InStep(units[i].map, x.maps[i])
                                           THEN "read" ELSE "lost"
  <2>1. CASE ~group.plr
    BY <1>1, <1>3, <2>1 DEF ReadTile
  <2>2. CASE group.plr
    <3>1. PICK maps \in [DOMAIN units -> UNION {MapSizes(units, i) : i \in DOMAIN units}] :
            /\ \A i \in DOMAIN units : maps[i] \in MapSizes(units, i)
            /\ parsed' = Append(parsed, [maps |-> maps, flag |-> FlagRead(layers[n + 1])])
            /\ phase' = IF \A i \in DOMAIN units : InStep(units[i].map, maps[i])
                        THEN "read" ELSE "lost"
      BY <1>3, <1>4, <2>2 DEF ReadTile
    <3> QED BY <2>2, <3>1
  <2> QED BY <2>1, <2>2
<1>6. /\ parsed' \in Seq(S \cup {x}) /\ Len(parsed') = n + 1 /\ parsed'[n + 1] = x
      /\ \A i \in 1 .. n : parsed'[i] = parsed[i]
  BY <1>2, <1>3, <1>5, AppendAny
<1>8. MapsCanBeRead' = MapsCanBeRead
  <2>1. NumTiles' = NumTiles /\ PreviousFrameOnly' = PreviousFrameOnly
    BY <1>1 DEF NumTiles, PreviousFrameOnly
  <2> QED BY <1>1, <2>1 DEF MapsCanBeRead
<1>9. ASSUME MapsCanBeRead
      PROVE  /\ phase' # "lost" /\ DOMAIN x.maps = DOMAIN units
             /\ \A i \in DOMAIN units : x.maps[i] = units[i].map
  <2>1. group.plr /\ group.patchSize \in 1 .. ThresholdMod
    BY <1>9 DEF MapsCanBeRead
  <2>2. ASSUME NEW i \in DOMAIN units
        PROVE  x.maps[i] = units[i].map /\ InStep(units[i].map, x.maps[i])
    <3>1. MapSizes(units, i) = {units[i].map} /\ units[i].map \in Nat
      BY <1>3, <1>4, <1>9, MapsFound
    <3>2. x.maps[i] = units[i].map
      BY <1>5, <2>1, <3>1
    <3> QED BY <2>1, <3>1, <3>2, SameSizeInStep
  <2> QED BY <1>5, <2>1, <2>2
<1>10. \A i \in 1 .. n + 1 : parsed'[i].flag = FlagRead(layers[i])'
  <2>1. TAKE i \in 1 .. n + 1
  <2>2. FlagRead(layers[i])' = FlagRead(layers[i])
    BY <1>1 DEF FlagRead
  <2>3. CASE i \in 1 .. n
    BY <1>3, <1>6, <2>2, <2>3 DEF ReadInv
  <2>4. CASE i = n + 1
    BY <1>5, <1>6, <2>2, <2>4
  <2> QED BY <2>2, <2>3, <2>4
<1>11. MapsCanBeRead' =>
         /\ phase' # "lost"
         /\ \A i \in 1 .. n + 1 :
              /\ DOMAIN parsed'[i].maps = DOMAIN layers'[i].units
              /\ \A u \in DOMAIN layers'[i].units : parsed'[i].maps[u] = layers'[i].units[u].map
  BY <1>1, <1>3, <1>4, <1>6, <1>8, <1>9 DEF ReadInv
<1>12. phase' # "encode" /\ Len(parsed') <= Len(layers')
  BY <1>1, <1>3, <1>5, <1>6
<1> QED BY <1>6, <1>10, <1>11, <1>12 DEF ReadInv

LEMMA ReadNext == DepthInv /\ LayersInv /\ ReadInv /\ [Next]_vars => ReadInv'
<1> SUFFICES ASSUME DepthInv, LayersInv, ReadInv, [Next]_vars PROVE ReadInv'
  OBVIOUS
<1>1. CASE ReadTile
  BY <1>1, ReadStep
<1>2. CASE EncodeTile
  <2>1. parsed = <<>> /\ parsed' = parsed /\ phase' = "encode"
    BY <1>2 DEF EncodeTile, ReadInv
  <2>2. Len(parsed') = 0 /\ parsed' \in Seq({})
    BY <2>1
  <2>3. Len(layers') \in Nat
    <3>1. PICK S : layers \in Seq(S)
      BY DEF DepthInv
    <3>2. PICK x : layers' = Append(layers, x)
      BY <1>2 DEF EncodeTile
    <3>3. Len(layers') = Len(layers) + 1
      BY <3>1, <3>2, AppendAny
    <3> QED BY <3>1, <3>3
  <2> QED BY <2>1, <2>2, <2>3 DEF ReadInv
<1>3. ASSUME UNCHANGED <<group, layers, sets, parsed>>,
             phase' = "encode" => phase = "encode", phase' = "lost" => phase = "lost"
      PROVE  ReadInv'
  <2>1. /\ \A l : FlagRead(l)' = FlagRead(l)
        /\ NumTiles' = NumTiles /\ PreviousFrameOnly' = PreviousFrameOnly
    BY <1>3 DEF FlagRead, NumTiles, PreviousFrameOnly
  <2>2. MapsCanBeRead' = MapsCanBeRead
    BY <1>3, <2>1 DEF MapsCanBeRead
  <2> QED BY <1>3, <2>1, <2>2 DEF ReadInv
<1>4. CASE EndEncode
  BY <1>3, <1>4 DEF EndEncode
<1>5. CASE EndRead
  BY <1>3, <1>5 DEF EndRead
<1>6. CASE BuildTile
  BY <1>3, <1>6 DEF BuildTile
<1>7. CASE EndBuild
  BY <1>3, <1>7 DEF EndBuild
<1>8. CASE Finished \/ UNCHANGED vars
  BY <1>3, <1>8 DEF Finished, vars
<1> QED BY <1>1, <1>2, <1>4, <1>5, <1>6, <1>7, <1>8 DEF Next

(* With one tile, references to the frame before only, sizes in blocks and  *)
(* a threshold that fits its field, the reader finds the size of every      *)
(* block map and stays in step, however long the group                      *)
(* (PCCBitstreamReader.cpp:1211-1247).                                      *)
THEOREM BlockMapsAreRead == Spec => []BlockMapsAgree
<1>1. Init => DepthInv /\ LayersInv /\ ReadInv
  BY DepthInit, LayersInit, ReadInit
<1>2. DepthInv /\ LayersInv /\ ReadInv /\ [Next]_vars => (DepthInv /\ LayersInv /\ ReadInv)'
  BY DepthNext, LayersNext, ReadNext
<1>3. ReadInv => BlockMapsAgree
  BY DEF ReadInv, BlockMapsAgree, MapsCanBeRead
<1> QED BY <1>1, <1>2, <1>3, PTL DEF Spec


-----------------------------------------------------------------------------
(***************************************************************************)
(* The tile information.                                                   *)
(***************************************************************************)
(* every layer names a set that says what its own would say *)
SetsInv ==
  /\ \E S : sets \in Seq(S)
  /\ layers # <<>> => Len(sets) # 0 /\ sets[1] = generateAfti(Heights(1))
  /\ NumTiles = 1 => Len(sets) <= 1
  /\ \A l \in 1 .. Len(layers) :
       /\ layers[l].afps \in 1 .. Len(sets)
       /\ SameInformation(generateAfti(Heights(FrameOf(l))), sets[layers[l].afps])
       /\ FrameOf(l) = 1 => layers[l].afps = 1

(* heights are whole units, none for a tile without raw points *)
LEMMA HeightsAt ==
  ASSUME group \in Groups, NEW f \in 1 .. NumFrames
  PROVE  /\ Heights(f) \in Seq(Nat) /\ Len(Heights(f)) = NumTiles
         /\ \A t \in 1 .. NumTiles :
              /\ (Heights(f)[t] \div Unit) * Unit = Heights(f)[t]
              /\ Heights(f)[t] # 0 <=> group.raw[f][t] > 0
              /\ Heights(f)[t] \div Unit # 0 <=> group.raw[f][t] > 0
<1>1. /\ NumTiles \in Nat \ {0} /\ group.raw[f] \in Seq(Nat) /\ Len(group.raw[f]) = NumTiles
      /\ Unit \in Nat \ {0}
  BY Sizes, UnitAssumption
<1>2. DOMAIN group.raw[f] = 1 .. NumTiles /\ \A t \in 1 .. NumTiles : group.raw[f][t] \in Nat
  BY <1>1
<1>3. Heights(f) = [t \in 1 .. NumTiles |-> ((group.raw[f][t] + (Unit - 1)) \div Unit) * Unit]
  BY <1>2 DEF Heights, placeAuxiliaryPointsTiles
<1>4. ASSUME NEW t \in 1 .. NumTiles
      PROVE  /\ Heights(f)[t] \in Nat
             /\ (Heights(f)[t] \div Unit) * Unit = Heights(f)[t]
             /\ Heights(f)[t] # 0 <=> group.raw[f][t] > 0
             /\ Heights(f)[t] \div Unit # 0 <=> group.raw[f][t] > 0
  <2>1. PICK a \in Nat, m \in Nat \ {0} : a = group.raw[f][t] /\ m = Unit
    BY <1>1, <1>2
  <2>2. PICK k \in Nat : /\ k = (a + (m - 1)) \div m
                         /\ m * k <= a + (m - 1) /\ a + (m - 1) < m * k + m
    <3>1. a + (m - 1) \in Nat
      OBVIOUS
    <3> QED BY <3>1, QuotientBounds
  <2>3. k = 0 <=> a = 0
    <3>1. CASE k = 0
      <4>1. m * k = 0
        BY <3>1
      <4> QED BY <2>2, <3>1, <4>1
    <3>2. CASE k # 0
      <4>1. m * 1 <= m * k
        BY <3>2, Monotone
      <4>2. m * k \in Int
        OBVIOUS
      <4> QED BY <2>2, <3>2, <4>1, <4>2
    <3> QED BY <3>1, <3>2
  <2>4. PICK h \in Nat : h = m * k /\ h \div m = k /\ (h = 0 <=> k = 0)
    <3>1. m * k \in Nat /\ (m * k) \div m = k
      <4>1. m * k \in Nat /\ m * k < m * k + m
        OBVIOUS
      <4> QED BY <4>1, QuotientIs
    <3>2. m * k = 0 <=> k = 0
      <4>1. CASE k = 0
        BY <4>1
      <4>2. CASE k # 0
        <5>1. m * 1 <= m * k
          BY <4>2, Monotone
        <5> QED BY <3>1, <4>2, <5>1
      <4> QED BY <4>1, <4>2
    <3> QED BY <3>1, <3>2
  <2>5. Heights(f)[t] = h
    <3>1. k * m = m * k
      OBVIOUS
    <3> QED BY <1>3, <2>1, <2>2, <2>4, <3>1
  <2>6. k * m = h
    BY <2>4
  <2> QED BY <2>1, <2>3, <2>4, <2>5, <2>6
<1>5. Heights(f) \in Seq(Nat) /\ Len(Heights(f)) = NumTiles
  <2>1. Heights(f) \in [1 .. NumTiles -> Nat]
    BY <1>3, <1>4
  <2> QED BY <1>1, <2>1
<1> QED BY <1>4, <1>5

LEMMA SetsInit == Init => SetsInv
<1> SUFFICES ASSUME Init PROVE SetsInv
  OBVIOUS
<1>1. sets = <<>> /\ layers = <<>>
  BY DEF Init
<1>2. sets \in Seq({}) /\ Len(sets) = 0 /\ Len(layers) = 0
  BY <1>1
<1> QED BY <1>1, <1>2 DEF SetsInv

(* a list that has information like a frame's is kept, any other gets a set *)
(* more; the set found is the first that is like the frame's                *)
LEMMA SetFound ==
  ASSUME NEW S, NEW list \in Seq(S), NEW afti, NEW new, new = WithInformation(list, afti),
         NEW at, at = IndexOf(new, afti)
  PROVE  /\ \E R : new \in Seq(R)
         /\ Len(new) >= Len(list) /\ \A i \in 1 .. Len(list) : new[i] = list[i]
         /\ at \in 1 .. Len(new) /\ SameInformation(afti, new[at])
         /\ (\E i \in 1 .. Len(list) : SameInformation(afti, list[i])) => new = list
<1> DEFINE like == {i \in 1 .. Len(new) : SameInformation(afti, new[i])}
<1>1. /\ \E R : new \in Seq(R)
      /\ Len(new) >= Len(list) /\ \A i \in 1 .. Len(list) : new[i] = list[i]
      /\ like # {}
      /\ (\E i \in 1 .. Len(list) : SameInformation(afti, list[i])) => new = list
  <2>1. CASE \E i \in 1 .. Len(list) : SameInformation(afti, list[i])
    <3>1. new = list
      BY <2>1 DEF WithInformation
    <3>2. Len(list) \in Nat
      OBVIOUS
    <3> QED BY <2>1, <3>1, <3>2
  <2>2. CASE ~ \E i \in 1 .. Len(list) : SameInformation(afti, list[i])
    <3>1. new = Append(list, afti)
      BY <2>2 DEF WithInformation
    <3>2. new \in Seq(S \cup {afti}) /\ Len(new) = Len(list) + 1 /\ Len(list) \in Nat
      BY <3>1, AppendAny
    <3>3. new[Len(list) + 1] = afti /\ \A i \in 1 .. Len(list) : new[i] = list[i]
      BY <3>1
    <3>4. SameInformation(afti, afti)
      BY DEF SameInformation
    <3>5. Len(list) + 1 \in like
      BY <3>2, <3>3, <3>4
    <3> HIDE DEF like
    <3>6. like # {}
      BY <3>5
    <3> QED BY <2>2, <3>2, <3>3, <3>6
  <2> QED BY <2>1, <2>2
<1>2. like \subseteq Nat
  OBVIOUS
<1>3. at \in like
  <2>1. \E x \in like : \A y \in like : x <= y
    <3> HIDE DEF like
    <3> QED BY <1>1, <1>2, LeastNumber
  <2>2. at = CHOOSE x \in like : \A y \in like : x <= y
    BY DEF IndexOf, Min
  <2> HIDE DEF like
  <2> QED BY <2>1, <2>2
<1> QED BY <1>1, <1>3

LEMMA SetsEncode == DepthInv /\ LayersInv /\ SetsInv /\ EncodeTile => SetsInv'
<1> SUFFICES ASSUME DepthInv, LayersInv, SetsInv, EncodeTile PROVE SetsInv'
  OBVIOUS
<1>1. /\ group \in Groups /\ group' = group
      /\ NumFrames \in Nat \ {0} /\ NumTiles \in Nat \ {0}
  BY Sizes DEF DepthInv, EncodeTile
<1>2. /\ NumTiles' = NumTiles /\ \A g : Heights(g)' = Heights(g)
      /\ \A l : FrameOf(l)' = FrameOf(l)
  BY <1>1 DEF NumTiles, Heights, FrameOf
<1>3. PICK S : layers \in Seq(S)
  BY DEF DepthInv
<1>4. PICK n \in Nat : Len(layers) = n /\ n < NumLayers
  BY <1>3 DEF EncodeTile
<1>5. PICK f, t : f = FrameOf(n + 1) /\ t = TileOf(n + 1)
  OBVIOUS
<1>6. f \in 1 .. NumFrames /\ t \in 1 .. NumTiles /\ Place(f, t) = n + 1
  BY <1>1, <1>4, <1>5, NextPlace
<1>7. PICK a : a = generateAfti(Heights(f))
  OBVIOUS
<1>8. PICK new, at : /\ sets' = new
                     /\ new = IF f = 1 THEN <<a>> ELSE WithInformation(sets, a)
                     /\ at = IF f = 1 THEN 1 ELSE IndexOf(new, a)
  BY <1>4, <1>5, <1>7 DEF EncodeTile, SetsFor, SetOf
<1>9. PICK x : layers' = Append(layers, x) /\ x.afps = at
  BY <1>4, <1>5, <1>7, <1>8 DEF EncodeTile, SetsFor, SetOf
<1>10. /\ Len(layers') = n + 1 /\ layers'[n + 1] = x
       /\ \A l \in 1 .. n : layers'[l] = layers[l]
  BY <1>3, <1>4, <1>9
<1>11. ASSUME f = 1, NEW l \in 1 .. n
       PROVE  FrameOf(l) = 1
  <2>1. PICK g, u : g = FrameOf(l) /\ u = TileOf(l)
    OBVIOUS
  <2>2. g \in 1 .. NumFrames /\ u \in 1 .. NumTiles /\ Place(g, u) = l
    BY <1>4, <2>1, LayerPlace
  <2>3. ~(f < g)
    BY <1>1, <1>6, <2>2, Places
  <2> QED BY <1>11, <2>1, <2>2, <2>3
<1>12. f # 1 => n # 0
  <2>1. 1 \in 1 .. NumFrames /\ 1 \in 1 .. NumTiles
    BY <1>1
  <2>2. Place(1, 1) \in Nat \ {0} /\ (1 < f => Place(1, 1) < Place(f, t))
    BY <1>1, <1>6, <2>1, Places
  <2> QED BY <1>6, <2>2
<1>13. n # 0 => /\ layers # <<>>
                /\ Len(sets) # 0 /\ sets[1] = generateAfti(Heights(1))
  <2>1. n # 0 => layers # <<>>
    BY <1>3, <1>4
  <2> QED BY <2>1 DEF SetsInv
<1>14. PICK R : sets \in Seq(R)
  BY DEF SetsInv
<1>15. Len(sets) \in Nat
  BY <1>14
<1>16. /\ \E Q : new \in Seq(Q)
       /\ Len(new) # 0 /\ Len(new) \in Nat /\ new[1] = generateAfti(Heights(1))
       /\ at \in 1 .. Len(new) /\ SameInformation(a, new[at])
       /\ f = 1 => at = 1
       /\ NumTiles = 1 => Len(new) <= 1
       /\ \A l \in 1 .. n : /\ layers[l].afps \in 1 .. Len(new)
                            /\ new[layers[l].afps] = sets[layers[l].afps]
  <2>1. CASE f = 1
    <3>1. new = <<a>> /\ new \in Seq({a}) /\ Len(new) = 1 /\ new[1] = a /\ at = 1
      BY <1>8, <2>1
    <3>2. SameInformation(a, a)
      BY DEF SameInformation
    <3>3. ASSUME NEW l \in 1 .. n
          PROVE  layers[l].afps \in 1 .. Len(new) /\ new[layers[l].afps] = sets[layers[l].afps]
      <4>1. layers[l].afps = 1
        BY <1>4, <1>11, <2>1 DEF SetsInv
      <4>2. sets[1] = a
        BY <1>7, <1>13, <2>1
      <4> QED BY <3>1, <4>1, <4>2
    <3>4. \E Q : new \in Seq(Q)
      BY <3>1
    <3>5. new[1] = generateAfti(Heights(1))
      BY <1>7, <2>1, <3>1
    <3>6. at \in 1 .. Len(new) /\ SameInformation(a, new[at])
      BY <3>1, <3>2
    <3> QED BY <3>1, <3>3, <3>4, <3>5, <3>6
  <2>2. CASE f # 1
    <3>1. new = WithInformation(sets, a) /\ at = IndexOf(new, a)
      BY <1>8, <2>2
    <3>2. /\ \E Q : new \in Seq(Q)
          /\ Len(new) >= Len(sets) /\ \A i \in 1 .. Len(sets) : new[i] = sets[i]
          /\ at \in 1 .. Len(new) /\ SameInformation(a, new[at])
          /\ (\E i \in 1 .. Len(sets) : SameInformation(a, sets[i])) => new = sets
      BY <1>14, <3>1, SetFound
    <3>3. Len(new) \in Nat
      <4>1. PICK Q : new \in Seq(Q)
        BY <3>2
      <4> QED BY <4>1
    <3>4. 1 \in 1 .. Len(sets) /\ sets[1] = generateAfti(Heights(1))
      BY <1>12, <1>13, <1>15, <2>2
    <3>5. NumTiles = 1 => Len(new) <= 1
      <4>1. SUFFICES ASSUME NumTiles = 1 PROVE new = sets
        BY DEF SetsInv
      <4>2. Len(Heights(f)) = 1 /\ Len(Heights(1)) = 1
        <5>1. 1 \in 1 .. NumFrames
          BY <1>1
        <5> QED BY <1>1, <1>6, <4>1, <5>1, HeightsAt
      <4>3. a.single = TRUE
        BY <1>7, <4>2 DEF generateAfti
      <4>4. a.single = sets[1].single
        BY <1>7, <3>4, <4>2 DEF generateAfti
      <4>5. SameInformation(a, sets[1])
        BY <4>3, <4>4 DEF SameInformation
      <4> QED BY <3>2, <3>4, <4>5
    <3>6. \A l \in 1 .. n : layers[l].afps \in 1 .. Len(sets)
      BY <1>4 DEF SetsInv
    <3>7. \A i \in 1 .. Len(sets) : i \in 1 .. Len(new)
      BY <1>15, <3>2, <3>3
    <3> QED BY <1>12, <1>13, <1>15, <2>2, <3>2, <3>3, <3>4, <3>5, <3>6, <3>7
  <2> QED BY <2>1, <2>2
<1>17. ASSUME NEW l \in 1 .. n + 1
       PROVE  /\ layers'[l].afps \in 1 .. Len(new)
              /\ SameInformation(generateAfti(Heights(FrameOf(l))), new[layers'[l].afps])
              /\ FrameOf(l) = 1 => layers'[l].afps = 1
  <2>1. CASE l \in 1 .. n
    <3>1. layers'[l] = layers[l] /\ new[layers[l].afps] = sets[layers[l].afps]
          /\ layers[l].afps \in 1 .. Len(new)
      BY <1>10, <1>16, <2>1
    <3>2. /\ SameInformation(generateAfti(Heights(FrameOf(l))), sets[layers[l].afps])
          /\ FrameOf(l) = 1 => layers[l].afps = 1
      BY <1>4, <2>1 DEF SetsInv
    <3> QED BY <3>1, <3>2
  <2>2. CASE l = n + 1
    BY <1>5, <1>7, <1>9, <1>10, <1>16, <2>2
  <2> QED BY <2>1, <2>2
<1>18. \A l \in 1 .. Len(layers') :
         /\ layers'[l].afps \in 1 .. Len(sets')
         /\ SameInformation(generateAfti(Heights(FrameOf(l))), sets'[layers'[l].afps])
         /\ FrameOf(l) = 1 => layers'[l].afps = 1
  BY <1>8, <1>10, <1>17
<1>19. \A l : Heights(FrameOf(l))' = Heights(FrameOf(l)) /\ FrameOf(l)' = FrameOf(l)
  BY <1>1, <1>2 DEF Heights
<1> QED BY <1>2, <1>8, <1>16, <1>18, <1>19 DEF SetsInv

LEMMA SetsNext == DepthInv /\ LayersInv /\ SetsInv /\ [Next]_vars => SetsInv'
<1> SUFFICES ASSUME DepthInv, LayersInv, SetsInv, [Next]_vars PROVE SetsInv'
  OBVIOUS
<1>1. CASE EncodeTile
  BY <1>1, SetsEncode
<1>2. ASSUME UNCHANGED <<group, layers, sets>> PROVE SetsInv'
  BY <1>2 DEF SetsInv, NumTiles, FrameOf, Heights
<1>3. CASE EndEncode \/ ReadTile \/ EndRead \/ BuildTile \/ EndBuild
  BY <1>2, <1>3 DEF EndEncode, ReadTile, EndRead, BuildTile, EndBuild
<1>4. CASE Finished \/ UNCHANGED vars
  BY <1>2, <1>4 DEF Finished, vars
<1> QED BY <1>1, <1>3, <1>4 DEF Next


(* what a parsed layer's set gives the decoder *)
LEMMA RowsOfLayer ==
  ASSUME DepthInv, LayersInv, SetsInv, NEW l \in 1 .. Len(layers),
         NEW f, f = FrameOf(l), NEW t, t = TileOf(l), NEW afti, afti = sets[layers[l].afps]
  PROVE  /\ NumTiles = 1 =>
              /\ CodesFlag(afti, t) <=> group.raw[1][1] > 0
              /\ setTileSizeAndLocation(afti)[1] = Unit * Heights(1)[1]
         /\ NumTiles # 1 =>
              /\ CodesFlag(afti, t) <=> group.raw[f][t] > 0
              /\ setTileSizeAndLocation(afti) = Heights(f)
<1>1. /\ group \in Groups /\ NumFrames \in Nat \ {0} /\ NumTiles \in Nat \ {0}
      /\ Len(layers) \in Nat /\ 1 \in 1 .. NumFrames
  BY Sizes DEF DepthInv
<1>2. f \in 1 .. NumFrames /\ t \in 1 .. NumTiles
  BY LayerPlace
<1>3. /\ layers[l].afps \in 1 .. Len(sets) /\ SameInformation(generateAfti(Heights(f)), afti)
  BY DEF SetsInv
<1>4. PICK S : sets \in Seq(S)
  BY DEF SetsInv
<1>5. CASE NumTiles = 1
  <2>1. layers # <<>> /\ Len(sets) \in Nat
    BY <1>1, <1>4
  <2>2. Len(sets) <= 1 /\ sets[1] = generateAfti(Heights(1))
    BY <1>5, <2>1 DEF SetsInv
  <2>3. afti = generateAfti(Heights(1))
    BY <1>3, <2>1, <2>2
  <2>4. PICK h \in Seq(Nat) : /\ h = Heights(1) /\ Len(h) = 1
                              /\ h[1] # 0 <=> group.raw[1][1] > 0
    BY <1>1, <1>5, HeightsAt
  <2>5. afti.rows = h /\ DOMAIN h = 1 .. 1 /\ h[1] \in Nat
    BY <2>3, <2>4 DEF generateAfti
  <2>6. t = 1
    BY <1>2, <1>5
  <2>7. CodesFlag(afti, t) <=> group.raw[1][1] > 0
    BY <2>4, <2>5, <2>6 DEF CodesFlag
  <2>8. setTileSizeAndLocation(afti)[1] = h[1] * Unit
    BY <2>5 DEF setTileSizeAndLocation
  <2>9. h[1] * Unit = Unit * h[1]
    BY <2>5, UnitAssumption
  <2> QED BY <1>5, <2>4, <2>7, <2>8, <2>9
<1>6. CASE NumTiles # 1
  <2>1. PICK h \in Seq(Nat) :
          /\ h = Heights(f) /\ Len(h) = NumTiles
          /\ \A u \in 1 .. NumTiles :
               /\ (h[u] \div Unit) * Unit = h[u]
               /\ h[u] \div Unit # 0 <=> group.raw[f][u] > 0
    BY <1>1, <1>2, HeightsAt
  <2>2. DOMAIN h = 1 .. NumTiles
    BY <2>1
  <2>3. afti.rows = [u \in 1 .. NumTiles |-> h[u] \div Unit]
    <3>1. ~ (Len(h) = 1)
      BY <1>6, <2>1
    <3>2. ~ generateAfti(h).single /\ generateAfti(h).rows = [u \in 1 .. NumTiles |-> h[u] \div Unit]
      BY <2>2, <3>1 DEF generateAfti
    <3> QED BY <1>3, <2>1, <3>2 DEF SameInformation
  <2>4. CodesFlag(afti, t) <=> group.raw[f][t] > 0
    BY <1>2, <2>1, <2>3 DEF CodesFlag
  <2>5. setTileSizeAndLocation(afti) = [u \in 1 .. NumTiles |-> h[u]]
    BY <2>1, <2>3 DEF setTileSizeAndLocation
  <2>6. h = [u \in 1 .. NumTiles |-> h[u]]
    BY <2>1, <2>2
  <2> QED BY <1>6, <2>1, <2>4, <2>5, <2>6
<1> QED BY <1>5, <1>6

(* With several tiles every raw patch keeps its flag and every frame's tile *)
(* information gives the decoder the rows its raw patches were put into;    *)
(* with one tile the flag is lost exactly when the frame has raw patches    *)
(* and the first frame of the group has none                                *)
(* (PCCAtlasFrameTileInformationRbsp.h:71).                                 *)
THEOREM AuxiliaryIsAsCoded == Spec => []AuxiliaryAsCoded
<1>1. Init => DepthInv /\ LayersInv /\ ReadInv /\ SetsInv
  BY DepthInit, LayersInit, ReadInit, SetsInit
<1>2. DepthInv /\ LayersInv /\ ReadInv /\ SetsInv /\ [Next]_vars
        => (DepthInv /\ LayersInv /\ ReadInv /\ SetsInv)'
  BY DepthNext, LayersNext, ReadNext, SetsNext
<1>3. DepthInv /\ LayersInv /\ ReadInv /\ SetsInv => AuxiliaryAsCoded
  <2> SUFFICES ASSUME DepthInv, LayersInv, ReadInv, SetsInv, NEW i \in 1 .. Len(parsed)
               PROVE  LET layer == layers[i]
                          rows  == setTileSizeAndLocation(sets[layer.afps])
                      IN  IF NumTiles = 1
                          THEN /\ parsed[i].flag # layer.raw <=> layer.raw /\ group.raw[1][1] = 0
                               /\ layer.frame = 1 => rows[1] = Unit * Heights(1)[1]
                          ELSE /\ parsed[i].flag = layer.raw
                               /\ TopOf(rows, layer.tile) = TopOf(Heights(layer.frame), layer.tile)
    BY DEF AuxiliaryAsCoded
  <2>1. i \in 1 .. Len(layers)
    <3>1. Len(layers) \in Nat /\ Len(parsed) \in Nat /\ Len(parsed) <= Len(layers)
      <4>1. PICK S : parsed \in Seq(S)
        BY DEF ReadInv
      <4>2. Len(layers) \in Nat
        BY DEF DepthInv
      <4> QED BY <4>1, <4>2 DEF ReadInv
    <3> QED BY <3>1
  <2>2. PICK f, t, afti : f = FrameOf(i) /\ t = TileOf(i) /\ afti = sets[layers[i].afps]
    OBVIOUS
  <2>3. /\ layers[i].frame = f /\ layers[i].tile = t
        /\ layers[i].raw = (group.raw[f][t] > 0)
    BY <2>1, <2>2 DEF LayersInv
  <2>4. parsed[i].flag = (layers[i].raw /\ CodesFlag(afti, t))
    BY <2>2, <2>3 DEF ReadInv, FlagRead
  <2>5. /\ NumTiles = 1 =>
              /\ CodesFlag(afti, t) <=> group.raw[1][1] > 0
              /\ setTileSizeAndLocation(afti)[1] = Unit * Heights(1)[1]
        /\ NumTiles # 1 =>
              /\ CodesFlag(afti, t) <=> group.raw[f][t] > 0
              /\ setTileSizeAndLocation(afti) = Heights(f)
    BY <2>1, <2>2, RowsOfLayer
  <2>6. group.raw[1][1] \in Nat
    <3>1. group \in Groups
      BY DEF DepthInv
    <3>2. 1 \in 1 .. NumFrames /\ 1 \in 1 .. NumTiles
      BY <3>1, Sizes
    <3> QED BY <3>1, <3>2, Sizes
  <2>7. group.raw[1][1] > 0 <=> group.raw[1][1] # 0
    BY <2>6
  <2>8. PICK b \in BOOLEAN, c \in BOOLEAN : b = layers[i].raw /\ c = CodesFlag(afti, t)
    <3>1. layers[i].raw \in BOOLEAN
      BY <2>3
    <3>2. CodesFlag(afti, t) \in BOOLEAN
      BY DEF CodesFlag
    <3> QED BY <3>1, <3>2
  <2>9. parsed[i].flag = (b /\ c) /\ (b <=> group.raw[f][t] > 0)
    BY <2>3, <2>4, <2>8
  <2>10. CASE NumTiles = 1
    <3>1. c <=> ~(group.raw[1][1] = 0)
      BY <2>5, <2>7, <2>10, <2>8
    <3>2. (b /\ c) # b <=> b /\ ~c
      OBVIOUS
    <3>3. parsed[i].flag # layers[i].raw <=> layers[i].raw /\ group.raw[1][1] = 0
      BY <2>8, <2>9, <3>1, <3>2
    <3> QED BY <2>2, <2>5, <2>10, <3>3
  <2>11. CASE NumTiles # 1
    <3>1. b => c
      BY <2>5, <2>11, <2>8, <2>9
    <3>2. (b /\ c) = b
      BY <3>1
    <3>3. parsed[i].flag = layers[i].raw
      BY <2>8, <2>9, <3>2
    <3> QED BY <2>2, <2>3, <2>5, <2>11, <3>3
  <2> QED BY <2>10, <2>11
<1> QED BY <1>1, <1>2, <1>3, PTL DEF Spec

=============================================================================
