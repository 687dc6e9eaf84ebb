----------------------- MODULE AtlasFrameOrder_proofs -----------------------
(***************************************************************************)
(* For every period of the low bits, every number of frames and tiles and  *)
(* every coding order inside the displacements the derivation can tell     *)
(* apart: the derivation of the atlas frame order count is exact, the      *)
(* tests on neighbouring counts cut the tile layers at the frames, and the *)
(* reference lists name complete frames the encoder could choose from.     *)
(***************************************************************************)
EXTENDS AtlasFrameOrder, InductionLemmas, SequenceTheorems, TLAPS

(* Division with remainder by the period of the low bits. *)
LEMMA DivideByPeriod ==
  ASSUME NEW f \in Nat
  PROVE  /\ calculateAFOCLsb(f) \in 0 .. MaxLsb - 1
         /\ \E q \in Nat : f = MaxLsb * q + calculateAFOCLsb(f)
<1> DEFINE q == f \div MaxLsb
<1>1. MaxLsb \in Nat \ {0}
  BY LsbAssumption DEF MaxLsb
<1> HIDE DEF MaxLsb
<1>2. q \in Nat /\ f % MaxLsb \in 0 .. MaxLsb - 1 /\ f = (MaxLsb * q) + (f % MaxLsb)
  BY <1>1
<1> QED
  BY <1>2 DEF calculateAFOCLsb, q

(* One derivation step: from the exact high part of the previous frame it
   finds the exact high part of any frame at most half a period ahead or less
   than half a period behind (PCCContext::calculateAFOCval). *)
LEMMA MsbStepExact ==
  ASSUME NEW f \in Nat, NEW g \in Nat, g <= f + HalfLsb, f <= g + HalfLsb - 1
  PROVE  AfocMsb(calculateAFOCLsb(g), calculateAFOCLsb(f), f - calculateAFOCLsb(f))
           = g - calculateAFOCLsb(g)
<1> DEFINE lf == calculateAFOCLsb(f)
           lg == calculateAFOCLsb(g)
<1>0. HalfLsb \in Nat \ {0} /\ MaxLsb = 2 * HalfLsb /\ MaxLsb \in Nat \ {0}
  BY LsbAssumption DEF MaxLsb
<1>1. PICK p \in Nat : f = MaxLsb * p + lf /\ lf \in 0 .. MaxLsb - 1
  BY DivideByPeriod
<1>2. PICK q \in Nat : g = MaxLsb * q + lg /\ lg \in 0 .. MaxLsb - 1
  BY DivideByPeriod
<1> HIDE DEF lf, lg
<1>3. PICK mp, mq \in Nat : mp = MaxLsb * p /\ mq = MaxLsb * q
  BY <1>0
<1>4. CASE p = q
  <2>1. mp = mq
    BY <1>3, <1>4
  <2> QED
    BY <1>0, <1>1, <1>2, <1>3, <2>1 DEF AfocMsb, lf, lg
<1>5. CASE p > q
  <2>1. mp >= mq + MaxLsb
    BY <1>0, <1>3, <1>5, Multiples
  <2>2. ~ (p > q + 1)
    <3>1. SUFFICES ASSUME p > q + 1 PROVE FALSE
      OBVIOUS
    <3>2. mp >= mq + 2 * MaxLsb
      BY <1>0, <1>3, <3>1, Multiples
    <3> QED BY <1>0, <1>1, <1>2, <1>3, <3>2
  <2>3. p = q + 1
    BY <1>5, <2>2
  <2>4. mp = mq + MaxLsb
    BY <1>0, <1>3, <2>3
  <2> QED
    BY <1>0, <1>1, <1>2, <1>3, <2>4 DEF AfocMsb, SubSizeT, lf, lg
<1>6. CASE q > p
  <2>1. mq >= mp + MaxLsb
    BY <1>0, <1>3, <1>6, Multiples
  <2>2. ~ (q > p + 1)
    <3>1. SUFFICES ASSUME q > p + 1 PROVE FALSE
      OBVIOUS
    <3>2. mq >= mp + 2 * MaxLsb
      BY <1>0, <1>3, <3>1, Multiples
    <3> QED BY <1>0, <1>1, <1>2, <1>3, <3>2
  <2>3. q = p + 1
    BY <1>6, <2>2
  <2>4. mq = mp + MaxLsb
    BY <1>0, <1>3, <2>3
  <2>5. lg < lf /\ lf - lg >= HalfLsb
    BY <1>0, <1>1, <1>2, <1>3, <2>4
  <2>6. f - lf = mp /\ g - lg = mp + MaxLsb
    BY <1>0, <1>1, <1>2, <1>3, <2>4
  <2>7. AfocMsb(lg, lf, mp) = mp + MaxLsb
    BY <2>5 DEF AfocMsb
  <2> QED
    BY <2>6, <2>7 DEF lf, lg
<1> QED
  BY <1>4, <1>5, <1>6

-----------------------------------------------------------------------------
(* The inductive invariant: what was derived so far is exact in both parts,
   and the tile layers follow the coding order. *)
Exact(i) ==
  /\ afoc[i].val = coded[i].frame
  /\ afoc[i].msb = coded[i].frame - calculateAFOCLsb(coded[i].frame)

CodingOrder ==
  /\ coded # <<>> => coded[1].frame = 0
  /\ \A i \in 2 .. Len(coded) :
       /\ coded[i].frame <= coded[i - 1].frame + HalfLsb
       /\ coded[i - 1].frame <= coded[i].frame + HalfLsb - 1

CodedType == coded \in Seq(TileLayers)

AfocInv ==
  /\ CodedType
  /\ CodingOrder
  /\ afoc \in Seq([msb : Int, val : Int])
  /\ next \in Nat \ {0}
  /\ Len(afoc) <= Len(coded)
  /\ phase = "read" => afoc = <<>> /\ next = 1
  /\ phase = "derive" => next = Len(afoc) + 1
  /\ \A i \in 1 .. Len(afoc) : Exact(i)

(* before any tile layer is read nothing is derived *)
LEMMA AfocInvInit == Init => AfocInv
BY DEF Init, AfocInv, CodedType, CodingOrder, Exact

(* reading and deriving keep the derived counts exact; the other steps leave them alone *)
LEMMA AfocInvNext == AfocInv /\ [Next]_vars => AfocInv'
<1> SUFFICES ASSUME AfocInv, [Next]_vars PROVE AfocInv'
  OBVIOUS
<1>0. /\ HalfLsb \in Nat \ {0} /\ MaxAhead \in 1 .. HalfLsb /\ MaxBack \in 0 .. HalfLsb - 1
      /\ MaxFrame \in Nat /\ Frames = 0 .. MaxFrame /\ NumTiles \in Nat \ {0}
  BY LsbAssumption, FrameAssumption, OrderAssumption DEF Frames
<1>a. Len(coded) \in Nat /\ \A i \in 1 .. Len(coded) : coded[i].frame \in Nat
  <2>1. ASSUME NEW i \in 1 .. Len(coded) PROVE coded[i].frame \in Nat
    <3>1. coded[i] \in TileLayers
      BY DEF AfocInv, CodedType
    <3>2. coded[i].frame \in Frames
      BY <3>1 DEF TileLayers
    <3> QED BY <3>2, <1>0
  <2> QED BY <2>1 DEF AfocInv, CodedType
<1>b. \A f \in Nat : calculateAFOCLsb(f) \in Nat
  <2>1. MaxLsb \in Nat
    BY <1>0 DEF MaxLsb
  <2> QED BY <2>1, DivideByPeriod
<1>1. ASSUME NEW frame \in Frames, NEW tile \in 0 .. NumTiles - 1, NEW type \in TileTypes,
             ReadTileLayer(frame, tile, type)
      PROVE  AfocInv'
  <2> DEFINE rec == [frame |-> frame, tile |-> tile, type |-> type]
  <2>1. /\ coded' = Append(coded, rec) /\ afoc = <<>> /\ UNCHANGED <<phase, afoc, next, context>>
        /\ next = 1 /\ phase = "read"
    BY <1>1 DEF ReadTileLayer, AfocInv
  <2>2. rec \in TileLayers /\ CodedType'
    BY <2>1 DEF CodedType, AfocInv, TileLayers
  <2>3. CodingOrder'
    <3>1. CASE coded = <<>>
      <4>1. coded' = <<rec>> /\ frame = 0
        BY <2>1, <3>1, <1>1 DEF ReadTileLayer, FollowsCodingOrder
      <4> QED BY <4>1 DEF CodingOrder
    <3>2. CASE coded # <<>>
      <4> DEFINE n == Len(coded)
      <4>1. n \in Nat \ {0} /\ Len(coded') = n + 1 /\ coded'[n + 1].frame = frame
            /\ \A i \in 1 .. n : coded'[i] = coded[i] /\ coded[i].frame \in Nat
        <5>1. n \in Nat \ {0} /\ coded \in Seq(TileLayers)
          BY <3>2, <1>a DEF CodedType, AfocInv
        <5>2. Len(coded') = n + 1 /\ coded'[n + 1] = rec /\ \A i \in 1 .. n : coded'[i] = coded[i]
          BY <2>1, <2>2, <5>1
        <5> QED BY <5>1, <5>2, <1>a
      <4>2. frame \in Nat /\ coded[n].frame \in Nat
        BY <4>1, <1>0
      <4>3. frame <= coded[n].frame + HalfLsb /\ coded[n].frame <= frame + HalfLsb - 1
        BY <1>0, <1>1, <3>2, <4>2 DEF ReadTileLayer, FollowsCodingOrder
      <4>4. coded'[1].frame = 0
        <5>1. 1 \in 1 .. n /\ coded[1].frame = 0
          BY <4>1, <3>2 DEF CodingOrder, AfocInv
        <5> QED BY <4>1, <5>1
      <4>5. ASSUME NEW i \in 2 .. Len(coded')
            PROVE  /\ coded'[i].frame <= coded'[i - 1].frame + HalfLsb
                   /\ coded'[i - 1].frame <= coded'[i].frame + HalfLsb - 1
        <5>1. CASE i = n + 1
          BY <4>1, <4>3, <5>1
        <5>2. CASE i <= n
          <6>1. i \in 2 .. Len(coded) /\ i - 1 \in 1 .. n /\ i \in 1 .. n
            BY <4>1, <5>2
          <6>2. coded'[i] = coded[i] /\ coded'[i - 1] = coded[i - 1]
            BY <4>1, <6>1
          <6> QED BY <6>1, <6>2 DEF CodingOrder, AfocInv
        <5> QED BY <4>1, <5>1, <5>2
      <4> QED BY <4>4, <4>5 DEF CodingOrder
    <3> QED BY <3>1, <3>2
  <2> QED BY <2>1, <2>2, <2>3 DEF AfocInv
<1>2. CASE StartDerivation
  BY <1>2 DEF StartDerivation, AfocInv, CodedType, CodingOrder, Exact
<1>3. CASE DeriveAfoc
  <2> DEFINE n == Len(afoc) + 1
             r == calculateAFOCval(n)
  <2>1. /\ n \in Nat \ {0} /\ next = n /\ n <= Len(coded) /\ afoc' = Append(afoc, r)
        /\ next' = n + 1 /\ UNCHANGED <<phase, coded, context>> /\ phase = "derive"
    BY <1>3 DEF DeriveAfoc, AfocInv
  <2>2. \A i \in 1 .. n : coded[i].frame \in Nat
    BY <2>1, <1>a
  <2>3. /\ r.val = coded[n].frame
        /\ r.msb = coded[n].frame - calculateAFOCLsb(coded[n].frame)
    <3>1. calculateAFOCLsb(coded[n].frame) \in Nat
      <4>1. coded[n].frame \in Nat
        BY <2>1, <2>2
      <4> QED BY <4>1, <1>b
    <3>2. CASE n = 1
      <4>1. coded[1].frame = 0
        BY <2>1, <3>2 DEF AfocInv, CodingOrder
      <4>2. calculateAFOCLsb(0) = 0
        <5>1. PICK q \in Nat : 0 = MaxLsb * q + calculateAFOCLsb(0)
          BY DivideByPeriod
        <5>2. calculateAFOCLsb(0) \in Nat /\ MaxLsb * q \in Nat
          BY DivideByPeriod, <1>0 DEF MaxLsb
        <5> QED BY <5>1, <5>2
      <4>3. r.msb = 0 /\ r.val = 0 + calculateAFOCLsb(coded[1].frame)
        BY <3>2 DEF calculateAFOCval, Lsb
      <4> QED BY <4>1, <4>2, <4>3, <3>2
    <3>3. CASE n > 1
      <4>1. /\ coded[n].frame <= coded[n - 1].frame + HalfLsb
            /\ coded[n - 1].frame <= coded[n].frame + HalfLsb - 1
        BY <2>1, <3>3 DEF AfocInv, CodingOrder
      <4>2. afoc[n - 1].msb = coded[n - 1].frame - calculateAFOCLsb(coded[n - 1].frame)
        BY <2>1, <3>3 DEF AfocInv, Exact
      <4>3. r.msb = AfocMsb(Lsb(n), Lsb(n - 1), afoc[n - 1].msb) /\ r.val = r.msb + Lsb(n)
        BY <3>3, <2>1 DEF calculateAFOCval
      <4>4. r.msb = coded[n].frame - calculateAFOCLsb(coded[n].frame)
        BY <4>1, <4>2, <4>3, <2>1, <2>2, <3>3, MsbStepExact DEF Lsb
      <4> QED BY <4>3, <4>4, <3>1, <2>1, <2>2 DEF Lsb
    <3> QED BY <2>1, <3>2, <3>3
  <2>4. r \in [msb : Int, val : Int]
    <3>1. calculateAFOCLsb(coded[n].frame) \in Int
      <4>1. coded[n].frame \in Nat
        BY <2>1, <2>2
      <4> QED BY <4>1, <1>b
    <3>2. r.msb \in Int /\ r.val \in Int
      BY <3>1, <2>1, <2>2, <2>3
    <3> QED BY <3>2 DEF calculateAFOCval
  <2>5. afoc' \in Seq([msb : Int, val : Int]) /\ Len(afoc') = n
        /\ \A i \in 1 .. n : afoc'[i] = IF i = n THEN r ELSE afoc[i]
    <3> HIDE DEF r
    <3> QED BY <2>1, <2>4 DEF AfocInv
  <2>6. \A i \in 1 .. Len(afoc') : Exact(i)'
    <3> HIDE DEF r
    <3> QED BY <2>1, <2>3, <2>5 DEF AfocInv, Exact
  <2> QED
    <3> HIDE DEF r
    <3> QED BY <2>1, <2>5, <2>6 DEF AfocInv, CodedType, CodingOrder
<1>4. CASE ResizeContext
  BY <1>4 DEF ResizeContext, AfocInv, CodedType, CodingOrder, Exact
<1>5. ASSUME NEW garbage \in Garbage, BuildTile(garbage)
      PROVE  AfocInv'
  <2>1. UNCHANGED <<phase, coded, afoc>> /\ next' = next + 1 /\ phase = "build"
    BY <1>5 DEF BuildTile
  <2>2. \A i \in 1 .. Len(afoc) : Exact(i)'
    BY <2>1 DEF AfocInv, Exact
  <2> QED
    BY <2>1, <2>2 DEF AfocInv, CodedType, CodingOrder
<1>6. CASE Finish
  BY <1>6 DEF Finish, AfocInv, CodedType, CodingOrder, Exact
<1>7. CASE UNCHANGED vars
  BY <1>7 DEF vars, AfocInv, CodedType, CodingOrder, Exact
<1> QED
  BY <1>1, <1>2, <1>3, <1>4, <1>5, <1>6, <1>7 DEF Next

(* The decoder finds, for every tile layer, the frame its writer meant
   (PCCContext::calculateAFOCval), for every period, group length and coding
   order inside OrderAssumption. *)
THEOREM AfocIsExact == Spec => []AfocExact
<1>1. AfocInv => AfocExact
  BY DEF AfocInv, AfocExact, Exact
<1> QED
  BY <1>1, AfocInvInit, AfocInvNext, PTL DEF Spec

-----------------------------------------------------------------------------
(***************************************************************************)
(* Reference lists.                                                        *)
(***************************************************************************)
LEMMA MinOfIs ==
  ASSUME NEW a \in Nat, NEW b \in Nat
  PROVE  MinOf(a, b) \in Nat /\ MinOf(a, b) <= a /\ MinOf(a, b) <= b /\ MinOf(a, b) \in {a, b}
BY DEF MinOf

(* what the encoder may choose from: the frames before, as far as the list goes *)
LEMMA EncoderRefs ==
  ASSUME NEW v \in Nat
  PROVE  ActiveRefs(EncoderRefAfocList(v), EncoderNumRefIdxActive(v))
           = {v - j : j \in 1 .. MinOf(NumRefEntries, v)}
<1>1. NumRefEntries \in Nat \ {0}
  BY FrameAssumption
<1>2. PICK m \in Nat : m = MinOf(NumRefEntries, v)
  BY <1>1, MinOfIs
<1>3. EncoderNumRefIdxActive(v) = m
  BY <1>1, <1>2 DEF EncoderNumRefIdxActive, MinOf
<1>4. PICK list : list = EncoderRefAfocList(v) /\ list = [j \in 1 .. m |-> v - j]
  BY <1>2 DEF EncoderRefAfocList
<1>5. list \in Seq(Int) /\ Len(list) = m
  BY <1>4
<1>6. MinOf(m, m) = m
  BY DEF MinOf
<1>7. \A k \in 1 .. m : list[k] = v - k
  BY <1>4
<1>8. ActiveRefs(list, m) = {v - j : j \in 1 .. m}
  BY <1>5, <1>6, <1>7 DEF ActiveRefs
<1> QED BY <1>2, <1>3, <1>4, <1>8

(* The decoder's list begins with the frames before, whatever is read past  *)
(* its end once an entry has been left out (PCCFrameContext::setRefAfocList).*)
LEMMA DecoderListBegins ==
  ASSUME NEW v \in Nat, NEW garbage \in Int
  PROVE  LET list == DecoderRefAfocList(v, garbage)
         IN  /\ list \in Seq(Nat)
             /\ \A j \in 1 .. MinOf(NumRefEntries, v) : j <= Len(list) /\ list[j] = v - j
<1>1. PICK n \in Nat \ {0} : n = NumRefEntries
  BY FrameAssumption
<1> DEFINE Base(k, sofar) == IF k = 1 THEN v
                             ELSE IF k - 1 <= Len(sofar) THEN sofar[k - 1] ELSE garbage
           Longer(k, sofar) == IF Base(k, sofar) - 1 >= 0
                               THEN Append(sofar, Base(k, sofar) - 1) ELSE sofar
           step == [k \in 1 .. n |-> [d \in Seq(Nat) |-> Longer(k, d)]]
<1>2. ASSUME NEW k \in 1 .. n, NEW d \in Seq(Nat) PROVE Base(k, d) \in Int
  OBVIOUS
<1>3. ASSUME NEW k \in 1 .. n, NEW d \in Seq(Nat) PROVE Longer(k, d) \in Seq(Nat)
  <2>1. Base(k, d) \in Int
    BY <1>2
  <2> HIDE DEF Base
  <2>2. Base(k, d) - 1 >= 0 => Base(k, d) - 1 \in Nat
    BY <2>1
  <2> QED BY <2>2
<1>4. \A k \in 1 .. n, d \in Seq(Nat) : step[k][d] = Longer(k, d)
  <2> HIDE DEF Longer
  <2> QED OBVIOUS
<1> HIDE DEF step
<1>5. StepsIn(step, 1 .. n, Seq(Nat))
  <2> HIDE DEF Longer
  <2> QED BY <1>3, <1>4 DEF StepsIn
<1>6. PICK p : Recursion(p, 0, n, Seq(Nat), <<>>, step)
  <2>1. <<>> \in Seq(Nat) /\ n \in Nat
    OBVIOUS
  <2> QED BY <1>5, <2>1, PrefixRecursion
<1>7. /\ p \in [0 .. n -> Seq(Nat)]
      /\ \A k \in 0 .. n : p[k] = IF k = 0 THEN <<>> ELSE Longer(k, p[k - 1])
  <2>1. ASSUME NEW k \in 0 .. n, k # 0 PROVE k \in 1 .. n /\ p[k - 1] \in Seq(Nat)
    BY <2>1, <1>6 DEF Recursion
  <2> HIDE DEF Longer
  <2> QED BY <1>4, <1>6, <2>1 DEF Recursion
<1>8. p = [k \in 0 .. NumRefEntries |->
             IF k = 0 THEN <<>>
             ELSE LET sofar  == p[k - 1]
                      base   == IF k = 1 THEN v
                                ELSE IF k - 1 <= Len(sofar) THEN sofar[k - 1] ELSE garbage
                      refPOC == base - 1
                  IN  IF refPOC >= 0 THEN Append(sofar, refPOC) ELSE sofar]
  BY <1>1, <1>7
<1>9. PICK q : /\ DecoderRefAfocList(v, garbage) = q[NumRefEntries]
               /\ q = [k \in 0 .. NumRefEntries |->
                         IF k = 0 THEN <<>>
                         ELSE LET sofar  == q[k - 1]
                                  base   == IF k = 1 THEN v
                                            ELSE IF k - 1 <= Len(sofar) THEN sofar[k - 1] ELSE garbage
                                  refPOC == base - 1
                              IN  IF refPOC >= 0 THEN Append(sofar, refPOC) ELSE sofar]
  BY <1>8, ZenonT(60) DEF DecoderRefAfocList
<1>10. \A k \in 0 .. n : q[k] = IF k = 0 THEN <<>> ELSE Longer(k, q[k - 1])
  <2>1. q = [k \in 0 .. n |-> IF k = 0 THEN <<>> ELSE Longer(k, q[k - 1])]
    BY <1>1, <1>9, Zenon
  <2> HIDE DEF Longer
  <2> QED BY <2>1
<1> DEFINE Begins(k) == /\ q[k] \in Seq(Nat)
                        /\ \A j \in 1 .. k : j <= v => j <= Len(q[k]) /\ q[k][j] = v - j
                        /\ k <= v => Len(q[k]) = k
           T == {k \in 0 .. n : Begins(k)}
<1>11. 0 \in T
  <2>1. q[0] = <<>>
    BY <1>10
  <2>2. q[0] \in Seq(Nat) /\ Len(q[0]) = 0
    BY <2>1
  <2> QED BY <2>2
<1>12. ASSUME NEW k \in 1 .. n, k - 1 \in T
       PROVE  k \in T
  <2>1. PICK s \in Seq(Nat) : /\ s = q[k - 1]
                              /\ \A j \in 1 .. k - 1 : j <= v => j <= Len(s) /\ s[j] = v - j
                              /\ k - 1 <= v => Len(s) = k - 1
    BY <1>12
  <2>2. q[k] = Longer(k, s)
    <3>1. k \in 0 .. n /\ k # 0
      OBVIOUS
    <3> HIDE DEF Longer
    <3>2. q[k] = Longer(k, q[k - 1])
      BY <1>10, <3>1
    <3> QED BY <2>1, <3>2
  <2>3. PICK b \in Int : b = Base(k, s)
    <3> HIDE DEF Base
    <3> QED BY <1>2
  <2>4. k - 1 <= v => b = v - (k - 1)
    <3>1. CASE k = 1
      BY <2>3, <3>1
    <3>2. CASE k # 1 /\ k - 1 <= v
      <4>1. k - 1 \in 1 .. k - 1 /\ k - 1 <= Len(s) /\ s[k - 1] = v - (k - 1)
        BY <2>1, <3>2
      <4> QED BY <2>3, <3>2, <4>1
    <3> QED BY <3>1, <3>2
  <2>5. q[k] = IF b - 1 >= 0 THEN Append(s, b - 1) ELSE s
    BY <2>2, <2>3
  <2>6. Len(s) \in Nat /\ k \in Nat
    OBVIOUS
  <2>7. CASE b - 1 >= 0
    <3>1. q[k] = Append(s, b - 1) /\ b - 1 \in Nat
      BY <2>5, <2>7
    <3>2. /\ q[k] \in Seq(Nat) /\ Len(q[k]) = Len(s) + 1 /\ q[k][Len(s) + 1] = b - 1
          /\ \A j \in 1 .. Len(s) : q[k][j] = s[j]
      BY <3>1
    <3>3. ASSUME NEW j \in 1 .. k, j <= v PROVE j <= Len(q[k]) /\ q[k][j] = v - j
      <4>1. CASE j = k
        <5>1. Len(s) = k - 1 /\ b = v - (k - 1)
          BY <2>1, <2>4, <3>3, <4>1
        <5> QED BY <2>6, <3>2, <4>1, <5>1
      <4>2. CASE j # k
        <5>1. j \in 1 .. k - 1 /\ j <= Len(s) /\ s[j] = v - j
          BY <2>1, <3>3, <4>2
        <5> QED BY <2>6, <3>2, <5>1
      <4> QED BY <4>1, <4>2
    <3>4. k <= v => Len(q[k]) = k
      BY <2>1, <2>6, <3>2
    <3> QED BY <3>2, <3>3, <3>4
  <2>8. CASE ~(b - 1 >= 0)
    <3>1. q[k] = s
      BY <2>5, <2>8
    <3>2. ~(k <= v)
      BY <2>4, <2>8
    <3>3. \A j \in 1 .. k : j <= v => j \in 1 .. k - 1
      BY <3>2
    <3> QED BY <2>1, <3>1, <3>2, <3>3
  <2> QED BY <2>7, <2>8
<1>13. Begins(n)
  <2>1. \A k \in 0 .. n : k \in T
    <3> HIDE DEF T
    <3> QED BY <1>11, <1>12, PrefixInduction
  <2> QED BY <2>1
<1>14. MinOf(n, v) \in Nat /\ MinOf(n, v) <= n /\ MinOf(n, v) <= v
  BY MinOfIs
<1>15. \A j \in 1 .. MinOf(n, v) : j <= Len(q[n]) /\ q[n][j] = v - j
  BY <1>13, <1>14
<1>16. DecoderRefAfocList(v, garbage) = q[n]
  BY <1>1, <1>9
<1>17. q[n] \in Seq(Nat)
  BY <1>13
<1> QED BY <1>1, <1>15, <1>16, <1>17

(* A tile takes patches from what the encoder could choose from. *)
LEMMA TileRefsAsEncoded ==
  ASSUME NEW i, NEW garbage \in Int, NEW v \in Nat, v = afoc[i].val
  PROVE  /\ TileRefs(i, garbage) \subseteq {v - j : j \in 1 .. MinOf(NumRefEntries, v)}
         /\ coded[i].type = "I_TILE" => TileRefs(i, garbage) = {}
<1>1. NumRefEntries \in Nat \ {0}
  BY FrameAssumption
<1>2. CASE coded[i].type = "I_TILE" \/ v = 0
  BY <1>2 DEF TileRefs
<1>3. CASE ~(coded[i].type = "I_TILE" \/ v = 0)
  <2>1. PICK list, active : /\ list = DecoderRefAfocList(v, garbage)
                            /\ active = getNumRefIdxActive(v)
                            /\ TileRefs(i, garbage) = ActiveRefs(list, active)
    BY <1>3 DEF TileRefs
  <2>2. PICK m \in Nat : m = MinOf(NumRefEntries, v)
    BY <1>1, MinOfIs
  <2>3. list \in Seq(Nat) /\ \A j \in 1 .. m : j <= Len(list) /\ list[j] = v - j
    BY <2>1, <2>2, DecoderListBegins
  <2>4. active = m
    BY <1>1, <1>3, <2>1, <2>2 DEF getNumRefIdxActive, OverrideFlag, EncoderNumRefIdxActive, MinOf
  <2>5. PICK l \in Nat : l = MinOf(m, Len(list)) /\ l <= m
    <3>1. Len(list) \in Nat
      BY <2>3
    <3> QED BY <3>1, MinOfIs
  <2>6. TileRefs(i, garbage) = {list[k] : k \in 1 .. l}
    BY <2>1, <2>4, <2>5 DEF ActiveRefs
  <2>7. ASSUME NEW k \in 1 .. l PROVE k \in 1 .. m /\ list[k] = v - k
    BY <2>3, <2>5
  <2> QED BY <1>3, <2>2, <2>6, <2>7
<1> QED BY <1>2, <1>3


-----------------------------------------------------------------------------
(***************************************************************************)
(* Frames.                                                                 *)
(***************************************************************************)
(* a tile layer continues its frame or starts one that is new *)
Follows(i) ==
  IF coded[i - 1].tile + 1 < NumTiles
  THEN coded[i].frame = coded[i - 1].frame /\ coded[i].tile = coded[i - 1].tile + 1
  ELSE coded[i].tile = 0 /\ \A j \in 1 .. i - 1 : coded[j].frame # coded[i].frame

(* the references of a P tile were coded before it *)
RefersBack(i) ==
  coded[i].type = "P_TILE" =>
    \A j \in 1 .. MinOf(NumRefEntries, coded[i].frame) :
      \E h \in 1 .. i - 1 : coded[h].frame = coded[i].frame - j

CodedInv ==
  /\ phase \in {"read", "derive", "build", "done"}
  /\ coded # <<>> => coded[1].tile = 0
  /\ \A i \in 2 .. Len(coded) : Follows(i)
  /\ \A i \in 1 .. Len(coded) : RefersBack(i)
  /\ phase # "read" => Len(coded) # 0 /\ coded[Len(coded)].tile = NumTiles - 1
  /\ phase \in {"build", "done"} => Len(afoc) = Len(coded)
  /\ phase = "build" => next <= Len(coded) + 1
  /\ phase = "done" => next = Len(coded) + 1
  /\ phase \in {"read", "derive"} => context = <<>>

(* the last of the first n - 1 tile layers that is of frame f *)
LastBefore(f, n, i) ==
  /\ i \in 1 .. n - 1 /\ coded[i].frame = f
  /\ \A j \in i + 1 .. n - 1 : coded[j].frame # f

FrameType == [located : Nat, tiles : Seq(Nat), hashed : Nat, refs : SUBSET Int]

(* what the decoder has of a frame when it is at tile layer n *)
BuiltUpTo(f, n) ==
  /\ (\A i \in 1 .. n - 1 : coded[i].frame # f - 1) =>
       context[f].located = 0 /\ context[f].tiles = <<>> /\ context[f].hashed = 0
  /\ \A i \in 1 .. n - 1 : LastBefore(f - 1, n, i) =>
       /\ context[f].located = 1
       /\ context[f].tiles = [t \in 1 .. coded[i].tile + 1 |-> t - 1]
       /\ context[f].hashed = IF coded[i].tile = NumTiles - 1 THEN 1 ELSE 0

Referable(f) == ActiveRefs(EncoderRefAfocList(f - 1), EncoderNumRefIdxActive(f - 1))

FramesInv ==
  phase \in {"build", "done"} =>
    /\ \E m \in Nat : /\ context \in [1 .. m -> FrameType]
                      /\ \A i \in 1 .. Len(coded) : coded[i].frame < m
    /\ \A f \in DOMAIN context : BuiltUpTo(f, next) /\ context[f].refs \subseteq Referable(f)

LEMMA TileLayerAt ==
  ASSUME AfocInv, NEW i \in 1 .. Len(coded)
  PROVE  coded[i].frame \in Nat /\ coded[i].tile \in 0 .. NumTiles - 1 /\ coded[i].type \in TileTypes
<1>1. coded[i] \in TileLayers
  BY DEF AfocInv, CodedType
<1> QED BY <1>1, FrameAssumption DEF TileLayers, Frames

LEMMA CodedInit == Init => CodedInv
BY DEF Init, CodedInv

LEMMA CodedNext == AfocInv /\ CodedInv /\ [Next]_vars => CodedInv'
<1> SUFFICES ASSUME AfocInv, CodedInv, [Next]_vars PROVE CodedInv'
  OBVIOUS
<1>1. coded \in Seq(TileLayers) /\ Len(coded) \in Nat /\ NumTiles \in Nat \ {0}
      /\ NumRefEntries \in Nat \ {0} /\ next \in Nat /\ Len(afoc) <= Len(coded) /\ Len(afoc) \in Nat
  BY FrameAssumption DEF AfocInv, CodedType
<1>2. ASSUME coded' = coded
      PROVE  \A i : Follows(i)' = Follows(i) /\ RefersBack(i)' = RefersBack(i)
  BY <1>2 DEF Follows, RefersBack
<1>3. ASSUME NEW frame \in Frames, NEW tile \in 0 .. NumTiles - 1, NEW type \in TileTypes,
             ReadTileLayer(frame, tile, type)
      PROVE  CodedInv'
  <2>1. PICK n \in Nat : n = Len(coded)
    BY <1>1
  <2>2. PICK x \in TileLayers : x = [frame |-> frame, tile |-> tile, type |-> type]
    BY DEF TileLayers
  <2>3. x.frame = frame /\ x.tile = tile /\ x.type = type /\ frame \in Nat
    BY <2>2, FrameAssumption DEF Frames
  <2>4. /\ coded' = Append(coded, x) /\ phase = "read" /\ UNCHANGED <<phase, context>>
    BY <1>3, <2>2 DEF ReadTileLayer
  <2>5. /\ Len(coded') = n + 1 /\ coded'[n + 1] = x
        /\ \A i \in 1 .. n : coded'[i] = coded[i]
    BY <1>1, <2>1, <2>4
  <2>6. coded'[1].tile = 0
    <3>1. CASE n = 0
      <4>1. coded = <<>>
        BY <1>1, <2>1, <3>1, EmptySeq
      <4>2. tile = 0
        BY <1>3, <4>1 DEF ReadTileLayer, FollowsCodingOrder
      <4> QED BY <2>3, <2>5, <3>1, <4>2
    <3>2. CASE n # 0
      <4>1. coded # <<>> /\ 1 \in 1 .. n
        BY <2>1, <3>2
      <4> QED BY <2>5, <4>1 DEF CodedInv
    <3> QED BY <3>1, <3>2
  <2>7. ASSUME NEW i \in 2 .. n + 1 PROVE Follows(i)'
    <3>1. CASE i = n + 1
      <4>1. n \in 1 .. n /\ coded # <<>> /\ i - 1 = n
        BY <2>1, <3>1
      <4>2. IF coded[n].tile + 1 < NumTiles
            THEN frame = coded[n].frame /\ tile = coded[n].tile + 1
            ELSE tile = 0 /\ frame \notin CodedFrames
        BY <1>3, <2>1, <4>1 DEF ReadTileLayer, FollowsCodingOrder
      <4>3. frame \notin CodedFrames => \A j \in 1 .. n : coded[j].frame # frame
        BY <1>1, <2>1 DEF CodedFrames
      <4>4. coded'[i] = x /\ coded'[i - 1] = coded[n]
        BY <2>5, <3>1, <4>1
      <4>5. \A j \in 1 .. i - 1 : coded'[j] = coded[j]
        BY <2>5, <4>1
      <4> QED BY <2>3, <4>1, <4>2, <4>3, <4>4, <4>5 DEF Follows
    <3>2. CASE i # n + 1
      <4>1. i \in 2 .. Len(coded) /\ i \in 1 .. n /\ i - 1 \in 1 .. n
        BY <2>1, <3>2
      <4>2. \A j \in 1 .. i - 1 : j \in 1 .. n
        BY <4>1
      <4>3. Follows(i)
        BY <4>1 DEF CodedInv
      <4> QED BY <2>5, <4>1, <4>2, <4>3 DEF Follows
    <3> QED BY <3>1, <3>2
  <2>8. ASSUME NEW i \in 1 .. n + 1 PROVE RefersBack(i)'
    <3>1. CASE i = n + 1
      <4>1. SUFFICES ASSUME type = "P_TILE", NEW j \in 1 .. MinOf(NumRefEntries, frame)
                     PROVE  \E h \in 1 .. n : coded'[h].frame = frame - j
        BY <2>3, <2>5, <3>1 DEF RefersBack
      <4>2. frame - j \in CodedFrames
        <5>1. {frame - k : k \in 1 .. MinOf(NumRefEntries, frame)} \subseteq CodedFrames
          BY <1>3, <2>3, <4>1, EncoderRefs DEF ReadTileLayer
        <5> QED BY <4>1, <5>1
      <4>3. PICK h \in DOMAIN coded : coded[h].frame = frame - j
        BY <4>2 DEF CodedFrames
      <4>4. h \in 1 .. n
        BY <1>1, <2>1
      <4> QED BY <2>5, <4>3, <4>4
    <3>2. CASE i # n + 1
      <4>1. i \in 1 .. Len(coded) /\ i \in 1 .. n
        BY <2>1, <3>2
      <4>2. \A h \in 1 .. i - 1 : h \in 1 .. n
        BY <4>1
      <4>3. RefersBack(i)
        BY <4>1 DEF CodedInv
      <4> QED BY <2>5, <4>1, <4>2, <4>3 DEF RefersBack
    <3> QED BY <3>1, <3>2
  <2> QED BY <2>4, <2>5, <2>6, <2>7, <2>8 DEF CodedInv
<1>4. CASE StartDerivation
  <2>1. Len(coded) # 0
    BY <1>1, <1>4 DEF StartDerivation
  <2> QED BY <1>2, <1>4, <2>1 DEF StartDerivation, CodedInv
<1>5. CASE DeriveAfoc
  BY <1>2, <1>5 DEF DeriveAfoc, CodedInv
<1>6. CASE ResizeContext
  <2>1. next = Len(afoc) + 1 /\ next > Len(coded)
    BY <1>6 DEF ResizeContext, AfocInv
  <2>2. Len(afoc) = Len(coded)
    BY <1>1, <2>1
  <2> QED BY <1>1, <1>2, <1>6, <2>2 DEF ResizeContext, CodedInv
<1>7. ASSUME NEW garbage \in Garbage, BuildTile(garbage) PROVE CodedInv'
  <2>1. next' <= Len(coded) + 1
    BY <1>1, <1>7 DEF BuildTile
  <2> QED BY <1>2, <1>7, <2>1 DEF BuildTile, CodedInv
<1>8. CASE Finish
  <2>1. next = Len(coded) + 1
    BY <1>1, <1>8 DEF Finish, CodedInv
  <2> QED BY <1>2, <1>8, <2>1 DEF Finish, CodedInv
<1>9. CASE UNCHANGED vars
  BY <1>2, <1>9 DEF vars, CodedInv
<1> QED BY <1>3, <1>4, <1>5, <1>6, <1>7, <1>8, <1>9 DEF Next

(* a frame that has been left is complete *)
LEMMA LeftFrameComplete ==
  ASSUME AfocInv, CodedInv, NEW n \in 1 .. Len(coded) + 1, NEW f, NEW i, LastBefore(f, n, i),
         IF n = Len(coded) + 1 THEN phase # "read" ELSE coded[n].frame # f
  PROVE  coded[i].tile = NumTiles - 1
<1>1. NumTiles \in Nat \ {0} /\ Len(coded) \in Nat
  BY FrameAssumption DEF AfocInv, CodedType
<1>2. i \in 1 .. n - 1 /\ i \in 1 .. Len(coded) /\ coded[i].frame = f
      /\ \A j \in i + 1 .. n - 1 : coded[j].frame # f
  BY <1>1 DEF LastBefore
<1>3. coded[i].tile \in 0 .. NumTiles - 1
  BY <1>2, TileLayerAt
<1>4. CASE i = Len(coded)
  <2>1. n = Len(coded) + 1
    BY <1>1, <1>2, <1>4
  <2> QED BY <1>4, <2>1 DEF CodedInv
<1>5. CASE i # Len(coded)
  <2>1. i + 1 \in 2 .. Len(coded) /\ (i + 1) - 1 = i
    BY <1>1, <1>2, <1>5
  <2>2. coded[i + 1].frame # f
    <3>1. CASE i + 1 \in i + 1 .. n - 1
      BY <1>2, <3>1
    <3>2. CASE i + 1 = n
      <4>1. n # Len(coded) + 1
        <5>1. CASE n = Len(coded) + 1
          <6>1. i = Len(coded)
            BY <1>1, <1>2, <3>2, <5>1
          <6> QED BY <1>5, <6>1
        <5> QED BY <5>1
      <4> QED BY <3>2, <4>1
    <3> QED BY <1>1, <1>2, <3>1, <3>2
  <2>3. Follows(i + 1)
    BY <2>1 DEF CodedInv
  <2>4. ~(coded[i].tile + 1 < NumTiles)
    BY <1>2, <2>1, <2>2, <2>3 DEF Follows
  <2> QED BY <1>1, <1>3, <2>4
<1> QED BY <1>4, <1>5

(* the tests on neighbouring counts find the first and the last tile *)
LEMMA CutsAtTiles ==
  ASSUME AfocInv, CodedInv, phase = "build", NEW n \in 1 .. Len(coded), n = next
  PROVE  /\ StartsFrame(n) <=> coded[n].tile = 0
         /\ EndsFrame(n) <=> coded[n].tile = NumTiles - 1
<1>1. NumTiles \in Nat \ {0} /\ Len(coded) \in Nat
  BY FrameAssumption DEF AfocInv, CodedType
<1>2. \A i \in 1 .. Len(coded) : afoc[i].val = coded[i].frame
  BY DEF AfocInv, CodedInv, Exact
<1>3. ASSUME NEW i \in 2 .. Len(coded)
      PROVE  /\ coded[i - 1].frame # coded[i].frame <=> coded[i].tile = 0
             /\ coded[i - 1].frame # coded[i].frame <=> coded[i - 1].tile = NumTiles - 1
  <2>1. i - 1 \in 1 .. i - 1 /\ i - 1 \in 1 .. Len(coded) /\ i \in 1 .. Len(coded)
    BY <1>1
  <2>2. coded[i - 1].tile \in 0 .. NumTiles - 1
    BY <2>1, TileLayerAt
  <2>3. Follows(i)
    BY DEF CodedInv
  <2>4. CASE coded[i - 1].tile + 1 < NumTiles
    BY <1>1, <2>2, <2>3, <2>4 DEF Follows
  <2>5. CASE ~(coded[i - 1].tile + 1 < NumTiles)
    BY <1>1, <2>1, <2>2, <2>3, <2>5 DEF Follows
  <2> QED BY <2>4, <2>5
<1>4. StartsFrame(n) <=> coded[n].tile = 0
  <2>1. CASE n = 1
    <3>1. coded # <<>>
      BY <1>1
    <3> QED BY <2>1, <3>1 DEF StartsFrame, CodedInv
  <2>2. CASE n # 1
    <3>1. n \in 2 .. Len(coded) /\ n - 1 \in 1 .. Len(coded)
      BY <1>1, <2>2
    <3>2. afoc[n].val = coded[n].frame /\ afoc[n - 1].val = coded[n - 1].frame
      BY <1>2, <3>1
    <3> QED BY <1>3, <2>2, <3>1, <3>2 DEF StartsFrame
  <2> QED BY <2>1, <2>2
<1>5. EndsFrame(n) <=> coded[n].tile = NumTiles - 1
  <2>1. CASE n = Len(coded)
    BY <2>1 DEF EndsFrame, CodedInv
  <2>2. CASE n # Len(coded)
    <3>1. n + 1 \in 2 .. Len(coded) /\ n + 1 \in 1 .. Len(coded) /\ (n + 1) - 1 = n
      BY <1>1, <2>2
    <3>2. afoc[n].val = coded[n].frame /\ afoc[n + 1].val = coded[n + 1].frame
      BY <1>2, <3>1
    <3>3. coded[n].frame # coded[n + 1].frame <=> coded[n].tile = NumTiles - 1
      BY <1>3, <3>1
    <3> QED BY <2>2, <3>2, <3>3 DEF EndsFrame
  <2> QED BY <2>1, <2>2
<1> QED BY <1>4, <1>5


(* the frame list is long enough for every coded frame *)
LEMMA FrameCountIs ==
  ASSUME AfocInv, Len(afoc) = Len(coded), Len(coded) # 0
  PROVE  frameCount \in Nat /\ \A i \in 1 .. Len(coded) : coded[i].frame < frameCount
<1>1. Len(coded) \in Nat /\ DOMAIN afoc = 1 .. Len(coded)
  BY DEF AfocInv, CodedType
<1>2. \A i \in 1 .. Len(coded) : coded[i].frame \in Nat /\ afoc[i].val = coded[i].frame
  BY TileLayerAt DEF AfocInv, Exact
<1>3. PICK T : T = {afoc[i].val + 1 : i \in DOMAIN afoc}
  OBVIOUS
<1>4. T \subseteq 0 .. MaxFrame + 1 /\ T # {}
  <2>1. \A i \in 1 .. Len(coded) : coded[i].frame \in 0 .. MaxFrame
    <3>1. \A i \in 1 .. Len(coded) : coded[i] \in TileLayers
      BY DEF AfocInv, CodedType
    <3> QED BY <3>1 DEF TileLayers, Frames
  <2>2. 1 \in 1 .. Len(coded)
    BY <1>1
  <2> QED BY <1>1, <1>2, <1>3, <2>1, <2>2, FrameAssumption
<1>5. \E n \in T : \A a \in T : a <= n
  <2>1. MaxFrame + 1 \in Nat /\ T \subseteq Nat
    BY <1>4, FrameAssumption
  <2>2. \A a \in T : a <= MaxFrame + 1
    BY <1>4, FrameAssumption
  <2> QED BY <1>4, <2>1, <2>2, LargestNumber
<1>6. frameCount \in T /\ \A a \in T : a <= frameCount
  <2>1. \E n \in T : \A i \in DOMAIN afoc : afoc[i].val + 1 <= n
    BY <1>3, <1>5
  <2>2. frameCount \in T /\ \A i \in DOMAIN afoc : afoc[i].val + 1 <= frameCount
    BY <1>3, <2>1 DEF frameCount
  <2> QED BY <1>3, <2>2
<1>7. frameCount \in Nat
  BY <1>4, <1>6, FrameAssumption
<1>8. \A i \in 1 .. Len(coded) : coded[i].frame + 1 <= frameCount
  BY <1>1, <1>2, <1>3, <1>6
<1> QED BY <1>2, <1>7, <1>8

(* what building a tile layer does to its frame *)
LEMMA TileBuilt ==
  ASSUME AfocInv, CodedInv, FramesInv, NEW garbage \in Garbage, BuildTile(garbage),
         NEW n, n = next, NEW c, c = coded[n]
  PROVE  /\ n \in 1 .. Len(coded) /\ next' = n + 1
         /\ DOMAIN context' = DOMAIN context /\ c.frame + 1 \in DOMAIN context
         /\ \A f \in DOMAIN context : f # c.frame + 1 => context'[f] = context[f]
         /\ context'[c.frame + 1] =
              [located |-> IF c.tile = 0 THEN context[c.frame + 1].located + 1
                           ELSE context[c.frame + 1].located,
               tiles   |-> Append(context[c.frame + 1].tiles, c.tile),
               hashed  |-> IF c.tile = NumTiles - 1 THEN context[c.frame + 1].hashed + 1
                           ELSE context[c.frame + 1].hashed,
               refs    |-> context[c.frame + 1].refs \cup TileRefs(n, garbage)]
<1>1. /\ phase = "build" /\ n \in 1 .. Len(coded) /\ next' = n + 1
  <2>1. phase = "build" /\ next <= Len(coded) /\ next' = next + 1
    BY DEF BuildTile
  <2>2. next \in Nat \ {0} /\ Len(coded) \in Nat
    BY DEF AfocInv, CodedType
  <2> QED BY <2>1, <2>2
<1>2. afoc[n].val = c.frame /\ c.frame \in Nat
  BY <1>1, TileLayerAt DEF AfocInv, CodedInv, Exact
<1>3. PICK m \in Nat : /\ context \in [1 .. m -> FrameType]
                       /\ \A i \in 1 .. Len(coded) : coded[i].frame < m
  BY <1>1 DEF FramesInv
<1>4. PICK g \in 1 .. m : g = c.frame + 1
  BY <1>1, <1>2, <1>3
<1>5. PICK r : r = TileRefs(n, garbage)
  OBVIOUS
<1>6. PICK b \in BOOLEAN, e \in BOOLEAN :
        (b <=> StartsFrame(n)) /\ (e <=> EndsFrame(n)) /\ (b <=> c.tile = 0) /\ (e <=> c.tile = NumTiles - 1)
  <2>1. (StartsFrame(n) <=> c.tile = 0) /\ (EndsFrame(n) <=> c.tile = NumTiles - 1)
    BY <1>1, CutsAtTiles
  <2> QED BY <2>1
<1>7. context' = [context EXCEPT
        ![g].located = IF b THEN @ + 1 ELSE @,
        ![g].tiles   = Append(@, c.tile),
        ![g].refs    = @ \cup r,
        ![g].hashed  = IF e THEN @ + 1 ELSE @]
  <2>1. n = next /\ c = coded[n] /\ g = afoc[n].val + 1
    BY <1>2, <1>4
  <2> QED BY <1>5, <1>6, <2>1 DEF BuildTile
<1>8. \A f \in 1 .. m : f # g => context'[f] = context[f]
  BY <1>3, <1>7
<1>9. context'[g] = [located |-> IF b THEN context[g].located + 1 ELSE context[g].located,
                     tiles   |-> Append(context[g].tiles, c.tile),
                     hashed  |-> IF e THEN context[g].hashed + 1 ELSE context[g].hashed,
                     refs    |-> context[g].refs \cup r]
  BY <1>3, <1>7 DEF FrameType
<1>10. DOMAIN context' = 1 .. m /\ DOMAIN context = 1 .. m
  BY <1>3, <1>7
<1> QED BY <1>1, <1>4, <1>5, <1>6, <1>8, <1>9, <1>10


(* the frame of tile layer n as the decoder leaves it *)
LEMMA FrameBuilt ==
  ASSUME AfocInv, CodedInv, NEW n \in 1 .. Len(coded), NEW c, c = coded[n], phase = "build",
         context[c.frame + 1] \in FrameType, BuiltUpTo(c.frame + 1, n)
  PROVE  LET fr == context[c.frame + 1]
         IN  /\ IF c.tile = 0 THEN fr.located = 0 ELSE fr.located = 1
             /\ Append(fr.tiles, c.tile) = [t \in 1 .. c.tile + 1 |-> t - 1]
             /\ fr.hashed = 0
<1>1. Len(coded) \in Nat /\ NumTiles \in Nat \ {0}
  BY FrameAssumption DEF AfocInv, CodedType
<1>2. c.frame \in Nat /\ c.tile \in 0 .. NumTiles - 1
  BY TileLayerAt
<1>3. PICK fr \in FrameType : fr = context[c.frame + 1]
  OBVIOUS
<1>4. PICK t \in Nat : t = c.tile /\ t <= NumTiles - 1
  BY <1>1, <1>2
<1>5. CASE t = 0
  <2>1. \A j \in 1 .. n - 1 : coded[j].frame # c.frame
    <3>1. CASE n = 1
      BY <3>1
    <3>2. CASE n # 1
      <4>1. n \in 2 .. Len(coded) /\ n - 1 \in 1 .. Len(coded)
        BY <1>1, <3>2
      <4>2. Follows(n) /\ coded[n - 1].tile \in 0 .. NumTiles - 1
        BY <4>1, TileLayerAt DEF CodedInv
      <4>3. coded[n].tile = 0
        BY <1>4, <1>5
      <4> QED BY <1>1, <4>2, <4>3 DEF Follows
    <3> QED BY <3>1, <3>2
  <2>2. fr.located = 0 /\ fr.tiles = <<>> /\ fr.hashed = 0
    <3>1. (c.frame + 1) - 1 = c.frame
      BY <1>2
    <3> QED BY <1>3, <2>1, <3>1 DEF BuiltUpTo
  <2>3. Append(fr.tiles, t) = [s \in 1 .. t + 1 |-> s - 1]
    BY <1>5, <2>2
  <2> QED BY <1>3, <1>4, <1>5, <2>2, <2>3
<1>6. CASE t # 0
  <2>1. n # 1
    <3>1. n = 1 => coded[1].tile = 0
      BY <1>1 DEF CodedInv
    <3> QED BY <1>4, <1>6, <3>1
  <2>2. n \in 2 .. Len(coded) /\ n - 1 \in 1 .. Len(coded) /\ n - 1 \in 1 .. n - 1
    BY <1>1, <2>1
  <2>3. Follows(n) /\ coded[n - 1].tile \in 0 .. NumTiles - 1
    BY <2>2, TileLayerAt DEF CodedInv
  <2>4. coded[n - 1].frame = c.frame /\ c.tile = coded[n - 1].tile + 1
    BY <1>4, <1>6, <2>3 DEF Follows
  <2>5. LastBefore(c.frame, n, n - 1)
    BY <2>2, <2>4 DEF LastBefore
  <2>6. (c.frame + 1) - 1 = c.frame
    BY <1>2
  <2>7. /\ fr.located = 1
        /\ fr.tiles = [s \in 1 .. coded[n - 1].tile + 1 |-> s - 1]
        /\ fr.hashed = IF coded[n - 1].tile = NumTiles - 1 THEN 1 ELSE 0
    BY <1>3, <2>2, <2>5, <2>6 DEF BuiltUpTo
  <2>8. coded[n - 1].tile + 1 = t /\ coded[n - 1].tile # NumTiles - 1
    BY <1>1, <1>4, <2>3, <2>4
  <2>9. fr.tiles = [s \in 1 .. t |-> s - 1] /\ fr.hashed = 0
    BY <2>7, <2>8
  <2>10. Append(fr.tiles, t) = [s \in 1 .. t + 1 |-> s - 1]
    <3>1. fr.tiles \in Seq(Nat) /\ Len(fr.tiles) = t
      BY <2>9
    <3>2. Append(fr.tiles, t) = [s \in 1 .. t + 1 |-> IF s = t + 1 THEN t ELSE fr.tiles[s]]
      BY <3>1
    <3>3. \A s \in 1 .. t + 1 : (IF s = t + 1 THEN t ELSE fr.tiles[s]) = s - 1
      BY <2>9
    <3> QED BY <3>2, <3>3
  <2> QED BY <1>3, <1>4, <1>6, <2>7, <2>9, <2>10
<1> QED BY <1>5, <1>6

LEMMA FramesInit == Init => FramesInv
BY DEF Init, FramesInv

LEMMA FramesNext == AfocInv /\ CodedInv /\ FramesInv /\ [Next]_vars => FramesInv'
<1> SUFFICES ASSUME AfocInv, CodedInv, FramesInv, [Next]_vars PROVE FramesInv'
  OBVIOUS
<1>1. Len(coded) \in Nat /\ NumTiles \in Nat \ {0} /\ next \in Nat \ {0}
  BY FrameAssumption DEF AfocInv, CodedType
<1>2. ASSUME NEW frame \in Frames, NEW tile \in 0 .. NumTiles - 1, NEW type \in TileTypes,
             ReadTileLayer(frame, tile, type)
      PROVE  FramesInv'
  BY <1>2 DEF ReadTileLayer, FramesInv
<1>3. CASE StartDerivation
  BY <1>3 DEF StartDerivation, FramesInv
<1>4. CASE DeriveAfoc
  BY <1>4 DEF DeriveAfoc, FramesInv
<1>5. CASE ResizeContext
  <2>1. /\ next = Len(afoc) + 1 /\ Len(afoc) <= Len(coded) /\ Len(afoc) \in Nat /\ Len(coded) # 0
        /\ context' = [n \in 1 .. frameCount |-> EmptyFrame] /\ next' = 1 /\ UNCHANGED coded
        /\ next > Len(coded)
    BY <1>5 DEF ResizeContext, AfocInv, CodedInv
  <2>2. Len(afoc) = Len(coded)
    BY <1>1, <2>1
  <2>3. PICK m \in Nat : m = frameCount /\ \A i \in 1 .. Len(coded) : coded[i].frame < m
    BY <2>1, <2>2, FrameCountIs
  <2>4. EmptyFrame \in FrameType /\ EmptyFrame.located = 0 /\ EmptyFrame.tiles = <<>>
        /\ EmptyFrame.hashed = 0 /\ EmptyFrame.refs = {}
    BY DEF EmptyFrame, FrameType
  <2>5. context' \in [1 .. m -> FrameType] /\ \A f \in 1 .. m : context'[f] = EmptyFrame
    <3> HIDE DEF EmptyFrame
    <3> QED BY <2>1, <2>3, <2>4
  <2>6. DOMAIN context' = 1 .. m
    BY <2>5
  <2>7. \A f \in 1 .. m : BuiltUpTo(f, next)' /\ context'[f].refs \subseteq Referable(f)
    <3>1. \A i : i \notin 1 .. next' - 1
      BY <2>1
    <3> QED BY <2>4, <2>5, <3>1 DEF BuiltUpTo
  <2>8. \A i \in 1 .. Len(coded') : coded'[i].frame < m
    BY <2>1, <2>3
  <2> QED BY <2>5, <2>6, <2>7, <2>8 DEF FramesInv, Referable
<1>6. ASSUME NEW garbage \in Garbage, BuildTile(garbage) PROVE FramesInv'
  <2>1. PICK n, c : n = next /\ c = coded[n]
    OBVIOUS
  <2>2. /\ n \in 1 .. Len(coded) /\ next' = n + 1
        /\ DOMAIN context' = DOMAIN context /\ c.frame + 1 \in DOMAIN context
        /\ \A f \in DOMAIN context : f # c.frame + 1 => context'[f] = context[f]
        /\ context'[c.frame + 1] =
              [located |-> IF c.tile = 0 THEN context[c.frame + 1].located + 1
                           ELSE context[c.frame + 1].located,
               tiles   |-> Append(context[c.frame + 1].tiles, c.tile),
               hashed  |-> IF c.tile = NumTiles - 1 THEN context[c.frame + 1].hashed + 1
                           ELSE context[c.frame + 1].hashed,
               refs    |-> context[c.frame + 1].refs \cup TileRefs(n, garbage)]
    BY <1>6, <2>1, TileBuilt
  <2>3. phase = "build" /\ UNCHANGED <<phase, coded, afoc>>
    BY <1>6 DEF BuildTile
  <2>4. PICK m \in Nat : /\ context \in [1 .. m -> FrameType]
                         /\ \A i \in 1 .. Len(coded) : coded[i].frame < m
    BY <2>3 DEF FramesInv
  <2>5. PICK g \in 1 .. m : g = c.frame + 1
    BY <2>2, <2>4
  <2>6. c.frame \in Nat /\ c.tile \in 0 .. NumTiles - 1 /\ c.frame = g - 1
    BY <2>1, <2>2, <2>5, TileLayerAt
  <2>7. \A f \in 1 .. m : context[f] \in FrameType /\ BuiltUpTo(f, n) /\ context[f].refs \subseteq Referable(f)
    BY <2>1, <2>3, <2>4 DEF FramesInv
  <2>8. /\ IF c.tile = 0 THEN context[g].located = 0 ELSE context[g].located = 1
        /\ Append(context[g].tiles, c.tile) = [t \in 1 .. c.tile + 1 |-> t - 1]
        /\ context[g].hashed = 0
    BY <2>1, <2>2, <2>3, <2>5, <2>7, FrameBuilt
  <2>9. PICK r : r = TileRefs(n, garbage)
    OBVIOUS
  <2>10. r \subseteq Referable(g)
    <3>1. afoc[n].val = c.frame
      BY <2>1, <2>2, <2>3 DEF AfocInv, CodedInv, Exact
    <3>2. garbage \in Int
      BY GarbageAssumption
    <3>3. r \subseteq {c.frame - j : j \in 1 .. MinOf(NumRefEntries, c.frame)}
      BY <2>6, <2>9, <3>1, <3>2, TileRefsAsEncoded
    <3> QED BY <2>6, <3>3, EncoderRefs DEF Referable
  <2>11. r \subseteq Int
    <3>1. \A v \in Nat : ActiveRefs(EncoderRefAfocList(v), EncoderNumRefIdxActive(v)) \subseteq Int
      <4>1. \A v \in Nat : {v - j : j \in 1 .. MinOf(NumRefEntries, v)} \subseteq Int
        OBVIOUS
      <4> QED BY <4>1, EncoderRefs
    <3> QED BY <2>6, <2>10, <3>1 DEF Referable
  <2>12. PICK fr : fr = context'[g]
    OBVIOUS
  <2>13. /\ fr.located = 1
         /\ fr.tiles = [t \in 1 .. c.tile + 1 |-> t - 1]
         /\ fr.hashed = IF c.tile = NumTiles - 1 THEN 1 ELSE 0
         /\ fr.refs = context[g].refs \cup r
         /\ fr = [located |-> fr.located, tiles |-> fr.tiles, hashed |-> fr.hashed, refs |-> fr.refs]
    BY <2>2, <2>5, <2>8, <2>9, <2>12
  <2>14. fr \in FrameType
    <3>1. context[g].refs \subseteq Int
      BY <2>7 DEF FrameType
    <3>2. [t \in 1 .. c.tile + 1 |-> t - 1] \in Seq(Nat)
      BY <2>6
    <3>3. fr.located \in Nat /\ fr.tiles \in Seq(Nat) /\ fr.hashed \in Nat /\ fr.refs \in SUBSET Int
      <4>1. fr.tiles \in Seq(Nat)
        BY <2>13, <3>2
      <4> QED BY <2>11, <2>13, <3>1, <4>1
    <3> QED BY <2>13, <3>3 DEF FrameType
  <2>15. context' \in [1 .. m -> FrameType]
    <3>1. \A f \in 1 .. m : context'[f] \in FrameType
      BY <2>2, <2>4, <2>5, <2>7, <2>12, <2>14
    <3>2. context' = [f \in 1 .. m |-> context'[f]]
      <4>1. BuildTile(garbage) => context' = [f \in DOMAIN context |-> context'[f]]
        BY DEF BuildTile
      <4> QED BY <1>6, <2>4, <4>1
    <3> QED BY <3>1, <3>2
  <2>16. ASSUME NEW f \in 1 .. m PROVE BuiltUpTo(f, next)' /\ context'[f].refs \subseteq Referable(f)
    <3>1. CASE f = g
      <4>1. ASSUME NEW i \in 1 .. n, LastBefore(f - 1, n + 1, i)' PROVE i = n
        <5>1. \A j \in i + 1 .. n : coded[j].frame # f - 1
          BY <2>2, <2>3, <4>1 DEF LastBefore
        <5> QED BY <2>1, <2>2, <2>6, <3>1, <5>1
      <4>2. n \in 1 .. n /\ coded'[n].frame = f - 1 /\ (n + 1) - 1 = n
        BY <2>1, <2>2, <2>3, <2>6, <3>1
      <4>3. BuiltUpTo(f, next)'
        BY <2>1, <2>2, <2>3, <2>12, <2>13, <3>1, <4>1, <4>2 DEF BuiltUpTo
      <4> QED BY <2>7, <2>10, <2>12, <2>13, <3>1, <4>3
    <3>2. CASE f # g
      <4>1. context'[f] = context[f]
        BY <2>2, <2>4, <2>5, <3>2
      <4>2. coded[n].frame # f - 1
        BY <2>1, <2>6, <3>2
      <4>3. \A i \in 1 .. n - 1 : i \in 1 .. n
        BY <2>2
      <4>4. ASSUME NEW i \in 1 .. n, LastBefore(f - 1, n + 1, i)'
            PROVE  i \in 1 .. n - 1 /\ LastBefore(f - 1, n, i)
        <5>1. coded[i].frame = f - 1 /\ \A j \in i + 1 .. n : coded[j].frame # f - 1
          BY <2>2, <2>3, <4>4 DEF LastBefore
        <5>2. i \in 1 .. n - 1 /\ \A j \in i + 1 .. n - 1 : j \in i + 1 .. n
          BY <2>2, <4>2, <5>1
        <5> QED BY <5>1, <5>2 DEF LastBefore
      <4>5. (n + 1) - 1 = n
        BY <2>2
      <4>6. BuiltUpTo(f, n)
        BY <2>7
      <4>7. BuiltUpTo(f, next)'
        BY <2>2, <2>3, <4>1, <4>3, <4>4, <4>5, <4>6 DEF BuiltUpTo
      <4> QED BY <2>7, <4>1, <4>7
    <3> QED BY <3>1, <3>2
  <2>17. DOMAIN context' = 1 .. m /\ \A i \in 1 .. Len(coded') : coded'[i].frame < m
    BY <2>3, <2>4, <2>15
  <2> QED BY <2>15, <2>16, <2>17 DEF FramesInv, Referable
<1>7. CASE Finish
  BY <1>7 DEF Finish, FramesInv, BuiltUpTo, LastBefore
<1>8. CASE UNCHANGED vars
  BY <1>8 DEF vars, FramesInv, BuiltUpTo, LastBefore
<1> QED BY <1>2, <1>3, <1>4, <1>5, <1>6, <1>7, <1>8 DEF Next


(* a frame that has been left, or is coded when all is done, was cut exactly *)
LEMMA LeftFrameIs ==
  ASSUME AfocInv, CodedInv, FramesInv, phase \in {"build", "done"}, NEW h \in 1 .. next - 1,
         next <= Len(coded) + 1,
         next = Len(coded) + 1 \/ coded[next].frame # coded[h].frame
  PROVE  LET f == coded[h].frame
         IN  /\ f + 1 \in DOMAIN context
             /\ context[f + 1].located = 1
             /\ context[f + 1].hashed = 1
             /\ context[f + 1].tiles = [t \in 1 .. NumTiles |-> t - 1]
<1>1. Len(coded) \in Nat /\ NumTiles \in Nat \ {0} /\ next \in Nat
  BY FrameAssumption DEF AfocInv, CodedType
<1>2. h \in 1 .. Len(coded) /\ next \in 1 .. Len(coded) + 1
  BY <1>1
<1>3. PICK f \in Nat : f = coded[h].frame
  BY <1>2, TileLayerAt
<1>4. PICK m \in Nat : /\ context \in [1 .. m -> FrameType]
                       /\ \A i \in 1 .. Len(coded) : coded[i].frame < m
  BY DEF FramesInv
<1>5. f + 1 \in 1 .. m /\ (f + 1) - 1 = f
  BY <1>2, <1>3, <1>4
<1> DEFINE T == {i \in 1 .. next - 1 : coded[i].frame = f}
<1>6. h \in T /\ T \subseteq Nat /\ \A i \in T : i <= next
  BY <1>1, <1>3
<1>7. PICK i \in T : \A j \in T : j <= i
  <2> HIDE DEF T
  <2> QED BY <1>1, <1>6, LargestNumber
<1>8. LastBefore(f, next, i)
  BY <1>1, <1>7 DEF LastBefore
<1>9. IF next = Len(coded) + 1 THEN phase # "read" ELSE coded[next].frame # f
  BY <1>3
<1>10. coded[i].tile = NumTiles - 1
  BY <1>2, <1>8, <1>9, LeftFrameComplete
<1>11. BuiltUpTo(f + 1, next)
  BY <1>4, <1>5 DEF FramesInv
<1>12. i \in 1 .. next - 1
  OBVIOUS
<1>13. /\ context[f + 1].located = 1
       /\ context[f + 1].tiles = [t \in 1 .. coded[i].tile + 1 |-> t - 1]
       /\ context[f + 1].hashed = IF coded[i].tile = NumTiles - 1 THEN 1 ELSE 0
  BY <1>5, <1>8, <1>11, <1>12 DEF BuiltUpTo
<1>14. coded[i].tile + 1 = NumTiles
  BY <1>1, <1>10
<1> QED BY <1>3, <1>4, <1>5, <1>10, <1>13, <1>14

LEMMA FrameInvariants == Spec => [](AfocInv /\ CodedInv /\ FramesInv)
BY AfocInvInit, AfocInvNext, CodedInit, CodedNext, FramesInit, FramesNext, PTL DEF Spec

(* Every coded frame is laid out once, hashed once and holds its tiles in order
   (PCCDecoder::createPatchFrameDataStructure), for any number of tiles and frames
   and any coding order the derivation can tell apart. *)
THEOREM FramesAreCut == Spec => []FramesCutExactly
<1>1. AfocInv /\ CodedInv /\ FramesInv => FramesCutExactly
  <2> SUFFICES ASSUME AfocInv, CodedInv, FramesInv, phase = "done", NEW f \in CodedFrames
               PROVE  /\ context[f + 1].located = 1
                      /\ context[f + 1].hashed = 1
                      /\ context[f + 1].tiles = [t \in 1 .. NumTiles |-> t - 1]
    BY DEF FramesCutExactly
  <2>1. Len(coded) \in Nat /\ DOMAIN coded = 1 .. Len(coded) /\ next = Len(coded) + 1
    BY DEF AfocInv, CodedType, CodedInv
  <2>2. PICK h \in 1 .. Len(coded) : f = coded[h].frame
    BY <2>1 DEF CodedFrames
  <2>3. h \in 1 .. next - 1 /\ next <= Len(coded) + 1 /\ phase \in {"build", "done"}
    BY <2>1
  <2>4. /\ context[coded[h].frame + 1].located = 1
        /\ context[coded[h].frame + 1].hashed = 1
        /\ context[coded[h].frame + 1].tiles = [t \in 1 .. NumTiles |-> t - 1]
    BY <2>1, <2>3, LeftFrameIs
  <2> QED BY <2>2, <2>4
<1> QED BY <1>1, FrameInvariants, PTL

(* A frame's tiles take patches only from the frames the encoder could choose
   from, whatever the reads past the end of the decoder's list return
   (PCCFrameContext::setRefAfocList). *)
THEOREM ReferencesAreEncoded == Spec => []ReferencesAsEncoded
<1>1. CodedInv /\ FramesInv => ReferencesAsEncoded
  <2> SUFFICES ASSUME CodedInv, FramesInv, NEW f \in DOMAIN context
               PROVE  context[f].refs \subseteq Referable(f)
    BY DEF ReferencesAsEncoded, Referable
  <2>1. CASE phase \in {"read", "derive"}
    BY <2>1 DEF CodedInv
  <2>2. CASE phase \notin {"read", "derive"}
    BY <2>2 DEF CodedInv, FramesInv
  <2> QED BY <2>1, <2>2
<1> QED BY <1>1, FrameInvariants, PTL

(* A tile layer only takes patches from frames that are complete when it is
   built: what a P tile refers to was coded before it, and a frame that has been
   left is complete. *)
THEOREM ReferencesAreComplete == Spec => ReferencesComplete
<1> DEFINE Complete == \A f \in DOMAIN context' :
                         f \in DOMAIN context =>
                           \A r \in context'[f].refs \ context[f].refs :
                             r + 1 \in DOMAIN context /\ context[r + 1].hashed > 0
<1>1. AfocInv /\ CodedInv /\ FramesInv /\ [Next]_vars => [Complete]_vars
  <2> SUFFICES ASSUME AfocInv, CodedInv, FramesInv, [Next]_vars PROVE Complete \/ UNCHANGED vars
    OBVIOUS
  <2>1. CASE context' = context
    BY <2>1
  <2>2. CASE ResizeContext
    <3>1. context = <<>>
      BY <2>2 DEF ResizeContext, CodedInv
    <3> QED BY <3>1
  <2>3. ASSUME NEW garbage \in Garbage, BuildTile(garbage) PROVE Complete
    <3>1. PICK n, c : n = next /\ c = coded[n]
      OBVIOUS
    <3>2. /\ n \in 1 .. Len(coded)
          /\ c.frame + 1 \in DOMAIN context
          /\ \A f \in DOMAIN context : f # c.frame + 1 => context'[f] = context[f]
          /\ context'[c.frame + 1].refs = context[c.frame + 1].refs \cup TileRefs(n, garbage)
      <4>1. context'[c.frame + 1] =
              [located |-> IF c.tile = 0 THEN context[c.frame + 1].located + 1
                           ELSE context[c.frame + 1].located,
               tiles   |-> Append(context[c.frame + 1].tiles, c.tile),
               hashed  |-> IF c.tile = NumTiles - 1 THEN context[c.frame + 1].hashed + 1
                           ELSE context[c.frame + 1].hashed,
               refs    |-> context[c.frame + 1].refs \cup TileRefs(n, garbage)]
        BY <2>3, <3>1, TileBuilt
      <4>2. /\ n \in 1 .. Len(coded)
            /\ c.frame + 1 \in DOMAIN context
            /\ \A f \in DOMAIN context : f # c.frame + 1 => context'[f] = context[f]
        BY <2>3, <3>1, TileBuilt
      <4> QED BY <4>1, <4>2
    <3>3. phase = "build"
      BY <2>3 DEF BuildTile
    <3>4. ASSUME NEW r \in TileRefs(n, garbage)
          PROVE  r + 1 \in DOMAIN context /\ context[r + 1].hashed > 0
      <4>1. afoc[n].val = c.frame /\ c.frame \in Nat /\ coded[n].type \in TileTypes /\ garbage \in Int
        BY <3>1, <3>2, <3>3, TileLayerAt, GarbageAssumption DEF AfocInv, CodedInv, Exact
      <4>2. /\ TileRefs(n, garbage) \subseteq {c.frame - j : j \in 1 .. MinOf(NumRefEntries, c.frame)}
            /\ coded[n].type = "I_TILE" => TileRefs(n, garbage) = {}
        BY <4>1, TileRefsAsEncoded
      <4>3. PICK j \in 1 .. MinOf(NumRefEntries, c.frame) : r = c.frame - j
        BY <3>4, <4>2
      <4>4. RefersBack(n) /\ coded[n].type = "P_TILE"
        BY <3>2, <4>1, <4>2 DEF CodedInv, TileTypes
      <4>5. PICK h \in 1 .. n - 1 : coded[h].frame = r
        BY <3>1, <4>3, <4>4 DEF RefersBack
      <4>6. coded[n].frame # r
        <5>1. j \in Nat \ {0}
          BY <4>1, FrameAssumption, MinOfIs
        <5> QED BY <3>1, <4>1, <4>3, <5>1
      <4>7. n <= Len(coded) + 1
        BY <3>2 DEF AfocInv, CodedType
      <4>8. r + 1 \in DOMAIN context /\ context[r + 1].hashed = 1
        BY <3>1, <3>3, <4>5, <4>6, <4>7, LeftFrameIs
      <4> QED BY <4>8
    <3> QED BY <3>2, <3>4
  <2>4. CASE UNCHANGED vars
    BY <2>4
  <2>5. ASSUME NEW frame \in Frames, NEW tile \in 0 .. NumTiles - 1, NEW type \in TileTypes,
               ReadTileLayer(frame, tile, type)
        PROVE  context' = context
    BY <2>5 DEF ReadTileLayer
  <2>6. StartDerivation \/ DeriveAfoc \/ Finish => context' = context
    BY DEF StartDerivation, DeriveAfoc, Finish
  <2> QED BY <2>1, <2>2, <2>3, <2>4, <2>5, <2>6 DEF Next
<1> QED BY <1>1, FrameInvariants, PTL DEF Spec, ReferencesComplete

=============================================================================
