--------------------------- MODULE V3CGroups_proofs ---------------------------
(***************************************************************************)
(* Proofs about V3CGroups for sequences of any length, groups of any size, *)
(* any layout of the videos and any number of parameter set ids.           *)
(***************************************************************************)
EXTENDS V3CGroups, InductionLemmas, SequenceTheorems, TLAPS

UnitSet == [gof : Nat, type : UnitTypes, vps : Nat, part : Nat, map : Nat, aux : BOOLEAN, size : Nat]

(* a unit of group g *)
OwnUnit(g, u) == u \in UnitSet /\ u.gof = g /\ u.vps = g % VpsIds

(* a video of group g *)
OwnVideo(g, u) == OwnUnit(g, u) /\ u.type \notin {"VPS", "AD"}

GroupSet == [start : Nat, count : 1 .. GofSize]
AtlasSet == [ad : Seq(UnitSet), videos : Seq(UnitSet)]
StoreSet == [vps : Seq([gof : Nat, id : Nat]), active : Nat, hls : Seq(AtlasSet)]

-----------------------------------------------------------------------------
(***************************************************************************)
(* The units of a group.                                                   *)
(***************************************************************************)
(* The videos of one type belong to the group (Unit, VideoUnits). *)
LEMMA VideoUnitsOwn ==
  ASSUME NEW g \in Nat, NEW t \in {"GVD", "AVD"}, NEW p \in Nat, NEW c \in Configs,
         NEW sizes \in [UnitTypes -> Nat]
  PROVE  /\ VideoUnits(g, t, p, c, sizes) \in Seq(UnitSet)
         /\ Len(VideoUnits(g, t, p, c, sizes)) = Streams(c) + (IF c.aux THEN 1 ELSE 0)
         /\ Len(VideoUnits(g, t, p, c, sizes)) \in Nat \ {0}
         /\ \A i \in 1 .. Len(VideoUnits(g, t, p, c, sizes)) :
               OwnVideo(g, VideoUnits(g, t, p, c, sizes)[i])
<1> DEFINE V == VideoUnits(g, t, p, c, sizes)
           n == Streams(c) + (IF c.aux THEN 1 ELSE 0)
<1>1. Streams(c) \in Nat \ {0}
  BY StreamsAssumption DEF Configs, Streams
<1>2. n \in Nat \ {0}
  BY <1>1
<1>3. g % VpsIds \in Nat
  BY IdAssumption
<1>4. \A k \in 1 .. n : OwnVideo(g, V[k])
  <2>1. SUFFICES ASSUME NEW k \in 1 .. n PROVE OwnVideo(g, V[k])
    OBVIOUS
  <2>2. sizes[t] \in Nat /\ t \in UnitTypes
    BY DEF UnitTypes
  <2>3. V[k] = IF k <= Streams(c) THEN Unit(g, t, p, k - 1, FALSE, sizes) ELSE Unit(g, t, p, 0, TRUE, sizes)
    BY DEF VideoUnits
  <2>4. k - 1 \in Nat
    BY <1>2
  <2> HIDE DEF V
  <2> QED BY <1>3, <2>2, <2>3, <2>4 DEF Unit, OwnVideo, OwnUnit, UnitSet
<1>5. V = [k \in 1 .. n |-> V[k]]
  BY DEF VideoUnits
<1>6. V \in Seq(UnitSet) /\ Len(V) = n
  <2> HIDE DEF V, n
  <2>1. \A k \in 1 .. n : V[k] \in UnitSet
    BY <1>4 DEF OwnVideo, OwnUnit
  <2> QED BY <1>2, <1>5, <2>1
<1> QED BY <1>2, <1>4, <1>6

(* So do the attribute videos of all partitions. *)
LEMMA AttributeUnitsOwn ==
  ASSUME NEW g \in Nat, NEW c \in Configs, NEW sizes \in [UnitTypes -> Nat]
  PROVE  /\ AttributeUnits(g, c, sizes) \in Seq(UnitSet)
         /\ \A i \in 1 .. Len(AttributeUnits(g, c, sizes)) : OwnVideo(g, AttributeUnits(g, c, sizes)[i])
<1> DEFINE A    == AttributeUnits(g, c, sizes)
           n    == Len(VideoUnits(g, "AVD", 0, c, sizes))
           V(p) == VideoUnits(g, "AVD", p, c, sizes)
<1>1. n \in Nat \ {0} /\ \A p \in Nat : Len(V(p)) = n
  <2>1. \A p \in Nat : /\ Len(V(p)) = Streams(c) + (IF c.aux THEN 1 ELSE 0)
                      /\ Len(V(p)) \in Nat \ {0}
    <3>1. TAKE p \in Nat
    <3>2. "AVD" \in {"GVD", "AVD"}
      OBVIOUS
    <3> HIDE DEF V
    <3> QED BY <3>2, VideoUnitsOwn DEF V
  <2>2. n = Len(V(0))
    OBVIOUS
  <2> HIDE DEF V, n
  <2> QED BY <2>1, <2>2
<1>2. c.parts \in Nat
  BY StreamsAssumption DEF Configs
<1>3. c.parts * n \in Nat
  BY <1>1, <1>2
<1>4. A = [k \in 1 .. c.parts * n |-> V((k - 1) \div n)[((k - 1) % n) + 1]]
  BY DEF AttributeUnits
<1>5. \A k \in 1 .. c.parts * n : OwnVideo(g, V((k - 1) \div n)[((k - 1) % n) + 1])
  <2>1. SUFFICES ASSUME NEW k \in 1 .. c.parts * n
                 PROVE  OwnVideo(g, V((k - 1) \div n)[((k - 1) % n) + 1])
    OBVIOUS
  <2>2. k - 1 \in Nat
    BY <1>3
  <2> HIDE DEF n
  <2>3. (k - 1) \div n \in Nat /\ (k - 1) % n \in 0 .. n - 1
    BY <1>1, <2>2, SMTT(60)
  <2>4. ((k - 1) % n) + 1 \in 1 .. n
    BY <1>1, <2>3
  <2>5. Len(V((k - 1) \div n)) = n
    BY <1>1, <2>3
  <2> QED BY <2>3, <2>4, <2>5, VideoUnitsOwn
<1>6. A \in Seq(UnitSet) /\ Len(A) = c.parts * n
  <2> HIDE DEF A, n, V
  <2>1. \A k \in 1 .. c.parts * n : V((k - 1) \div n)[((k - 1) % n) + 1] \in UnitSet
    BY <1>5 DEF OwnVideo, OwnUnit
  <2> QED BY <1>3, <1>4, <2>1
<1> HIDE DEF n, V
<1> QED BY <1>3, <1>4, <1>5, <1>6

(* The elements of a concatenation. *)
LEMMA ConcatElements ==
  ASSUME NEW S, NEW s \in Seq(S), NEW t \in Seq(S)
  PROVE  /\ s \o t \in Seq(S) /\ Len(s \o t) = Len(s) + Len(t)
         /\ \A i \in 1 .. Len(s) : (s \o t)[i] = s[i]
         /\ \A i \in Len(s) + 1 .. Len(s \o t) : i - Len(s) \in 1 .. Len(t) /\ (s \o t)[i] = t[i - Len(s)]
<1> DEFINE w == s \o t
<1>1. /\ w \in Seq(S) /\ Len(w) = Len(s) + Len(t)
      /\ \A i \in 1 .. Len(s) + Len(t) : w[i] = IF i <= Len(s) THEN s[i] ELSE t[i - Len(s)]
  BY ConcatProperties
<1>2. Len(s) \in Nat /\ Len(t) \in Nat
  OBVIOUS
<1> HIDE DEF w
<1>3. /\ \A i \in 1 .. Len(s) : w[i] = s[i]
      /\ \A i \in Len(s) + 1 .. Len(w) : i - Len(s) \in 1 .. Len(t) /\ w[i] = t[i - Len(s)]
  BY <1>1, <1>2
<1> QED BY <1>1, <1>3 DEF w

(* Three elements of a set as a sequence over it. *)
LEMMA ThreeElements ==
  ASSUME NEW S, NEW a \in S, NEW b \in S, NEW d \in S
  PROVE  <<a, b, d>> \in Seq(S) /\ Len(<<a, b, d>>) = 3
<1>1. <<a, b, d>> \in [1 .. 3 -> S]
  OBVIOUS
<1> QED BY <1>1

(* A group starts with its parameter set and its atlas data, and holds only
   videos after them (PCCBitstreamWriter::encode). *)
LEMMA GofUnitsShape ==
  ASSUME NEW g \in Nat, NEW c \in Configs, NEW sizes \in [UnitTypes -> Nat]
  PROVE  /\ GofUnits(g, c, sizes) \in Seq(UnitSet)
         /\ Len(GofUnits(g, c, sizes)) >= 3
         /\ GofUnits(g, c, sizes)[1].type = "VPS"
         /\ GofUnits(g, c, sizes)[2].type = "AD"
         /\ \A i \in 1 .. Len(GofUnits(g, c, sizes)) : OwnUnit(g, GofUnits(g, c, sizes)[i])
         /\ \A i \in 3 .. Len(GofUnits(g, c, sizes)) : OwnVideo(g, GofUnits(g, c, sizes)[i])
<1> DEFINE H == <<Unit(g, "VPS", 0, 0, FALSE, sizes), Unit(g, "AD", 0, 0, FALSE, sizes),
                  Unit(g, "OVD", 0, 0, FALSE, sizes)>>
           V == VideoUnits(g, "GVD", 0, c, sizes)
           A == AttributeUnits(g, c, sizes)
           U == GofUnits(g, c, sizes)
<1>1. U = (H \o V) \o A
  BY DEF GofUnits
<1>2. /\ H \in Seq(UnitSet) /\ Len(H) = 3
      /\ \A i \in 1 .. 3 : OwnUnit(g, H[i])
      /\ H[1].type = "VPS" /\ H[2].type = "AD" /\ OwnVideo(g, H[3])
  <2>1. g % VpsIds \in Nat
    BY IdAssumption
  <2>2. \A t \in UnitTypes : OwnUnit(g, Unit(g, t, 0, 0, FALSE, sizes)) /\ Unit(g, t, 0, 0, FALSE, sizes).type = t
    BY <2>1 DEF OwnUnit, Unit, UnitSet
  <2>3. "VPS" \in UnitTypes /\ "AD" \in UnitTypes /\ "OVD" \in UnitTypes
    BY DEF UnitTypes
  <2>4. /\ H[1] = Unit(g, "VPS", 0, 0, FALSE, sizes) /\ H[2] = Unit(g, "AD", 0, 0, FALSE, sizes)
        /\ H[3] = Unit(g, "OVD", 0, 0, FALSE, sizes)
    OBVIOUS
  <2>5. /\ OwnUnit(g, H[1]) /\ OwnUnit(g, H[2]) /\ OwnUnit(g, H[3])
        /\ H[1].type = "VPS" /\ H[2].type = "AD" /\ H[3].type = "OVD"
    BY <2>2, <2>3, <2>4
  <2>6. H \in Seq(UnitSet) /\ Len(H) = 3
    <3>1. /\ Unit(g, "VPS", 0, 0, FALSE, sizes) \in UnitSet /\ Unit(g, "AD", 0, 0, FALSE, sizes) \in UnitSet
          /\ Unit(g, "OVD", 0, 0, FALSE, sizes) \in UnitSet
      BY <2>2, <2>3 DEF OwnUnit
    <3> QED BY <3>1, ThreeElements DEF H
  <2> HIDE DEF H
  <2> QED BY <2>5, <2>6 DEF OwnVideo
<1>3. /\ V \in Seq(UnitSet) /\ \A i \in 1 .. Len(V) : OwnVideo(g, V[i])
  BY VideoUnitsOwn
<1>4. /\ A \in Seq(UnitSet) /\ \A i \in 1 .. Len(A) : OwnVideo(g, A[i])
  BY AttributeUnitsOwn
<1> HIDE DEF H, V, A, U
<1> DEFINE W == H \o V
<1>5. /\ W \in Seq(UnitSet) /\ Len(W) = 3 + Len(V)
      /\ \A i \in 1 .. 3 : W[i] = H[i]
      /\ \A i \in 4 .. Len(W) : i - 3 \in 1 .. Len(V) /\ W[i] = V[i - 3]
  <2>1. /\ H \o V \in Seq(UnitSet) /\ Len(H \o V) = Len(H) + Len(V)
        /\ \A i \in 1 .. Len(H) : (H \o V)[i] = H[i]
        /\ \A i \in Len(H) + 1 .. Len(H \o V) :
              i - Len(H) \in 1 .. Len(V) /\ (H \o V)[i] = V[i - Len(H)]
    BY <1>2, <1>3, ConcatElements
  <2>2. Len(H) + 1 = 4
    BY <1>2
  <2> QED BY <1>2, <2>1, <2>2
<1>6. \A i \in 3 .. Len(W) : OwnVideo(g, W[i])
  BY <1>2, <1>3, <1>5
<1> HIDE DEF W
<1>7. /\ U \in Seq(UnitSet) /\ Len(U) = Len(W) + Len(A)
      /\ \A i \in 1 .. Len(W) : U[i] = W[i]
      /\ \A i \in Len(W) + 1 .. Len(U) : i - Len(W) \in 1 .. Len(A) /\ U[i] = A[i - Len(W)]
  <2>1. U = W \o A /\ W \in Seq(UnitSet) /\ A \in Seq(UnitSet)
    BY <1>1, <1>4, <1>5 DEF W
  <2>2. /\ W \o A \in Seq(UnitSet) /\ Len(W \o A) = Len(W) + Len(A)
        /\ \A i \in 1 .. Len(W) : (W \o A)[i] = W[i]
        /\ \A i \in Len(W) + 1 .. Len(W \o A) :
              i - Len(W) \in 1 .. Len(A) /\ (W \o A)[i] = A[i - Len(W)]
    BY <2>1, ConcatElements
  <2> QED BY <2>1, <2>2
<1>8. Len(W) \in Nat /\ Len(W) >= 3 /\ Len(A) \in Nat /\ Len(U) \in Nat
  BY <1>3, <1>4, <1>5, <1>7
<1>9. \A i \in 3 .. Len(U) : OwnVideo(g, U[i])
  <2> SUFFICES ASSUME NEW i \in 3 .. Len(U) PROVE OwnVideo(g, U[i])
    OBVIOUS
  <2>1. CASE i <= Len(W)
    <3>1. i \in 3 .. Len(W) /\ i \in 1 .. Len(W)
      BY <1>8, <2>1
    <3> QED BY <1>6, <1>7, <3>1
  <2>2. CASE i > Len(W)
    <3>1. i \in Len(W) + 1 .. Len(U)
      BY <1>8, <2>2
    <3> QED BY <1>4, <1>7, <3>1
  <2> QED BY <1>8, <2>1, <2>2
<1>10. U[1] = H[1] /\ U[2] = H[2]
  BY <1>5, <1>7, <1>8
<1>11. \A i \in 1 .. Len(U) : OwnUnit(g, U[i])
  <2>1. SUFFICES ASSUME NEW i \in 1 .. Len(U) PROVE OwnUnit(g, U[i])
    OBVIOUS
  <2>2. CASE i = 1 BY <2>2, <1>2, <1>10
  <2>3. CASE i = 2 BY <2>3, <1>2, <1>10
  <2>4. CASE i \in 3 .. Len(U) BY <2>4, <1>9 DEF OwnVideo
  <2> QED BY <1>8, <2>2, <2>3, <2>4
<1> QED BY <1>2, <1>7, <1>8, <1>9, <1>10, <1>11 DEF U

-----------------------------------------------------------------------------
(***************************************************************************)
(* The inductive invariant.                                                *)
(***************************************************************************)
(* the groups leave no gap and end where the encoder stands *)
GroupsInv ==
  /\ groups \in Seq(GroupSet)
  /\ Len(groups) > 0 => groups[1].start = 0
  /\ \A k \in 1 .. Len(groups) - 1 : groups[k + 1].start = groups[k].start + groups[k].count
  /\ start = IF Len(groups) = 0 THEN 0 ELSE groups[Len(groups)].start + groups[Len(groups)].count
  /\ start \in Nat /\ end0 \in Nat
  /\ Len(groups) = 0 => end0 > 0

(* the units us of groups 0 .. m - 1 follow each other group by group *)
StreamShape(us, m) ==
  /\ us \in Seq(UnitSet)
  /\ \A i \in 1 .. Len(us) : OwnUnit(us[i].gof, us[i]) /\ us[i].gof < m
  /\ \A i \in 1 .. Len(us) - 1 :
       /\ us[i + 1].gof = IF us[i + 1].type = "VPS" THEN us[i].gof + 1 ELSE us[i].gof
       /\ us[i + 1].type = "AD" <=> us[i].type = "VPS"
  /\ Len(us) > 0 <=> m > 0
  /\ Len(us) > 0 =>
       /\ us[1].type = "VPS" /\ us[1].gof = 0
       /\ us[Len(us)].type # "VPS" /\ us[Len(us)].gof = m - 1

StreamInv == StreamShape(ssvu, Len(groups))

(* the group being decoded *)
g0 == Len(decoded)

(* unit i opens group g *)
Opens(i, g) == i <= Len(ssvu) /\ ssvu[i].type = "VPS" /\ ssvu[i].gof = g

(* the store holds nothing but group g0, up to unit front of it; only the
   list of parameter sets may have one more entry *)
StoreInv ==
  /\ front \in 1 .. Len(ssvu) /\ ssvu[front].gof = g0
  /\ syntax.vps # <<>> /\ syntax.vps[1] = [gof |-> g0, id |-> g0 % VpsIds]
  /\ Len(syntax.hls) = 1
  /\ Len(syntax.hls[1].ad) = IF ssvu[front].type = "VPS" THEN 0 ELSE 1
  /\ \A i \in 1 .. Len(syntax.hls[1].ad) : OwnUnit(g0, syntax.hls[1].ad[i])
  /\ \A i \in 1 .. Len(syntax.hls[1].videos) : OwnUnit(g0, syntax.hls[1].videos[i])
  /\ ssvu[front].type # "VPS" => syntax.active = g0 % VpsIds

DecoderInv ==
  /\ front \in Nat /\ front <= Len(ssvu) /\ numVPS \in Nat /\ syntax \in StoreSet
  /\ phase \in {"encode", "crashed"} => front = 0 /\ decoded = <<>>
  /\ phase \in {"group", "units", "rebuild"} => g0 < Len(groups)
  /\ phase = "group" => Opens(front + 1, g0)
  /\ phase = "units" /\ numVPS = 0 =>
       Opens(front + 1, g0) /\ syntax = [vps |-> <<>>, active |-> 0, hls |-> <<>>]
  /\ phase = "units" /\ numVPS # 0 => StoreInv /\ numVPS = 1
  /\ phase = "rebuild" =>
       /\ StoreInv /\ ssvu[front].type # "VPS"
       /\ front < Len(ssvu) => ssvu[front + 1].type = "VPS"
  /\ phase = "done" => Len(decoded) = Len(groups)

(* what was delivered *)
DeliveredInv ==
  /\ decoded \in Seq([vps : Nat, ad : Seq(UnitSet), video : [NeededVideos(config) -> UnitSet], number : Nat])
  /\ Len(decoded) <= Len(groups)
  /\ GroupsReassembled
  /\ FrameNumbersAgree
  /\ frameNumber = IF g0 = 0 THEN 0 ELSE groups[g0].start + groups[g0].count

IInv ==
  /\ config \in Configs
  /\ phase \in {"encode", "crashed", "group", "units", "rebuild", "done", "exited"}
  /\ GroupsInv /\ StreamInv /\ DecoderInv /\ DeliveredInv

(* both programs begin with empty streams and stores *)
LEMMA InitInv == Init => IInv
<1> SUFFICES ASSUME Init PROVE IInv
  OBVIOUS
<1>1. config \in Configs /\ phase = "encode"
  BY DEF Init
<1>2. GroupsInv
  BY SequenceAssumption DEF Init, GroupsInv, Configs
<1>3. StreamInv
  BY DEF Init, StreamInv, StreamShape
<1>4. DecoderInv
  BY DEF Init, DecoderInv, StoreSet
<1>5. DeliveredInv
  BY DEF Init, DeliveredInv, GroupsReassembled, FrameNumbersAgree, g0
<1> QED BY <1>1, <1>2, <1>3, <1>4, <1>5 DEF IInv

(* Appending the units of the next group keeps the stream well formed. *)
LEMMA StreamGrows ==
  ASSUME NEW g \in Nat, NEW s, NEW U, NEW w, NEW n, StreamShape(s, g), n = Len(s), w = s \o U,
         U \in Seq(UnitSet), Len(U) >= 3, U[1].type = "VPS", U[2].type = "AD",
         \A i \in 1 .. Len(U) : OwnUnit(g, U[i]),
         \A i \in 3 .. Len(U) : OwnVideo(g, U[i])
  PROVE  StreamShape(w, g + 1)
<1>1. g \in Nat /\ n \in Nat /\ s \in Seq(UnitSet)
  BY DEF StreamShape
<1>2. /\ U \in Seq(UnitSet) /\ Len(U) >= 3 /\ U[1].type = "VPS" /\ U[2].type = "AD"
      /\ \A i \in 1 .. Len(U) : OwnUnit(g, U[i])
      /\ \A i \in 3 .. Len(U) : OwnVideo(g, U[i])
  OBVIOUS
<1>4. /\ w \in Seq(UnitSet) /\ Len(w) = n + Len(U)
      /\ \A i \in 1 .. n : w[i] = s[i]
      /\ \A i \in n + 1 .. Len(w) : i - n \in 1 .. Len(U) /\ w[i] = U[i - n]
  BY <1>1, <1>2, ConcatElements
<1>5. Len(U) \in Nat
  BY <1>2
<1>6. \A k \in 1 .. Len(U) : w[n + k] = U[k]
  <2>1. SUFFICES ASSUME NEW k \in 1 .. Len(U) PROVE w[n + k] = U[k]
    OBVIOUS
  <2>2. n + k \in n + 1 .. Len(w) /\ (n + k) - n = k
    BY <1>1, <1>4, <1>5
  <2> QED BY <2>2, <1>4
<1>7. /\ \A i \in 1 .. n : OwnUnit(s[i].gof, s[i]) /\ s[i].gof < g
      /\ \A i \in 1 .. n - 1 :
           /\ s[i + 1].gof = IF s[i + 1].type = "VPS" THEN s[i].gof + 1 ELSE s[i].gof
           /\ s[i + 1].type = "AD" <=> s[i].type = "VPS"
      /\ n > 0 <=> g > 0
      /\ n > 0 => /\ s[1].type = "VPS" /\ s[1].gof = 0
                  /\ s[n].type # "VPS" /\ s[n].gof = g - 1
  BY DEF StreamShape
<1>8. \A i \in 1 .. Len(U) :
        U[i].gof = g /\ OwnUnit(U[i].gof, U[i]) /\ (U[i].type = "VPS" <=> i = 1)
  <2>1. SUFFICES ASSUME NEW i \in 1 .. Len(U)
                 PROVE  U[i].gof = g /\ OwnUnit(U[i].gof, U[i]) /\ (U[i].type = "VPS" <=> i = 1)
    BY <1>2, <1>5 DEF OwnUnit, OwnVideo
  <2>2. U[i].gof = g /\ OwnUnit(U[i].gof, U[i])
    BY <1>2 DEF OwnUnit
  <2>3. U[i].type = "VPS" <=> i = 1
    <3>1. CASE i = 1 BY <3>1, <1>2
    <3>2. CASE i = 2 BY <3>2, <1>2
    <3>3. CASE i \in 3 .. Len(U) BY <3>3, <1>2 DEF OwnVideo
    <3> QED BY <1>5, <3>1, <3>2, <3>3
  <2> QED BY <2>2, <2>3
<1>9. \A i \in 1 .. Len(U) : (U[i].type = "AD" <=> i = 2)
  <2>1. SUFFICES ASSUME NEW i \in 1 .. Len(U) PROVE U[i].type = "AD" <=> i = 2
    OBVIOUS
  <2>2. CASE i = 1 BY <2>2, <1>2
  <2>3. CASE i = 2 BY <2>3, <1>2
  <2>4. CASE i \in 3 .. Len(U) BY <2>4, <1>2 DEF OwnVideo
  <2> QED BY <1>5, <2>2, <2>3, <2>4
<1>10. \A i \in 1 .. Len(w) : OwnUnit(w[i].gof, w[i]) /\ w[i].gof < g + 1
  <2>1. SUFFICES ASSUME NEW i \in 1 .. Len(w)
                 PROVE  OwnUnit(w[i].gof, w[i]) /\ w[i].gof < g + 1
    OBVIOUS
  <2>2. CASE i <= n
    <3>1. i \in 1 .. n
      BY <2>2, <1>1, <1>4, <1>5
    <3>2. w[i] = s[i] /\ OwnUnit(s[i].gof, s[i]) /\ s[i].gof < g
      BY <3>1, <1>4, <1>7
    <3>3. s[i].gof \in Nat
      BY <3>2 DEF OwnUnit, UnitSet
    <3> QED BY <3>2, <3>3, <1>1
  <2>3. CASE i > n
    <3>1. i \in n + 1 .. Len(w)
      BY <2>3, <1>1, <1>4, <1>5
    <3>2. i - n \in 1 .. Len(U) /\ w[i] = U[i - n]
      BY <3>1, <1>4
    <3> DEFINE k == i - n
    <3> HIDE DEF k
    <3>3. U[k].gof = g /\ OwnUnit(U[k].gof, U[k]) /\ w[i] = U[k]
      BY <3>2, <1>8 DEF k
    <3> QED BY <3>3, <1>1
  <2> QED BY <1>1, <1>4, <1>5, <2>2, <2>3
<1>11. \A i \in 1 .. Len(w) - 1 :
         /\ w[i + 1].gof = IF w[i + 1].type = "VPS" THEN w[i].gof + 1 ELSE w[i].gof
         /\ w[i + 1].type = "AD" <=> w[i].type = "VPS"
  <2>1. SUFFICES ASSUME NEW i \in 1 .. Len(w) - 1
                 PROVE  /\ w[i + 1].gof = IF w[i + 1].type = "VPS" THEN w[i].gof + 1 ELSE w[i].gof
                        /\ w[i + 1].type = "AD" <=> w[i].type = "VPS"
    OBVIOUS
  <2>2. CASE i < n
    <3>1. w[i] = s[i] /\ w[i + 1] = s[i + 1] /\ i \in 1 .. n - 1
      BY <2>2, <1>1, <1>4
    <3> QED BY <3>1, <1>7
  <2>3. CASE i = n
    <3>1. w[i] = s[n] /\ w[i + 1] = U[1] /\ n > 0
      <4>1. 1 \in 1 .. Len(U) /\ n \in 1 .. n
        BY <2>3, <1>1, <1>2, <1>5
      <4>2. w[n + 1] = U[1] /\ w[n] = s[n]
        BY <4>1, <1>4, <1>6
      <4> QED BY <2>3, <4>1, <4>2
    <3>2. U[1].gof = g /\ U[1].type = "VPS"
      BY <1>2, <1>5, <1>8
    <3>3. s[n].gof + 1 = g /\ s[n].type # "VPS"
      BY <3>1, <1>1, <1>7
    <3> QED BY <3>1, <3>2, <3>3
  <2>4. CASE i > n
    <3> DEFINE k == i - n
    <3>1. k \in 1 .. Len(U) - 1 /\ w[i] = U[k] /\ w[i + 1] = U[k + 1]
      <4>1. k \in 1 .. Len(U) - 1 /\ i = n + k /\ i + 1 = n + (k + 1)
        BY <2>4, <1>1, <1>4, <1>5
      <4> HIDE DEF k
      <4>2. k \in 1 .. Len(U) /\ k + 1 \in 1 .. Len(U)
        BY <4>1, <1>5
      <4> QED BY <4>1, <4>2, <1>6
    <3> HIDE DEF k
    <3>2. k \in 1 .. Len(U) /\ k + 1 \in 1 .. Len(U)
      BY <3>1, <1>5
    <3>3. U[k].gof = g /\ U[k + 1].gof = g /\ U[k + 1].type # "VPS"
      <4>1. k + 1 # 1
        BY <3>1, <1>5
      <4> QED BY <3>2, <4>1, <1>8
    <3>4. U[k + 1].type = "AD" <=> U[k].type = "VPS"
      BY <3>1, <3>2, <1>8, <1>9, SMTT(60)
    <3> QED BY <3>1, <3>3, <3>4
  <2> QED BY <1>1, <1>4, <1>5, <2>2, <2>3, <2>4
<1>12. /\ w[1].type = "VPS" /\ w[1].gof = 0
       /\ w[Len(w)].type # "VPS" /\ w[Len(w)].gof = g
  <2>1. w[Len(w)] = U[Len(U)]
    BY <1>2, <1>4, <1>5, <1>6
  <2>2. U[Len(U)].type # "VPS" /\ U[Len(U)].gof = g
    BY <1>2, <1>5, <1>8
  <2>3. w[1].type = "VPS" /\ w[1].gof = 0
    <3>1. CASE n = 0
      <4>1. 1 \in 1 .. Len(U) /\ n + 1 = 1
        BY <3>1, <1>2, <1>5
      <4>2. w[1] = U[1]
        BY <4>1, <1>6
      <4>3. g = 0
        BY <3>1, <1>1, <1>7
      <4> QED BY <4>1, <4>2, <4>3, <1>2, <1>8
    <3>2. CASE n > 0
      <4>1. 1 \in 1 .. n
        BY <3>2, <1>1
      <4> QED BY <4>1, <3>2, <1>4, <1>7
    <3> QED BY <1>1, <3>1, <3>2
  <2> QED BY <2>1, <2>2, <2>3
<1>13. Len(w) > 0
  BY <1>1, <1>2, <1>4, <1>5
<1>14. /\ (Len(w) > 0 <=> g + 1 > 0)
       /\ w[Len(w)].gof = (g + 1) - 1
  BY <1>1, <1>12, <1>13
<1>15. w \in Seq(UnitSet)
  BY <1>4
<1> QED BY <1>10, <1>11, <1>12, <1>14, <1>15, Zenon DEF StreamShape

-----------------------------------------------------------------------------
(***************************************************************************)
(* The encoder keeps the invariant.                                        *)
(***************************************************************************)
(* A loaded group has at least one frame and at most GofSize. *)
LEMMA LoadedCount ==
  ASSUME config \in Configs, start \in Nat, end0 \in Nat, start < end0,
         NEW count \in LoadedCounts(MinOf(start + GofSize, end0)), count > 0
  PROVE  count \in 1 .. GofSize
<1>1. config.onDisk \in Nat /\ GofSize \in Nat \ {0}
  BY SequenceAssumption DEF Configs
<1> DEFINE e == MinOf(start + GofSize, end0)
<1>2. e \in Nat /\ e - start \in 1 .. GofSize
  BY <1>1 DEF MinOf
<1> HIDE DEF e
<1>3. count \in Nat /\ count <= e - start
  BY <1>1, <1>2 DEF LoadedCounts, MaxOf, e
<1> QED BY <1>1, <1>2, <1>3

(* Appending a group that starts where the encoder stands. *)
LEMMA GroupsGrow ==
  ASSUME GroupsInv, NEW count \in 1 .. GofSize,
         groups' = Append(groups, [start |-> start, count |-> count]),
         start' = start + count, end0' \in Nat
  PROVE  GroupsInv' /\ Len(groups') = Len(groups) + 1
<1> DEFINE n == Len(groups)
           r == [start |-> start, count |-> count]
<1>1. /\ groups \in Seq(GroupSet) /\ n \in Nat /\ start \in Nat /\ count \in Nat /\ r \in GroupSet
      /\ r.start = start /\ r.count = count
  BY SequenceAssumption DEF GroupsInv, GroupSet
<1>2. /\ groups' \in Seq(GroupSet) /\ Len(groups') = n + 1
      /\ \A k \in 1 .. n : groups'[k] = groups[k]
      /\ groups'[n + 1] = r
  BY <1>1, AppendProperties
<1>3. /\ n > 0 => groups[1].start = 0
      /\ \A k \in 1 .. n - 1 : groups[k + 1].start = groups[k].start + groups[k].count
      /\ start = IF n = 0 THEN 0 ELSE groups[n].start + groups[n].count
  BY DEF GroupsInv
<1> HIDE DEF n, r
<1>4. groups'[1].start = 0
  <2>1. CASE n = 0
    BY <2>1, <1>1, <1>2, <1>3
  <2>2. CASE n > 0
    BY <2>2, <1>1, <1>2, <1>3
  <2> QED BY <1>1, <2>1, <2>2
<1>5. \A k \in 1 .. n : groups'[k + 1].start = groups'[k].start + groups'[k].count
  <2>1. SUFFICES ASSUME NEW k \in 1 .. n PROVE groups'[k + 1].start = groups'[k].start + groups'[k].count
    OBVIOUS
  <2>2. k = n \/ (k \in 1 .. n - 1 /\ k + 1 \in 1 .. n)
    BY <1>1
  <2>3. groups'[k] = groups[k]
    BY <1>2
  <2>4. CASE k = n
    <3>1. groups'[k + 1] = r /\ n # 0
      BY <2>4, <1>1, <1>2
    <3> QED BY <2>3, <2>4, <3>1, <1>1, <1>3
  <2>5. CASE k \in 1 .. n - 1 /\ k + 1 \in 1 .. n
    BY <2>3, <2>5, <1>2, <1>3
  <2> QED BY <2>2, <2>4, <2>5
<1>6. Len(groups') - 1 = n /\ Len(groups') # 0
  BY <1>1, <1>2
<1>7. start' \in Nat /\ start' = groups'[Len(groups')].start + groups'[Len(groups')].count
  BY <1>1, <1>2
<1> QED BY <1>1, <1>2, <1>4, <1>5, <1>6, <1>7 DEF GroupsInv, n

(* As long as nothing is delivered, what was delivered is right. *)
LEMMA NothingDelivered ==
  ASSUME decoded = <<>>, frameNumber = 0, Len(groups) \in Nat
  PROVE  DeliveredInv
BY DEF DeliveredInv, GroupsReassembled, FrameNumbersAgree, g0

(* a coded group continues the sequence and the unit list *)
LEMMA EncodeGroupInv == ASSUME IInv, EncodeGroup PROVE IInv'
<1>1. config \in Configs /\ config' = config /\ phase = "encode" /\ phase' = phase
  BY DEF IInv, EncodeGroup
<1>2. PICK count \in LoadedCounts(MinOf(start + GofSize, end0)), sizes \in SizeChoices :
        /\ count > 0 /\ start < end0
        /\ groups' = Append(groups, [start |-> start, count |-> count])
        /\ ssvu' = ssvu \o GofUnits(Len(groups), config, sizes)
        /\ start' = start + count
        /\ end0' = IF count < MinOf(start + GofSize, end0) - start THEN start + count ELSE end0
  BY DEF EncodeGroup
<1>3. GroupsInv /\ StreamInv /\ groups \in Seq(GroupSet) /\ start \in Nat /\ end0 \in Nat
  BY DEF IInv, GroupsInv
<1>4. count \in 1 .. GofSize
  BY <1>1, <1>2, <1>3, LoadedCount
<1>5. end0' \in Nat
  BY <1>2, <1>3, <1>4, SequenceAssumption
<1>6. GroupsInv' /\ Len(groups') = Len(groups) + 1
  BY <1>2, <1>3, <1>4, <1>5, GroupsGrow
<1>7. StreamInv'
  <2> DEFINE g == Len(groups)
             U == GofUnits(g, config, sizes)
  <2>1. g \in Nat /\ sizes \in [UnitTypes -> Nat]
    BY <1>3, SizeAssumption
  <2>2. /\ U \in Seq(UnitSet) /\ Len(U) >= 3 /\ U[1].type = "VPS" /\ U[2].type = "AD"
        /\ \A i \in 1 .. Len(U) : OwnUnit(g, U[i])
        /\ \A i \in 3 .. Len(U) : OwnVideo(g, U[i])
    BY <2>1, <1>1, GofUnitsShape
  <2>3. StreamShape(ssvu, g) /\ ssvu' = ssvu \o U /\ Len(groups') = g + 1
    BY <1>2, <1>3, <1>6 DEF StreamInv
  <2> HIDE DEF g, U
  <2>4. StreamShape(ssvu', g + 1)
    BY <2>1, <2>2, <2>3, StreamGrows
  <2> QED BY <2>3, <2>4 DEF StreamInv
<1>8. decoded = <<>> /\ frameNumber = 0 /\ front = 0
  BY <1>1 DEF IInv, DecoderInv, DeliveredInv, g0
<1>9. UNCHANGED <<front, numVPS, syntax, decoded, frameNumber>>
  BY DEF EncodeGroup, decVars
<1>10. DecoderInv'
  <2>1. 0 <= Len(ssvu')
    BY <1>7 DEF StreamInv, StreamShape
  <2>2. front \in Nat /\ numVPS \in Nat /\ syntax \in StoreSet
    BY DEF IInv, DecoderInv
  <2> QED BY <1>1, <1>8, <1>9, <2>1, <2>2 DEF DecoderInv
<1>11. DeliveredInv'
  <2>1. decoded' = <<>> /\ frameNumber' = 0 /\ Len(groups') \in Nat
    BY <1>3, <1>6, <1>8, <1>9
  <2> QED BY <2>1, NothingDelivered DEF DeliveredInv, GroupsReassembled, FrameNumbersAgree, g0
<1> QED BY <1>1, <1>6, <1>7, <1>10, <1>11 DEF IInv

(* an empty group ends the encoder and leaves everything else alone *)
LEMMA EncodeEmptyGroupInv == ASSUME IInv, EncodeEmptyGroup PROVE IInv'
<1>1. /\ phase = "encode" /\ phase' = "crashed"
      /\ UNCHANGED <<config, start, end0, groups, ssvu, front, syntax, numVPS, decoded, frameNumber>>
  BY DEF EncodeEmptyGroup, encVars, decVars
<1>2. GroupsInv' /\ StreamInv' /\ DeliveredInv'
  BY <1>1 DEF IInv, GroupsInv, StreamInv, DeliveredInv, GroupsReassembled, FrameNumbersAgree, g0
<1>3. DecoderInv'
  BY <1>1 DEF IInv, DecoderInv
<1> QED BY <1>1, <1>2, <1>3 DEF IInv

(* Where the stream is written it holds at least one group. *)
LEMMA WriteStreamInv == ASSUME IInv, WriteStream PROVE IInv'
<1>1. /\ phase = "encode" /\ phase' = "group" /\ start >= end0
      /\ UNCHANGED <<config, start, end0, groups, ssvu, front, syntax, numVPS, decoded, frameNumber>>
  BY DEF WriteStream, encVars, decVars
<1>2. GroupsInv' /\ StreamInv' /\ DeliveredInv'
  BY <1>1 DEF IInv, GroupsInv, StreamInv, DeliveredInv, GroupsReassembled, FrameNumbersAgree, g0
<1>3. DecoderInv'
  <2>1. Len(groups) \in Nat /\ Len(groups) > 0
    BY <1>1 DEF IInv, GroupsInv
  <2>2. front = 0 /\ decoded = <<>>
    BY <1>1 DEF IInv, DecoderInv
  <2>3. Len(ssvu) \in Nat /\ Len(ssvu) > 0 /\ ssvu[1].type = "VPS" /\ ssvu[1].gof = 0
    BY <2>1 DEF IInv, StreamInv, StreamShape
  <2>4. front \in Nat /\ front <= Len(ssvu) /\ numVPS \in Nat /\ syntax \in StoreSet
    BY DEF IInv, DecoderInv
  <2>5. g0 = 0 /\ Opens(front + 1, g0)
    BY <2>2, <2>3 DEF g0, Opens
  <2> QED BY <1>1, <2>1, <2>4, <2>5 DEF DecoderInv, g0, Opens
<1> QED BY <1>1, <1>2, <1>3 DEF IInv

-----------------------------------------------------------------------------
(***************************************************************************)
(* The decoder keeps the invariant.                                        *)
(***************************************************************************)
LEMMA StartGroupInv == ASSUME IInv, StartGroup PROVE IInv'
<1>1. /\ phase = "group" /\ phase' = "units" /\ numVPS' = 0
      /\ syntax' = [vps |-> <<>>, active |-> 0, hls |-> <<>>]
      /\ UNCHANGED <<config, start, end0, groups, ssvu, front, decoded, frameNumber>>
  BY DEF StartGroup, encVars
<1>2. GroupsInv' /\ StreamInv' /\ DeliveredInv'
  BY <1>1 DEF IInv, GroupsInv, StreamInv, DeliveredInv, GroupsReassembled, FrameNumbersAgree, g0
<1>3. DecoderInv'
  <2>1. /\ front \in Nat /\ front <= Len(ssvu)
        /\ g0 < Len(groups) /\ Opens(front + 1, g0)
    BY <1>1 DEF IInv, DecoderInv
  <2>2. [vps |-> <<>>, active |-> 0, hls |-> <<>>] \in StoreSet
    BY DEF StoreSet
  <2> QED BY <1>1, <2>1, <2>2 DEF DecoderInv, g0, Opens
<1> QED BY <1>1, <1>2, <1>3 DEF IInv

(* Parsing a parameter set keeps the atlas that is there (v3cUnit,         *)
(* allocateAtlasHLS).                                                      *)
LEMMA ParsedVps ==
  ASSUME NEW s \in StoreSet, NEW u \in UnitSet, u.type = "VPS"
  PROVE  /\ Parsed(s, u) \in StoreSet
         /\ Parsed(s, u).vps = Append(s.vps, [gof |-> u.gof, id |-> u.vps])
         /\ Parsed(s, u).active = s.active
         /\ Len(Parsed(s, u).hls) = 1
         /\ Parsed(s, u).hls[1] = IF Len(s.hls) = 0 THEN [ad |-> <<>>, videos |-> <<>>] ELSE s.hls[1]
<1> DEFINE e == [ad |-> <<>>, videos |-> <<>>]
           h == allocateAtlasHLS(s.hls, 1)
           p == [gof |-> u.gof, id |-> u.vps]
<1>1. s.hls \in Seq(AtlasSet) /\ Len(s.hls) \in Nat /\ s.active \in Nat /\ s.vps \in Seq([gof : Nat, id : Nat])
  BY DEF StoreSet
<1>2. e \in AtlasSet
  BY DEF AtlasSet
<1>3. h = [i \in 1 .. 1 |-> IF i <= Len(s.hls) THEN s.hls[i] ELSE e]
  BY DEF allocateAtlasHLS
<1>4. h[1] = IF Len(s.hls) = 0 THEN e ELSE s.hls[1]
  BY <1>1, <1>3
<1>5. h[1] \in AtlasSet
  <2> HIDE DEF e, h
  <2>1. CASE Len(s.hls) = 0
    BY <2>1, <1>2, <1>4
  <2>2. CASE Len(s.hls) # 0
    <3>1. 1 \in 1 .. Len(s.hls)
      BY <2>2, <1>1
    <3> QED BY <3>1, <2>2, <1>1, <1>4
  <2> QED BY <2>1, <2>2
<1>6. h \in Seq(AtlasSet) /\ Len(h) = 1
  <2>1. h = [i \in 1 .. 1 |-> h[i]]
    BY <1>3
  <2> HIDE DEF h
  <2>2. \A i \in 1 .. 1 : h[i] \in AtlasSet
    BY <1>5
  <2> QED BY <2>1, <2>2
<1>7. Append(s.vps, p) \in Seq([gof : Nat, id : Nat])
  <2>1. p \in [gof : Nat, id : Nat]
    BY DEF UnitSet
  <2> HIDE DEF p
  <2> QED BY <2>1, <1>1, AppendProperties
<1>8. Parsed(s, u) = [vps |-> Append(s.vps, p), active |-> s.active, hls |-> h]
  BY DEF Parsed, StoreSet
<1> HIDE DEF e, h, p
<1>9. Parsed(s, u) \in StoreSet
  BY <1>1, <1>6, <1>7, <1>8 DEF StoreSet
<1> QED BY <1>4, <1>6, <1>8, <1>9 DEF e, p

(* Parsing atlas data or a video adds it to the only atlas and makes the   *)
(* parameter set named by its header the active one.                       *)
LEMMA ParsedData ==
  ASSUME NEW s \in StoreSet, NEW u \in UnitSet, u.type # "VPS", Len(s.hls) = 1
  PROVE  /\ Parsed(s, u) \in StoreSet
         /\ Parsed(s, u).vps = s.vps
         /\ Parsed(s, u).active = u.vps
         /\ Len(Parsed(s, u).hls) = 1
         /\ Parsed(s, u).hls[1] =
               IF u.type = "AD" THEN [ad |-> Append(s.hls[1].ad, u), videos |-> s.hls[1].videos]
                                ELSE [ad |-> s.hls[1].ad, videos |-> Append(s.hls[1].videos, u)]
<1> DEFINE a == s.hls[1]
           b == IF u.type = "AD" THEN [ad |-> Append(a.ad, u), videos |-> a.videos]
                                 ELSE [ad |-> a.ad, videos |-> Append(a.videos, u)]
           h == [i \in 1 .. 1 |-> b]
<1>1. s.hls \in Seq(AtlasSet) /\ s.vps \in Seq([gof : Nat, id : Nat]) /\ u.vps \in Nat
  BY DEF StoreSet, UnitSet
<1>2. a \in AtlasSet /\ DOMAIN s.hls = 1 .. 1
  BY <1>1
<1>3. a.ad \in Seq(UnitSet) /\ a.videos \in Seq(UnitSet)
  BY <1>2 DEF AtlasSet
<1>4. Append(a.ad, u) \in Seq(UnitSet) /\ Append(a.videos, u) \in Seq(UnitSet)
  BY <1>3, AppendProperties
<1>5. b \in AtlasSet
  BY <1>3, <1>4 DEF AtlasSet
<1>6. h \in Seq(AtlasSet) /\ Len(h) = 1 /\ h[1] = b
  BY <1>5
<1>7. Parsed(s, u) = [vps |-> s.vps, active |-> u.vps, hls |-> h]
  <2>1. CASE u.type = "AD"
    <3>1. Parsed(s, u) = [vps |-> s.vps, active |-> u.vps, hls |-> [s.hls EXCEPT ![1].ad = Append(@, u)]]
      BY <2>1 DEF Parsed, StoreSet
    <3>2. [s.hls EXCEPT ![1].ad = Append(@, u)] = h
      <4>1. [a EXCEPT !.ad = Append(@, u)] = b
        BY <2>1, <1>2, SMTT(60) DEF AtlasSet
      <4>2. \A x : [s.hls EXCEPT ![1] = x] = [i \in 1 .. 1 |-> x]
        BY <1>1, <1>2
      <4>3. [s.hls EXCEPT ![1].ad = Append(@, u)] = [s.hls EXCEPT ![1] = [a EXCEPT !.ad = Append(@, u)]]
        BY <1>2
      <4> HIDE DEF b, a
      <4> QED BY <4>1, <4>2, <4>3 DEF h
    <3> QED BY <3>1, <3>2
  <2>2. CASE u.type # "AD"
    <3>1. Parsed(s, u) = [vps |-> s.vps, active |-> u.vps, hls |-> [s.hls EXCEPT ![1].videos = Append(@, u)]]
      BY <2>2 DEF Parsed, StoreSet
    <3>2. [s.hls EXCEPT ![1].videos = Append(@, u)] = h
      <4>1. [a EXCEPT !.videos = Append(@, u)] = b
        <5>1. b = [ad |-> a.ad, videos |-> Append(a.videos, u)]
          BY <2>2
        <5>2. \A x : [a EXCEPT !.videos = x] = [ad |-> a.ad, videos |-> x]
          BY <1>2 DEF AtlasSet
        <5> HIDE DEF a, b
        <5> QED BY <5>1, <5>2
      <4>2. \A x : [s.hls EXCEPT ![1] = x] = [i \in 1 .. 1 |-> x]
        BY <1>1, <1>2
      <4>3. [s.hls EXCEPT ![1].videos = Append(@, u)] = [s.hls EXCEPT ![1] = [a EXCEPT !.videos = Append(@, u)]]
        BY <1>2
      <4> HIDE DEF b, a
      <4> QED BY <4>1, <4>2, <4>3 DEF h
    <3> QED BY <3>1, <3>2
  <2> QED BY <2>1, <2>2
<1> HIDE DEF h, b
<1>8. Parsed(s, u) \in StoreSet
  BY <1>1, <1>6, <1>7 DEF StoreSet
<1> QED BY <1>6, <1>7, <1>8 DEF b

(* One turn of the loop: the first parameter set, the atlas data, a video, *)
(* or the parameter set of the next group.                                 *)
LEMMA DecodeUnitInv == ASSUME IInv, DecodeUnit PROVE IInv'
<1> DEFINE u == ssvu[front + 1]
           s == Parsed(syntax, u)
           n == IF u.type = "VPS" THEN numVPS + 1 ELSE numVPS
<1>1. /\ phase = "units" /\ front < Len(ssvu)
      /\ syntax' = s /\ numVPS' = n
      /\ front' = IF EndsGroup(u, n) THEN front ELSE front + 1
      /\ phase' = IF EndsGroup(u, n) THEN "rebuild" ELSE "units"
      /\ UNCHANGED <<config, start, end0, groups, ssvu, decoded, frameNumber>>
  BY DEF DecodeUnit, encVars
<1>2. GroupsInv' /\ StreamInv' /\ DeliveredInv'
  BY <1>1 DEF IInv, GroupsInv, StreamInv, DeliveredInv, GroupsReassembled, FrameNumbersAgree, g0
<1>3. /\ front \in Nat /\ numVPS \in Nat /\ syntax \in StoreSet /\ g0 < Len(groups)
      /\ numVPS = 0 => Opens(front + 1, g0) /\ syntax = [vps |-> <<>>, active |-> 0, hls |-> <<>>]
      /\ numVPS # 0 => StoreInv /\ numVPS = 1
  BY <1>1 DEF IInv, DecoderInv
<1>4. /\ ssvu \in Seq(UnitSet) /\ Len(ssvu) \in Nat
      /\ \A i \in 1 .. Len(ssvu) : OwnUnit(ssvu[i].gof, ssvu[i])
      /\ \A i \in 1 .. Len(ssvu) - 1 :
           /\ ssvu[i + 1].gof = IF ssvu[i + 1].type = "VPS" THEN ssvu[i].gof + 1 ELSE ssvu[i].gof
           /\ ssvu[i + 1].type = "AD" <=> ssvu[i].type = "VPS"
  BY DEF IInv, StreamInv, StreamShape
<1>5. front + 1 \in 1 .. Len(ssvu)
  BY <1>1, <1>3, <1>4
<1>6. u \in UnitSet /\ u.gof \in Nat /\ u.vps = u.gof % VpsIds
  BY <1>4, <1>5 DEF OwnUnit, UnitSet
<1>7. g0 \in Nat
  BY DEF IInv, DeliveredInv, g0
<1>8. front' \in Nat /\ front' <= Len(ssvu') /\ numVPS' \in Nat
  BY <1>1, <1>3, <1>5
<1>9. CASE numVPS = 0
  <2>1. u.type = "VPS" /\ u.gof = g0 /\ n = 1
    BY <1>3, <1>9 DEF Opens
  <2>2. ~ EndsGroup(u, n)
    BY <2>1 DEF EndsGroup
  <2>3. phase' = "units" /\ front' = front + 1 /\ numVPS' = 1
    BY <1>1, <2>1, <2>2
  <2>4. Len(syntax.hls) = 0 /\ syntax.vps = <<>>
    BY <1>3, <1>9
  <2> HIDE DEF u, n, s
  <2>5. /\ s \in StoreSet /\ s.vps = Append(syntax.vps, [gof |-> u.gof, id |-> u.vps])
        /\ Len(s.hls) = 1 /\ s.hls[1] = [ad |-> <<>>, videos |-> <<>>]
    BY <1>3, <1>6, <2>1, <2>4, ParsedVps DEF s
  <2>6. s.vps # <<>> /\ s.vps[1] = [gof |-> g0, id |-> g0 % VpsIds]
    BY <1>6, <2>1, <2>4, <2>5
  <2>7. ssvu'[front'].gof = g0 /\ ssvu'[front'].type = "VPS" /\ g0' = g0
    BY <1>1, <2>1, <2>3 DEF u, g0
  <2>8. StoreInv'
    BY <1>1, <1>5, <2>3, <2>5, <2>6, <2>7 DEF StoreInv
  <2>9. DecoderInv'
    BY <1>1, <1>3, <1>8, <2>3, <2>5, <2>7, <2>8 DEF DecoderInv, g0
  <2> QED BY <1>1, <1>2, <2>3, <2>9 DEF IInv
<1>10. CASE numVPS # 0
  <2>1. /\ StoreInv /\ numVPS = 1 /\ front \in 1 .. Len(ssvu) - 1
    BY <1>1, <1>3, <1>4, <1>10 DEF StoreInv
  <2>2. /\ u.gof = IF u.type = "VPS" THEN ssvu[front].gof + 1 ELSE ssvu[front].gof
        /\ u.type = "AD" <=> ssvu[front].type = "VPS"
    BY <1>4, <2>1
  <2>3. g0' = g0
    BY <1>1 DEF g0
  <2>4. CASE u.type = "VPS"
    <3>1. phase' = "rebuild" /\ front' = front
      BY <1>1, <2>1, <2>4 DEF EndsGroup
    <3>2. Len(syntax.hls) = 1 /\ Len(syntax.hls) # 0 /\ syntax.vps \in Seq([gof : Nat, id : Nat])
      BY <1>3, <2>1 DEF StoreInv, StoreSet
    <3> DEFINE p == [gof |-> u.gof, id |-> u.vps]
    <3>3. p \in [gof : Nat, id : Nat]
      BY <1>6 DEF UnitSet
    <3> HIDE DEF u, n, s, p
    <3>4. /\ s \in StoreSet /\ s.vps = Append(syntax.vps, p) /\ s.active = syntax.active
          /\ Len(s.hls) = 1 /\ s.hls[1] = syntax.hls[1]
      BY <1>3, <1>6, <2>4, <3>2, ParsedVps DEF s, p
    <3>5. s.vps # <<>> /\ s.vps[1] = syntax.vps[1]
      <4>1. syntax.vps # <<>> /\ 1 \in 1 .. Len(syntax.vps)
        BY <2>1, <3>2 DEF StoreInv
      <4> QED BY <3>2, <3>3, <3>4, <4>1, AppendProperties
    <3>6. StoreInv'
      BY <1>1, <2>1, <2>3, <3>1, <3>4, <3>5 DEF StoreInv
    <3>7. ssvu'[front'].type # "VPS" /\ (front' < Len(ssvu') => ssvu'[front' + 1].type = "VPS")
      BY <1>1, <2>2, <2>4, <3>1 DEF u
    <3>8. DecoderInv'
      BY <1>1, <1>3, <1>8, <2>3, <3>1, <3>4, <3>6, <3>7 DEF DecoderInv
    <3> QED BY <1>1, <1>2, <3>1, <3>8 DEF IInv
  <2>5. CASE u.type # "VPS"
    <3>1. phase' = "units" /\ front' = front + 1 /\ numVPS' = 1
      BY <1>1, <2>1, <2>5 DEF EndsGroup
    <3>2. u.gof = g0 /\ OwnUnit(g0, u)
      BY <1>6, <2>1, <2>2, <2>5 DEF StoreInv, OwnUnit
    <3>3. Len(syntax.hls) = 1 /\ syntax.hls[1] \in AtlasSet
      <4>1. Len(syntax.hls) = 1 /\ syntax.hls \in Seq(AtlasSet)
        BY <1>3, <2>1 DEF StoreInv, StoreSet
      <4>2. 1 \in 1 .. Len(syntax.hls)
        BY <4>1
      <4> QED BY <4>1, <4>2
    <3> DEFINE a == syntax.hls[1]
    <3> HIDE DEF u, n, s
    <3>4. /\ s \in StoreSet /\ s.vps = syntax.vps /\ s.active = u.vps /\ Len(s.hls) = 1
          /\ s.hls[1] = IF u.type = "AD" THEN [ad |-> Append(a.ad, u), videos |-> a.videos]
                                         ELSE [ad |-> a.ad, videos |-> Append(a.videos, u)]
      BY <1>3, <1>6, <2>5, <3>3, ParsedData DEF s
    <3>5. /\ Len(a.ad) = (IF ssvu[front].type = "VPS" THEN 0 ELSE 1)
          /\ \A i \in 1 .. Len(a.ad) : OwnUnit(g0, a.ad[i])
          /\ \A i \in 1 .. Len(a.videos) : OwnUnit(g0, a.videos[i])
          /\ a.ad \in Seq(UnitSet) /\ a.videos \in Seq(UnitSet)
      BY <2>1, <3>3 DEF StoreInv, AtlasSet
    <3>6. s.active = g0 % VpsIds
      BY <1>6, <3>2, <3>4
    <3>7. ssvu'[front'] = u /\ ssvu'[front'].gof = g0 /\ ssvu'[front'].type # "VPS"
          /\ front' \in 1 .. Len(ssvu')
      BY <1>1, <1>5, <2>5, <3>1, <3>2 DEF u
    <3> HIDE DEF a
    <3>8. /\ Len(s.hls[1].ad) = 1
          /\ \A i \in 1 .. Len(s.hls[1].ad) : OwnUnit(g0, s.hls[1].ad[i])
          /\ \A i \in 1 .. Len(s.hls[1].videos) : OwnUnit(g0, s.hls[1].videos[i])
      <4>1. CASE u.type = "AD"
        <5>1. s.hls[1].ad = Append(a.ad, u) /\ s.hls[1].videos = a.videos /\ Len(a.ad) = 0
          BY <2>2, <3>4, <3>5, <4>1 DEF u
        <5>2. Len(Append(a.ad, u)) = 1 /\ Append(a.ad, u)[1] = u
          BY <1>6, <3>5, <5>1, AppendProperties
        <5> QED BY <3>2, <3>5, <5>1, <5>2
      <4>2. CASE u.type # "AD"
        <5>1. s.hls[1].ad = a.ad /\ s.hls[1].videos = Append(a.videos, u) /\ Len(a.ad) = 1
          BY <2>2, <3>4, <3>5, <4>2 DEF u
        <5>2. \A i \in 1 .. Len(Append(a.videos, u)) : OwnUnit(g0, Append(a.videos, u)[i])
          <6>1. /\ Len(Append(a.videos, u)) = Len(a.videos) + 1
                /\ \A i \in 1 .. Len(a.videos) : Append(a.videos, u)[i] = a.videos[i]
                /\ Append(a.videos, u)[Len(a.videos) + 1] = u
            BY <1>6, <3>5, AppendProperties
          <6>2. Len(a.videos) \in Nat
            BY <3>5
          <6> QED BY <3>2, <3>5, <6>1, <6>2
        <5> QED BY <3>5, <5>1, <5>2
      <4> QED BY <4>1, <4>2
    <3>9. StoreInv'
      BY <1>1, <2>1, <2>3, <3>4, <3>6, <3>7, <3>8 DEF StoreInv
    <3>10. DecoderInv'
      BY <1>1, <1>3, <1>8, <2>3, <3>1, <3>4, <3>9 DEF DecoderInv
    <3> QED BY <1>1, <1>2, <3>1, <3>10 DEF IInv
  <2> QED BY <2>4, <2>5
<1> QED BY <1>9, <1>10

(* The list ends after the last video of the last group. *)
LEMMA EndOfStreamInv == ASSUME IInv, EndOfStream PROVE IInv'
<1>1. /\ phase = "units" /\ phase' = "rebuild" /\ front = Len(ssvu)
      /\ UNCHANGED <<config, start, end0, groups, ssvu, front, syntax, numVPS, decoded, frameNumber>>
  BY DEF EndOfStream, encVars, decVars
<1>2. GroupsInv' /\ StreamInv' /\ DeliveredInv'
  BY <1>1 DEF IInv, GroupsInv, StreamInv, DeliveredInv, GroupsReassembled, FrameNumbersAgree, g0
<1>3. DecoderInv'
  <2>1. /\ front \in Nat /\ front <= Len(ssvu) /\ numVPS \in Nat /\ syntax \in StoreSet /\ g0 < Len(groups)
        /\ numVPS = 0 => Opens(front + 1, g0)
        /\ numVPS # 0 => StoreInv
    BY <1>1 DEF IInv, DecoderInv
  <2>2. Len(ssvu) \in Nat /\ (Len(ssvu) > 0 => ssvu[Len(ssvu)].type # "VPS")
    BY DEF IInv, StreamInv, StreamShape
  <2>3. numVPS # 0
    BY <1>1, <2>1, <2>2 DEF Opens
  <2>4. StoreInv /\ ssvu[front].type # "VPS"
    BY <1>1, <2>1, <2>2, <2>3 DEF StoreInv
  <2>5. StoreInv'
    BY <1>1, <2>4 DEF StoreInv, g0
  <2> QED BY <1>1, <2>1, <2>2, <2>4, <2>5 DEF DecoderInv, g0
<1> QED BY <1>1, <1>2, <1>3 DEF IInv

DeliveredSet == [vps : Nat, ad : Seq(UnitSet), video : [NeededVideos(config) -> UnitSet], number : Nat]

(* The lookups find what belongs to the group: the active parameter set is *)
(* the first one of the list, and every needed video is one of the store   *)
(* (getVps, getVideoBitstream).                                            *)
LEMMA FirstParameterSet ==
  ASSUME NEW s \in StoreSet, NEW g \in Nat, s.vps # <<>>, s.vps[1] = [gof |-> g, id |-> g % VpsIds],
         s.active = g % VpsIds
  PROVE  getVps(s).gof = g
<1>1. s.vps \in Seq([gof : Nat, id : Nat]) /\ Len(s.vps) \in Nat /\ Len(s.vps) > 0
  BY DEF StoreSet
<1>2. DOMAIN s.vps = 1 .. Len(s.vps) /\ 1 \in DOMAIN s.vps
  BY <1>1
<1>3. s.vps[1].id = s.active /\ s.vps[1].gof = g
  OBVIOUS
<1> DEFINE i == CHOOSE k \in DOMAIN s.vps :
                  s.vps[k].id = s.active /\ \A j \in DOMAIN s.vps : s.vps[j].id = s.active => k <= j
<1>4. \A j \in DOMAIN s.vps : j \in Nat /\ j >= 1
  BY <1>1, <1>2
<1>5. i \in DOMAIN s.vps /\ s.vps[i].id = s.active /\ \A j \in DOMAIN s.vps : s.vps[j].id = s.active => i <= j
  BY <1>2, <1>3, <1>4
<1>6. getVps(s) = s.vps[i]
  BY DEF getVps
<1> HIDE DEF i
<1>7. i = 1
  BY <1>2, <1>3, <1>4, <1>5
<1> QED BY <1>3, <1>6, <1>7

(* when videos of a type are there, the lookup by type finds one of that type *)
LEMMA FirstVideo ==
  ASSUME NEW videos \in Seq(UnitSet), NEW v, Entries(videos, v) # {}
  PROVE  \E i \in 1 .. Len(videos) :
            getVideoBitstream(videos, v) = videos[i] /\ VideoType(videos[i], config) = v
<1> DEFINE E == Entries(videos, v)
           i == CHOOSE k \in E : \A j \in E : k <= j
<1>1. E \subseteq 1 .. Len(videos) /\ \A k \in E : VideoType(videos[k], config) = v
  BY DEF Entries
<1>2. E \subseteq Nat /\ E # {}
  BY <1>1
<1> HIDE DEF E
<1>3. \E k \in E : \A j \in E : k <= j
  BY <1>2, LeastNumber
<1>4. i \in E
  BY <1>3
<1>5. getVideoBitstream(videos, v) = videos[i]
  BY DEF getVideoBitstream, E
<1> HIDE DEF i
<1> QED BY <1>1, <1>4, <1>5

(* The group is rebuilt from its own data, numbered where the encoder      *)
(* started it, and the next one follows in the list.                       *)
LEMMA RebuildInv == ASSUME IInv, Rebuild PROVE IInv'
<1> DEFINE atlas == syntax.hls[1]
           count == groups[atlas.ad[1].gof + 1].count
           d == [vps    |-> getVps(syntax).gof,
                 ad     |-> atlas.ad,
                 video  |-> [v \in NeededVideos(config) |-> getVideoBitstream(atlas.videos, v)],
                 number |-> frameNumber]
<1>1. phase = "rebuild" /\ UNCHANGED <<config, start, end0, groups, ssvu, front, syntax, numVPS>>
  BY DEF Rebuild, encVars
<1>2. GroupsInv' /\ StreamInv' /\ config' \in Configs
  BY <1>1 DEF IInv, GroupsInv, StreamInv
<1>3. /\ front \in 1 .. Len(ssvu) /\ Len(ssvu) \in Nat /\ numVPS \in Nat /\ syntax \in StoreSet
      /\ g0 < Len(groups) /\ StoreInv /\ ssvu[front].type # "VPS"
      /\ front < Len(ssvu) => ssvu[front + 1].type = "VPS"
  BY <1>1 DEF IInv, DecoderInv, StoreInv, StreamInv, StreamShape
<1>4. /\ groups \in Seq(GroupSet) /\ Len(groups) \in Nat /\ g0 \in Nat
      /\ decoded \in Seq(DeliveredSet)
  BY DEF IInv, GroupsInv, DeliveredInv, g0, DeliveredSet
<1>5. CASE Rejected
  <2>1. phase' = "exited" /\ UNCHANGED <<frameNumber, decoded>>
    BY <1>5 DEF Rebuild
  <2>2. DeliveredInv'
    BY <1>1, <2>1 DEF IInv, DeliveredInv, GroupsReassembled, FrameNumbersAgree, g0
  <2>3. DecoderInv'
    BY <1>1, <1>3, <2>1 DEF DecoderInv
  <2> QED BY <1>2, <2>1, <2>2, <2>3 DEF IInv
<1>6. CASE ~ Rejected
  <2>1. /\ decoded' = Append(decoded, d)
        /\ frameNumber' = NextFrameNumber(frameNumber, count)
        /\ phase' = IF front < Len(ssvu) THEN "group" ELSE "done"
    BY <1>6 DEF Rebuild
  <2>2. /\ atlas \in AtlasSet /\ Len(atlas.ad) = 1
        /\ OwnUnit(g0, atlas.ad[1])
        /\ \A i \in 1 .. Len(atlas.videos) : OwnUnit(g0, atlas.videos[i])
    <3>1. syntax.hls \in Seq(AtlasSet) /\ Len(syntax.hls) = 1
      BY <1>3 DEF StoreInv, StoreSet
    <3>2. 1 \in 1 .. Len(syntax.hls)
      BY <3>1
    <3>3. atlas \in AtlasSet
      BY <3>1, <3>2
    <3>4. Len(atlas.ad) = 1 /\ 1 \in 1 .. Len(atlas.ad)
      BY <1>3 DEF StoreInv
    <3> QED BY <1>3, <3>3, <3>4 DEF StoreInv
  <2>3. atlas.ad \in Seq(UnitSet) /\ atlas.videos \in Seq(UnitSet)
    BY <2>2 DEF AtlasSet
  <2>4. atlas.ad[1].gof = g0 /\ count = groups[g0 + 1].count /\ g0 + 1 \in 1 .. Len(groups)
    BY <1>3, <1>4, <2>2 DEF OwnUnit
  <2>5. getVps(syntax).gof = g0
    BY <1>3, <1>4, FirstParameterSet DEF StoreInv
  <2> HIDE DEF atlas, count, d
  <2>6. \A v \in NeededVideos(config) :
          LET b == getVideoBitstream(atlas.videos, v)
          IN  b \in UnitSet /\ b.gof = g0 /\ VideoType(b, config) = v
    <3>1. SUFFICES ASSUME NEW v \in NeededVideos(config)
                   PROVE  LET b == getVideoBitstream(atlas.videos, v)
                          IN  b \in UnitSet /\ b.gof = g0 /\ VideoType(b, config) = v
      OBVIOUS
    <3>2. Entries(atlas.videos, v) # {}
      BY <1>6 DEF Rejected, atlas
    <3>3. PICK i \in 1 .. Len(atlas.videos) :
             getVideoBitstream(atlas.videos, v) = atlas.videos[i] /\ VideoType(atlas.videos[i], config) = v
      BY <2>3, <3>2, FirstVideo
    <3> QED BY <2>2, <3>3 DEF OwnUnit
  <2>7. frameNumber \in Nat /\ frameNumber = groups[g0 + 1].start
    <3>1. frameNumber = IF g0 = 0 THEN 0 ELSE groups[g0].start + groups[g0].count
      BY DEF IInv, DeliveredInv
    <3>2. CASE g0 = 0
      BY <1>3, <3>1, <3>2 DEF IInv, GroupsInv
    <3>3. CASE g0 # 0
      <4>1. g0 \in 1 .. Len(groups) - 1 /\ g0 + 1 \in 1 .. Len(groups)
        BY <1>3, <1>4, <3>3
      <4>2. groups[g0 + 1].start = groups[g0].start + groups[g0].count
        BY <4>1 DEF IInv, GroupsInv
      <4>3. groups[g0 + 1].start \in Nat
        <5>1. groups[g0 + 1] \in GroupSet
          BY <1>4, <4>1
        <5> QED BY <5>1 DEF GroupSet
      <4> QED BY <3>1, <3>3, <4>2, <4>3
    <3> QED BY <3>2, <3>3
  <2>8. d \in DeliveredSet
    <3>1. [v \in NeededVideos(config) |-> getVideoBitstream(atlas.videos, v)] \in [NeededVideos(config) -> UnitSet]
      BY <2>6
    <3> QED BY <1>4, <2>3, <2>5, <2>7, <3>1 DEF DeliveredSet, d
  <2>9. /\ decoded' \in Seq(DeliveredSet) /\ Len(decoded') = g0 + 1
        /\ \A k \in 1 .. g0 : decoded'[k] = decoded[k]
        /\ decoded'[g0 + 1] = d
    <3>1. g0 = Len(decoded)
      BY DEF g0
    <3>2. /\ Append(decoded, d) \in Seq(DeliveredSet)
          /\ Len(Append(decoded, d)) = Len(decoded) + 1
          /\ \A k \in 1 .. Len(decoded) : Append(decoded, d)[k] = decoded[k]
          /\ Append(decoded, d)[Len(decoded) + 1] = d
      <4>1. decoded \in Seq(DeliveredSet) /\ d \in DeliveredSet
        BY <1>4, <2>8
      <4> HIDE DEF DeliveredSet
      <4> QED BY <4>1, AppendProperties
    <3> QED BY <2>1, <3>1, <3>2
  <2>10. DOMAIN decoded' = 1 .. g0 + 1 /\ DOMAIN decoded = 1 .. g0 /\ g0' = g0 + 1
    BY <1>4, <2>9 DEF g0
  <2>11. GroupsReassembled'
    <3>1. SUFFICES ASSUME NEW k \in 1 .. g0 + 1
                   PROVE  /\ decoded'[k].vps = k - 1
                          /\ Len(decoded'[k].ad) = 1 /\ decoded'[k].ad[1].gof = k - 1
                          /\ \A v \in NeededVideos(config) :
                               decoded'[k].video[v].gof = k - 1 /\ VideoType(decoded'[k].video[v], config) = v
      BY <1>1, <2>10 DEF GroupsReassembled
    <3>2. CASE k \in 1 .. g0
      BY <2>9, <2>10, <3>2 DEF IInv, DeliveredInv, GroupsReassembled
    <3>3. CASE k = g0 + 1
      BY <1>4, <2>2, <2>4, <2>5, <2>6, <2>9, <3>3 DEF d
    <3> QED BY <1>4, <3>2, <3>3
  <2>12. FrameNumbersAgree'
    <3>1. SUFFICES ASSUME NEW k \in 1 .. g0 + 1 PROVE decoded'[k].number = groups[k].start
      BY <1>1, <2>10 DEF FrameNumbersAgree
    <3>2. CASE k \in 1 .. g0
      BY <2>9, <2>10, <3>2 DEF IInv, DeliveredInv, FrameNumbersAgree
    <3>3. CASE k = g0 + 1
      BY <2>7, <2>9, <3>3 DEF d
    <3> QED BY <1>4, <3>2, <3>3
  <2>13. DeliveredInv'
    <3>1. frameNumber' = groups'[g0'].start + groups'[g0'].count /\ g0' # 0
      BY <1>1, <1>4, <2>1, <2>4, <2>7, <2>10 DEF NextFrameNumber
    <3>2. Len(decoded') <= Len(groups')
      BY <1>1, <2>4, <2>9
    <3> QED BY <1>1, <2>9, <2>11, <2>12, <3>1, <3>2 DEF DeliveredInv, DeliveredSet
  <2>14. DecoderInv'
    <3>1. /\ \A i \in 1 .. Len(ssvu) : OwnUnit(ssvu[i].gof, ssvu[i]) /\ ssvu[i].gof < Len(groups)
          /\ \A i \in 1 .. Len(ssvu) - 1 :
                ssvu[i + 1].gof = IF ssvu[i + 1].type = "VPS" THEN ssvu[i].gof + 1 ELSE ssvu[i].gof
          /\ Len(ssvu) > 0 => ssvu[Len(ssvu)].gof = Len(groups) - 1
      BY DEF IInv, StreamInv, StreamShape
    <3>2. ssvu[front].gof = g0
      BY <1>3 DEF StoreInv
    <3>3. CASE front < Len(ssvu)
      <4>1. front \in 1 .. Len(ssvu) - 1 /\ front + 1 \in 1 .. Len(ssvu)
        BY <1>3, <3>3
      <4>2. ssvu[front + 1].type = "VPS" /\ ssvu[front + 1].gof = g0 + 1 /\ g0 + 1 < Len(groups)
        BY <1>3, <3>1, <3>2, <3>3, <4>1
      <4>3. phase' = "group" /\ g0' < Len(groups') /\ Opens(front + 1, g0)'
        BY <1>1, <2>1, <2>10, <3>3, <4>1, <4>2 DEF Opens
      <4> QED BY <1>1, <1>3, <4>3 DEF DecoderInv
    <3>4. CASE ~ (front < Len(ssvu))
      <4>1. front = Len(ssvu) /\ g0 = Len(groups) - 1
        BY <1>3, <3>1, <3>2, <3>4
      <4>2. phase' = "done" /\ Len(decoded') = Len(groups')
        BY <1>1, <1>4, <2>1, <2>9, <3>4, <4>1
      <4> QED BY <1>1, <1>3, <4>2 DEF DecoderInv
    <3> QED BY <3>3, <3>4
  <2>15. phase' \in {"group", "done"}
    BY <2>1
  <2> QED BY <1>2, <2>13, <2>14, <2>15 DEF IInv
<1> QED BY <1>5, <1>6

-----------------------------------------------------------------------------
(***************************************************************************)
(* The theorems.                                                           *)
(***************************************************************************)
LEMMA StepInv == IInv /\ [Next]_vars => IInv'
<1> SUFFICES ASSUME IInv, [Next]_vars PROVE IInv'
  OBVIOUS
<1>1. CASE EncodeGroup BY <1>1, EncodeGroupInv
<1>2. CASE EncodeEmptyGroup BY <1>2, EncodeEmptyGroupInv
<1>3. CASE WriteStream BY <1>3, WriteStreamInv
<1>4. CASE StartGroup BY <1>4, StartGroupInv
<1>5. CASE DecodeUnit BY <1>5, DecodeUnitInv
<1>6. CASE EndOfStream BY <1>6, EndOfStreamInv
<1>7. CASE Rebuild BY <1>7, RebuildInv
<1>8. CASE UNCHANGED vars
  <2>1. UNCHANGED <<config, phase, start, end0, groups, ssvu, front, syntax, numVPS, decoded, frameNumber>>
    BY <1>8 DEF vars, encVars, decVars
  <2>2. GroupsInv' /\ StreamInv' /\ DeliveredInv'
    BY <2>1 DEF IInv, GroupsInv, StreamInv, DeliveredInv, GroupsReassembled, FrameNumbersAgree, g0
  <2>3. DecoderInv'
    BY <2>1 DEF IInv, DecoderInv, StoreInv, Opens, g0
  <2> QED BY <2>1, <2>2, <2>3 DEF IInv
<1> QED BY <1>1, <1>2, <1>3, <1>4, <1>5, <1>6, <1>7, <1>8 DEF Next

(* the strengthened invariant holds throughout *)
LEMMA Invariant == Spec => []IInv
<1> QED BY InitInv, StepInv, PTL DEF Spec

(* Every group reaches the reconstruction with its own parameter set, atlas*)
(* data and videos, for any number of groups, although the parameter set   *)
(* of the next group is parsed into the same store.                        *)
THEOREM GroupsAreReassembled == Spec => []GroupsReassembled
<1>1. IInv => GroupsReassembled
  BY DEF IInv, DeliveredInv
<1> QED BY <1>1, Invariant, PTL

(* A decoded frame carries the number the encoder read it under, also when *)
(* files are missing and a group is shorter than the others.               *)
THEOREM FrameNumbersAreThose == Spec => []FrameNumbersAgree
<1>1. IInv => FrameNumbersAgree
  BY DEF IInv, DeliveredInv
<1> QED BY <1>1, Invariant, PTL

-----------------------------------------------------------------------------
(***************************************************************************)
(* The two programs implement GroupDelivery.                               *)
(***************************************************************************)
(* What was delivered is a prefix of the groups that were coded: stated of *)
(* any values gs of groups, dec of decoded and of the mapping.             *)
LEMMA DeliveredPrefix ==
  ASSUME NEW gs \in Seq(GroupSet), NEW n \in Nat, n <= Len(gs), NEW dec, DOMAIN dec = 1 .. n,
         \A k \in 1 .. n : dec[k].vps = k - 1 /\ dec[k].number = gs[k].start
  PROVE  /\ [k \in DOMAIN dec |-> [start |-> dec[k].number, count |-> gs[dec[k].vps + 1].count]]
              = [k \in 1 .. n |-> gs[k]]
         /\ [k \in 1 .. n |-> gs[k]] \in Seq(GroupSet) /\ Len([k \in 1 .. n |-> gs[k]]) = n
<1>1. Len(gs) \in Nat
  OBVIOUS
<1>2. \A k \in 1 .. n :
        /\ gs[k] \in GroupSet
        /\ [start |-> dec[k].number, count |-> gs[dec[k].vps + 1].count] = gs[k]
  <2>1. SUFFICES ASSUME NEW k \in 1 .. n
                 PROVE  /\ gs[k] \in GroupSet
                        /\ [start |-> dec[k].number, count |-> gs[dec[k].vps + 1].count] = gs[k]
    OBVIOUS
  <2>2. gs[k] \in GroupSet
    BY <1>1
  <2>3. dec[k].vps + 1 = k /\ dec[k].number = gs[k].start
    OBVIOUS
  <2> QED BY <2>2, <2>3 DEF GroupSet
<1>3. [k \in DOMAIN dec |-> [start |-> dec[k].number, count |-> gs[dec[k].vps + 1].count]] = [k \in 1 .. n |-> gs[k]]
  BY <1>2
<1>4. [k \in 1 .. n |-> gs[k]] \in Seq(GroupSet) /\ Len([k \in 1 .. n |-> gs[k]]) = n
  BY <1>2
<1> QED BY <1>3, <1>4

(* Coding a group is the abstract step Code. *)
LEMMA CodeStep == ASSUME IInv, IInv', EncodeGroup PROVE Delivery!Code
<1>1. phase = "encode" /\ UNCHANGED decoded /\ config \in Configs
  BY DEF EncodeGroup, decVars, IInv
<1>2. PICK count \in LoadedCounts(MinOf(start + GofSize, end0)) :
        /\ count > 0 /\ start < end0
        /\ groups' = Append(groups, [start |-> start, count |-> count])
  BY DEF EncodeGroup
<1>3. groups \in Seq(GroupSet) /\ start \in Nat /\ end0 \in Nat /\ Len(groups) \in Nat
      /\ start = IF Len(groups) = 0 THEN 0 ELSE groups[Len(groups)].start + groups[Len(groups)].count
  BY DEF IInv, GroupsInv
<1>4. count \in 1 .. GofSize
  BY <1>1, <1>2, <1>3, LoadedCount
<1>5. start = Delivery!EndOf(groups)
  <2>1. groups = <<>> <=> Len(groups) = 0
    BY <1>3
  <2> QED BY <1>3, <2>1 DEF Delivery!EndOf
<1>6. decoded = <<>>
  BY <1>1 DEF IInv, DecoderInv
<1>7. DeliveredGroups = <<>> /\ DeliveredGroups' = <<>>
  <2>1. decoded' = <<>>
    BY <1>1, <1>6
  <2>2. DOMAIN decoded' = {} /\ DOMAIN decoded = {}
    BY <1>6, <2>1
  <2> QED BY <2>2 DEF DeliveredGroups
<1> QED BY <1>2, <1>4, <1>5, <1>7 DEF Delivery!Code

(* Rebuilding a group is the abstract step Deliver, giving up is none. *)
LEMMA DeliverStep == ASSUME IInv, IInv', Rebuild PROVE Delivery!Deliver \/ UNCHANGED Delivery!vars
<1>1. UNCHANGED groups
  BY DEF Rebuild, encVars
<1>2. CASE Rejected
  <2>1. UNCHANGED decoded
    BY <1>2 DEF Rebuild
  <2> QED BY <1>1, <2>1 DEF Delivery!vars, DeliveredGroups
<1>3. CASE ~ Rejected
  <2>1. g0 \in Nat /\ g0' = g0 + 1 /\ g0 < Len(groups) /\ groups \in Seq(GroupSet)
    <3>1. phase = "rebuild" /\ Len(decoded') = Len(decoded) + 1
      BY <1>3 DEF Rebuild, IInv, DeliveredInv
    <3> QED BY <3>1 DEF IInv, DecoderInv, GroupsInv, DeliveredInv, g0
  <2>2. /\ DeliveredGroups = [k \in 1 .. g0 |-> groups[k]]
        /\ DeliveredGroups \in Seq(GroupSet) /\ Len(DeliveredGroups) = g0
    <3>1. /\ g0 <= Len(groups) /\ DOMAIN decoded = 1 .. g0
          /\ \A k \in 1 .. g0 : decoded[k].vps = k - 1 /\ decoded[k].number = groups[k].start
      <4>1. decoded \in Seq(DeliveredSet) /\ GroupsReassembled /\ FrameNumbersAgree
        BY DEF IInv, DeliveredInv, DeliveredSet
      <4>2. DOMAIN decoded = 1 .. g0
        BY <2>1, <4>1 DEF g0
      <4>3. \A k \in 1 .. g0 : decoded[k].vps = k - 1
        BY <4>1, <4>2 DEF GroupsReassembled
      <4>4. \A k \in 1 .. g0 : decoded[k].number = groups[k].start
        BY <4>1, <4>2 DEF FrameNumbersAgree
      <4>5. g0 <= Len(groups)
        BY <2>1
      <4> QED BY <4>2, <4>3, <4>4, <4>5
    <3>2. g0 \in Nat /\ groups \in Seq(GroupSet)
      BY <2>1
    <3>3. [k \in DOMAIN decoded |-> [start |-> decoded[k].number, count |-> groups[decoded[k].vps + 1].count]]
            = [k \in 1 .. g0 |-> groups[k]]
      <4>1. groups \in Seq(GroupSet) /\ g0 \in Nat /\ g0 <= Len(groups) /\ DOMAIN decoded = 1 .. g0
        BY <3>1, <3>2
      <4>2. \A k \in 1 .. g0 : decoded[k].vps = k - 1 /\ decoded[k].number = groups[k].start
        BY <3>1
      <4> HIDE DEF g0
      <4> QED BY <4>1, <4>2, DeliveredPrefix, ZenonT(40)
    <3>4. [k \in 1 .. g0 |-> groups[k]] \in Seq(GroupSet) /\ Len([k \in 1 .. g0 |-> groups[k]]) = g0
      <4>1. \A k \in 1 .. g0 : groups[k] \in GroupSet
        BY <3>1, <3>2
      <4> QED BY <3>2, <4>1
    <3>5. DeliveredGroups = [k \in 1 .. g0 |-> groups[k]]
      BY <3>3 DEF DeliveredGroups
    <3> QED BY <3>4, <3>5
  <2>3. DeliveredGroups' = [k \in 1 .. g0 + 1 |-> groups[k]]
    <3>1. /\ g0 + 1 <= Len(groups) /\ DOMAIN decoded' = 1 .. g0 + 1
          /\ \A k \in 1 .. g0 + 1 : decoded'[k].vps = k - 1 /\ decoded'[k].number = groups[k].start
      <4>1. decoded' \in Seq(DeliveredSet') /\ GroupsReassembled' /\ FrameNumbersAgree'
        BY DEF IInv, DeliveredInv, DeliveredSet
      <4>2. DOMAIN decoded' = 1 .. g0 + 1
        BY <2>1, <4>1 DEF g0
      <4>3. \A k \in 1 .. g0 + 1 : decoded'[k].vps = k - 1
        BY <4>1, <4>2 DEF GroupsReassembled
      <4>4. \A k \in 1 .. g0 + 1 : decoded'[k].number = groups[k].start
        BY <1>1, <4>1, <4>2 DEF FrameNumbersAgree
      <4>5. g0 + 1 <= Len(groups)
        BY <2>1
      <4> QED BY <4>2, <4>3, <4>4, <4>5
    <3>2. g0 + 1 \in Nat /\ groups \in Seq(GroupSet)
      BY <2>1
    <3>3. [k \in DOMAIN decoded' |-> [start |-> decoded'[k].number, count |-> groups[decoded'[k].vps + 1].count]]
            = [k \in 1 .. g0 + 1 |-> groups[k]]
      BY <3>1, <3>2, DeliveredPrefix, ZenonT(60)
    <3> QED BY <1>1, <3>3 DEF DeliveredGroups
  <2>4. groups[g0 + 1] \in GroupSet
    BY <2>1
  <2>5. DeliveredGroups' = Append(DeliveredGroups, groups[g0 + 1])
    BY <2>1, <2>2, <2>3, <2>4
  <2> QED BY <1>1, <2>1, <2>2, <2>5 DEF Delivery!Deliver
<1> QED BY <1>2, <1>3

(* The initial states and the steps of the programs are those of           *)
(* GroupDelivery, or leave its variables alone.                            *)
THEOREM ProgramsDeliver == Spec => DeliverySpec
<1>1. Init => Delivery!Init
  BY DEF Init, Delivery!Init, DeliveredGroups
<1>2. IInv /\ IInv' /\ [Next]_vars => [Delivery!Next]_Delivery!vars
  <2> SUFFICES ASSUME IInv, IInv', [Next]_vars PROVE Delivery!Next \/ UNCHANGED Delivery!vars
    OBVIOUS
  <2>1. CASE EncodeGroup
    BY <2>1, CodeStep DEF Delivery!Next
  <2>2. CASE Rebuild
    BY <2>2, DeliverStep DEF Delivery!Next
  <2>3. CASE EncodeEmptyGroup \/ WriteStream \/ StartGroup \/ DecodeUnit \/ EndOfStream \/ UNCHANGED vars
    <3>1. UNCHANGED <<groups, decoded>>
      BY <2>3 DEF EncodeEmptyGroup, WriteStream, StartGroup, DecodeUnit, EndOfStream, vars, encVars, decVars
    <3> QED BY <3>1 DEF Delivery!vars, DeliveredGroups
  <2> QED BY <2>1, <2>2, <2>3 DEF Next
<1> QED BY <1>1, <1>2, Invariant, PTL DEF Spec, DeliverySpec, Delivery!Spec

-----------------------------------------------------------------------------
(***************************************************************************)
(* The videos of a group.                                                  *)
(***************************************************************************)
(* the videos of a type and a partition, and what tells them apart *)
PerPartition(c) == Streams(c) + (IF c.aux THEN 1 ELSE 0)

Which(k, c) == IF k <= Streams(c) THEN (IF Streams(c) > 1 THEN k - 1 ELSE AllMaps) ELSE Raw

(* the units of a group are told apart by what they are stored under, and  *)
(* every video the decoder asks for is one of them                         *)
VideosApart(U, c) ==
  /\ \A i, j \in 3 .. Len(U) : VideoType(U[i], c) = VideoType(U[j], c) => i = j
  /\ \A v \in NeededVideos(c) : \E i \in 3 .. Len(U) : VideoType(U[i], c) = v

LEMMA StreamsIs ==
  ASSUME NEW c \in Configs
  PROVE  /\ Streams(c) \in Nat \ {0} /\ PerPartition(c) \in {Streams(c), Streams(c) + 1} /\ c.parts \in Nat
         /\ c.aux \in BOOLEAN /\ c.multi \in BOOLEAN /\ c.maps \in Nat \ {0}
         /\ IF c.multi THEN Streams(c) = c.maps /\ c.maps > 1 ELSE Streams(c) = 1
         /\ PerPartition(c) = IF c.aux THEN Streams(c) + 1 ELSE Streams(c)
BY StreamsAssumption DEF Configs, Streams, PerPartition

(* what a video of the geometry or the attribute is stored under *)
LEMMA VideoUnitAt ==
  ASSUME NEW c \in Configs, NEW g, NEW sizes, NEW t \in {"GVD", "AVD"}, NEW p, NEW k \in 1 .. PerPartition(c)
  PROVE  VideoType(VideoUnits(g, t, p, c, sizes)[k], c) = <<t, Which(k, c), p>>
<1>1. Streams(c) \in Nat \ {0} /\ PerPartition(c) \in Nat
  BY StreamsIs
<1>2. VideoUnits(g, t, p, c, sizes)[k] =
        IF k <= Streams(c) THEN Unit(g, t, p, k - 1, FALSE, sizes) ELSE Unit(g, t, p, 0, TRUE, sizes)
  BY DEF VideoUnits, PerPartition
<1>3. t # "OVD"
  OBVIOUS
<1>4. CASE k <= Streams(c)
  BY <1>2, <1>3, <1>4 DEF VideoType, Unit, Which
<1>5. CASE ~(k <= Streams(c))
  BY <1>2, <1>3, <1>5 DEF VideoType, Unit, Which
<1> QED BY <1>4, <1>5

(* the place of every video in a group *)
LEMMA VideosAt ==
  ASSUME NEW g \in Nat, NEW c \in Configs, NEW sizes \in [UnitTypes -> Nat],
         NEW U, U = GofUnits(g, c, sizes), NEW m, m = PerPartition(c)
  PROVE  /\ Len(U) = 3 + m + c.parts * m
         /\ VideoType(U[3], c) = <<"OVD", AllMaps, 0>>
         /\ \A k \in 1 .. m : VideoType(U[3 + k], c) = <<"GVD", Which(k, c), 0>>
         /\ \A k \in 1 .. c.parts * m :
              VideoType(U[3 + m + k], c) = <<"AVD", Which(((k - 1) % m) + 1, c), (k - 1) \div m>>
<1> DEFINE h == <<Unit(g, "VPS", 0, 0, FALSE, sizes), Unit(g, "AD", 0, 0, FALSE, sizes),
                  Unit(g, "OVD", 0, 0, FALSE, sizes)>>
<1>1. m \in Nat \ {0} /\ c.parts \in Nat /\ c.parts * m \in Nat
  BY StreamsIs
<1>2. PICK H : H = h
  OBVIOUS
<1>3. PICK V : V = VideoUnits(g, "GVD", 0, c, sizes)
  OBVIOUS
<1>4. PICK A : A = AttributeUnits(g, c, sizes)
  OBVIOUS
<1>5. U = (H \o V) \o A
  BY <1>2, <1>3, <1>4 DEF GofUnits
<1>6. V \in Seq(UnitSet) /\ Len(V) = m
  <2>1. "GVD" \in {"GVD", "AVD"} /\ 0 \in Nat
    OBVIOUS
  <2>2. /\ VideoUnits(g, "GVD", 0, c, sizes) \in Seq(UnitSet)
        /\ Len(VideoUnits(g, "GVD", 0, c, sizes)) = Streams(c) + (IF c.aux THEN 1 ELSE 0)
    BY <2>1, VideoUnitsOwn
  <2> QED BY <1>3, <2>2 DEF PerPartition
<1>7. Len(VideoUnits(g, "AVD", 0, c, sizes)) = m
  <2>1. "AVD" \in {"GVD", "AVD"} /\ 0 \in Nat
    OBVIOUS
  <2> QED BY <2>1, VideoUnitsOwn DEF PerPartition
<1>8. A \in Seq(UnitSet)
  BY <1>4, AttributeUnitsOwn
<1>9. A = [k \in 1 .. c.parts * m |-> VideoUnits(g, "AVD", (k - 1) \div m, c, sizes)[((k - 1) % m) + 1]]
  BY <1>4, <1>7 DEF AttributeUnits
<1>10. Len(A) = c.parts * m
  BY <1>1, <1>8, <1>9
<1>11. H \in Seq(UnitSet) /\ Len(H) = 3 /\ H[3] = Unit(g, "OVD", 0, 0, FALSE, sizes)
  <2>1. g % VpsIds \in Nat
    BY IdAssumption
  <2>2. \A t \in {"VPS", "AD", "OVD"} : Unit(g, t, 0, 0, FALSE, sizes) \in UnitSet
    BY <2>1 DEF Unit, UnitSet, UnitTypes
  <2>3. h \in Seq(UnitSet) /\ Len(h) = 3
    <3> HIDE DEF h
    <3>1. /\ Unit(g, "VPS", 0, 0, FALSE, sizes) \in UnitSet /\ Unit(g, "AD", 0, 0, FALSE, sizes) \in UnitSet
          /\ Unit(g, "OVD", 0, 0, FALSE, sizes) \in UnitSet
      BY <2>2
    <3> QED BY <3>1, ThreeElements DEF h
  <2> QED BY <1>2, <2>3
<1>12. PICK W : W = H \o V
  OBVIOUS
<1>13. /\ W \in Seq(UnitSet) /\ Len(W) = 3 + m /\ W[3] = H[3]
       /\ \A i \in 4 .. 3 + m : W[i] = V[i - 3]
  <2>1. /\ W \in Seq(UnitSet) /\ Len(W) = Len(H) + Len(V)
        /\ \A i \in 1 .. Len(H) : W[i] = H[i]
        /\ \A i \in Len(H) + 1 .. Len(W) : i - Len(H) \in 1 .. Len(V) /\ W[i] = V[i - Len(H)]
    BY <1>6, <1>11, <1>12, ConcatElements
  <2>2. Len(W) = 3 + m /\ 3 \in 1 .. Len(H)
    BY <1>6, <1>11, <2>1
  <2>3. ASSUME NEW i \in 4 .. 3 + m PROVE W[i] = V[i - 3]
    <3>1. i \in Len(H) + 1 .. Len(W) /\ i - Len(H) = i - 3
      BY <1>1, <1>11, <2>2
    <3> QED BY <2>1, <3>1
  <2> QED BY <2>1, <2>2, <2>3
<1>14. /\ Len(U) = 3 + m + c.parts * m
       /\ \A i \in 1 .. 3 + m : U[i] = W[i]
       /\ \A i \in 4 + m .. 3 + m + c.parts * m : U[i] = A[i - (3 + m)]
  <2>1. /\ Len(U) = Len(W) + Len(A)
        /\ \A i \in 1 .. Len(W) : U[i] = W[i]
        /\ \A i \in Len(W) + 1 .. Len(U) : i - Len(W) \in 1 .. Len(A) /\ U[i] = A[i - Len(W)]
    BY <1>5, <1>8, <1>12, <1>13, ConcatElements
  <2> QED BY <1>1, <1>10, <1>13, <2>1
<1>15. VideoType(U[3], c) = <<"OVD", AllMaps, 0>>
  <2>1. U[3] = Unit(g, "OVD", 0, 0, FALSE, sizes)
    <3>1. 3 \in 1 .. 3 + m
      BY <1>1
    <3>2. U[3] = W[3]
      BY <1>14, <3>1
    <3> QED BY <1>11, <1>13, <3>2
  <2> QED BY <2>1 DEF VideoType, Unit
<1>16. ASSUME NEW k \in 1 .. m PROVE VideoType(U[3 + k], c) = <<"GVD", Which(k, c), 0>>
  <2>1. 3 + k \in 1 .. 3 + m /\ 3 + k \in 4 .. 3 + m /\ (3 + k) - 3 = k
    BY <1>1
  <2>2. U[3 + k] = V[k]
    BY <1>13, <1>14, <2>1
  <2> QED BY <1>3, <2>2, VideoUnitAt
<1>17. ASSUME NEW k \in 1 .. c.parts * m
       PROVE  VideoType(U[3 + m + k], c) = <<"AVD", Which(((k - 1) % m) + 1, c), (k - 1) \div m>>
  <2>1. 3 + m + k \in 4 + m .. 3 + m + c.parts * m /\ (3 + m + k) - (3 + m) = k
    BY <1>1
  <2>2. U[3 + m + k] = A[k]
    BY <1>14, <2>1
  <2>3. k - 1 \in Nat /\ ((k - 1) % m) + 1 \in 1 .. m
    BY <1>1
  <2>4. A[k] = VideoUnits(g, "AVD", (k - 1) \div m, c, sizes)[((k - 1) % m) + 1]
    BY <1>9
  <2>5. PICK p, j : p = (k - 1) \div m /\ j = ((k - 1) % m) + 1
    OBVIOUS
  <2>6. "AVD" \in {"GVD", "AVD"} /\ j \in 1 .. PerPartition(c)
    BY <2>3, <2>5
  <2>7. VideoType(VideoUnits(g, "AVD", p, c, sizes)[j], c) = <<"AVD", Which(j, c), p>>
    BY <2>6, VideoUnitAt
  <2> QED BY <2>2, <2>4, <2>5, <2>7
<1> QED BY <1>14, <1>15, <1>16, <1>17

(* no two videos of a partition are stored under the same type *)
LEMMA WhichApart ==
  ASSUME NEW c \in Configs, NEW k \in 1 .. PerPartition(c), NEW l \in 1 .. PerPartition(c),
         Which(k, c) = Which(l, c)
  PROVE  k = l
BY StreamsIs DEF Which, AllMaps, Raw

(* the videos of a partition are those the decoder asks for *)
LEMMA WhichNeeded ==
  ASSUME NEW c \in Configs,
         NEW x \in (IF c.multi THEN 0 .. c.maps - 1 ELSE {AllMaps}) \cup (IF c.aux THEN {Raw} ELSE {})
  PROVE  \E k \in 1 .. PerPartition(c) : Which(k, c) = x
<1>1. /\ Streams(c) \in Nat \ {0} /\ c.maps \in Nat \ {0} /\ c.aux \in BOOLEAN /\ c.multi \in BOOLEAN
      /\ IF c.multi THEN Streams(c) = c.maps /\ c.maps > 1 ELSE Streams(c) = 1
      /\ PerPartition(c) = IF c.aux THEN Streams(c) + 1 ELSE Streams(c)
  BY StreamsIs
<1>2. CASE c.multi /\ x \in 0 .. c.maps - 1
  <2>1. x + 1 \in 1 .. PerPartition(c) /\ x + 1 <= Streams(c) /\ Streams(c) > 1 /\ (x + 1) - 1 = x
    BY <1>1, <1>2
  <2> QED BY <2>1 DEF Which
<1>3. CASE ~c.multi /\ x = AllMaps
  <2>1. 1 \in 1 .. PerPartition(c) /\ 1 <= Streams(c) /\ ~(Streams(c) > 1)
    BY <1>1, <1>3
  <2> QED BY <1>3, <2>1 DEF Which
<1>4. CASE c.aux /\ x = Raw
  <2>1. Streams(c) + 1 \in 1 .. PerPartition(c) /\ ~(Streams(c) + 1 <= Streams(c))
    BY <1>1, <1>4
  <2> QED BY <1>4, <2>1 DEF Which
<1> QED BY <1>1, <1>2, <1>3, <1>4

(* The writer's videos and the reader's requests number the types alike.   *)
LEMMA GroupVideosApart ==
  ASSUME NEW g \in Nat, NEW c \in Configs, NEW sizes \in [UnitTypes -> Nat],
         NEW U, U = GofUnits(g, c, sizes)
  PROVE  VideosApart(U, c)
<1>1. PICK m \in Nat \ {0} : m = PerPartition(c)
  BY StreamsIs
<1>2. PICK n \in Nat : n = c.parts
  BY StreamsIs
<1>3. PICK nm \in Nat : nm = n * m
  OBVIOUS
<1>4. /\ Len(U) = 3 + m + nm
      /\ VideoType(U[3], c) = <<"OVD", AllMaps, 0>>
      /\ \A k \in 1 .. m : VideoType(U[3 + k], c) = <<"GVD", Which(k, c), 0>>
      /\ \A k \in 1 .. nm : VideoType(U[3 + m + k], c) = <<"AVD", Which(((k - 1) % m) + 1, c), (k - 1) \div m>>
  <2>1. /\ Len(U) = 3 + m + c.parts * m
        /\ VideoType(U[3], c) = <<"OVD", AllMaps, 0>>
        /\ \A k \in 1 .. m : VideoType(U[3 + k], c) = <<"GVD", Which(k, c), 0>>
        /\ \A k \in 1 .. c.parts * m :
             VideoType(U[3 + m + k], c) = <<"AVD", Which(((k - 1) % m) + 1, c), (k - 1) \div m>>
    BY <1>1, VideosAt
  <2>2. c.parts * m = nm
    BY <1>2, <1>3
  <2> QED BY <2>1, <2>2
<1>5. ASSUME NEW i \in 3 .. Len(U)
      PROVE  \/ i = 3
             \/ \E k \in 1 .. m : i = 3 + k
             \/ \E k \in 1 .. nm : i = 3 + m + k
  <2>1. CASE i \in 4 .. 3 + m
    <3>1. i - 3 \in 1 .. m /\ i = 3 + (i - 3)
      BY <2>1
    <3> QED BY <3>1
  <2>2. CASE i \in 4 + m .. Len(U)
    <3>1. i - (3 + m) \in 1 .. nm /\ i = 3 + m + (i - (3 + m))
      BY <1>4, <2>2
    <3> QED BY <3>1
  <2> QED BY <1>4, <2>1, <2>2
<1>6. ASSUME NEW k \in 1 .. nm, NEW l \in 1 .. nm,
             Which(((k - 1) % m) + 1, c) = Which(((l - 1) % m) + 1, c), (k - 1) \div m = (l - 1) \div m
      PROVE  k = l
  <2>1. k - 1 \in Nat /\ l - 1 \in Nat /\ ((k - 1) % m) + 1 \in 1 .. m /\ ((l - 1) % m) + 1 \in 1 .. m
    OBVIOUS
  <2>2. (k - 1) % m = (l - 1) % m
    BY <1>1, <1>6, <2>1, WhichApart
  <2>3. PICK q \in Nat, r \in Nat : /\ q = (k - 1) \div m /\ r = (k - 1) % m
                                    /\ k - 1 = m * q + r
    BY <2>1
  <2>4. PICK p \in Nat, s \in Nat : /\ p = (l - 1) \div m /\ s = (l - 1) % m
                                    /\ l - 1 = m * p + s
    BY <2>1
  <2> QED BY <1>6, <2>2, <2>3, <2>4
<1>7. ASSUME NEW i \in 3 .. Len(U), NEW j \in 3 .. Len(U), VideoType(U[i], c) = VideoType(U[j], c)
      PROVE  i = j
  <2>1. /\ VideoType(U[3], c)[1] = "OVD"
        /\ \A k \in 1 .. m : VideoType(U[3 + k], c)[1] = "GVD"
        /\ \A k \in 1 .. nm : VideoType(U[3 + m + k], c)[1] = "AVD"
    <3>1. \A k \in 1 .. nm : VideoType(U[3 + m + k], c)[1] = "AVD"
      <4>1. SUFFICES ASSUME NEW k \in 1 .. nm PROVE VideoType(U[3 + m + k], c)[1] = "AVD"
        OBVIOUS
      <4>2. PICK x, q : VideoType(U[3 + m + k], c) = <<"AVD", x, q>>
        BY <1>4
      <4> QED BY <4>2
    <3>2. \A k \in 1 .. m : VideoType(U[3 + k], c)[1] = "GVD"
      <4>1. SUFFICES ASSUME NEW k \in 1 .. m PROVE VideoType(U[3 + k], c)[1] = "GVD"
        OBVIOUS
      <4>2. PICK x : VideoType(U[3 + k], c) = <<"GVD", x, 0>>
        BY <1>4
      <4> QED BY <4>2
    <3>3. VideoType(U[3], c)[1] = "OVD"
      BY <1>4
    <3> QED BY <3>1, <3>2, <3>3
  <2>2. PICK t : t = VideoType(U[i], c)[1] /\ t = VideoType(U[j], c)[1]
    BY <1>7
  <2>3. CASE t = "OVD"
    <3>1. i = 3 /\ j = 3
      BY <1>5, <2>1, <2>2, <2>3
    <3> QED BY <3>1
  <2>4. CASE t = "GVD"
    <3>1. PICK k \in 1 .. m : i = 3 + k
      BY <1>5, <2>1, <2>2, <2>4
    <3>2. PICK l \in 1 .. m : j = 3 + l
      BY <1>5, <2>1, <2>2, <2>4
    <3>3. <<"GVD", Which(k, c), 0>> = <<"GVD", Which(l, c), 0>>
      BY <1>4, <1>7, <3>1, <3>2
    <3>4. Which(k, c) = Which(l, c)
      BY <3>3
    <3> QED BY <1>1, <3>1, <3>2, <3>4, WhichApart
  <2>5. CASE t = "AVD"
    <3>1. PICK k \in 1 .. nm : i = 3 + m + k
      BY <1>5, <2>1, <2>2, <2>5
    <3>2. PICK l \in 1 .. nm : j = 3 + m + l
      BY <1>5, <2>1, <2>2, <2>5
    <3>3. <<"AVD", Which(((k - 1) % m) + 1, c), (k - 1) \div m>> =
          <<"AVD", Which(((l - 1) % m) + 1, c), (l - 1) \div m>>
      BY <1>4, <1>7, <3>1, <3>2
    <3>4. Which(((k - 1) % m) + 1, c) = Which(((l - 1) % m) + 1, c) /\ (k - 1) \div m = (l - 1) \div m
      BY <3>3
    <3>5. k = l
      BY <1>6, <3>4
    <3> QED BY <3>1, <3>2, <3>5
  <2>6. t \in {"OVD", "GVD", "AVD"}
    BY <1>5, <2>1, <2>2
  <2> QED BY <2>3, <2>4, <2>5, <2>6
<1>8. ASSUME NEW v \in NeededVideos(c)
      PROVE  \E i \in 3 .. Len(U) : VideoType(U[i], c) = v
  <2> DEFINE X == (IF c.multi THEN 0 .. c.maps - 1 ELSE {AllMaps}) \cup (IF c.aux THEN {Raw} ELSE {})
  <2>1. v \in {<<"OVD", AllMaps, 0>>} \cup {"GVD"} \X X \X {0} \cup {"AVD"} \X X \X (0 .. n - 1)
    BY <1>2 DEF NeededVideos
  <2>2. \A x \in X : \E k \in 1 .. m : Which(k, c) = x
    BY <1>1, WhichNeeded
  <2> HIDE DEF X
  <2>3. CASE v = <<"OVD", AllMaps, 0>>
    <3>1. 3 \in 3 .. Len(U)
      BY <1>4
    <3> QED BY <1>4, <2>3, <3>1
  <2>4. CASE v \in {"GVD"} \X X \X {0}
    <3>1. PICK x \in X : v = <<"GVD", x, 0>>
      BY <2>4
    <3>2. PICK k \in 1 .. m : Which(k, c) = x
      BY <2>2
    <3>3. 3 + k \in 3 .. Len(U)
      BY <1>4
    <3> QED BY <1>4, <3>1, <3>2, <3>3
  <2>5. CASE v \in {"AVD"} \X X \X (0 .. n - 1)
    <3>1. PICK x \in X, p \in 0 .. n - 1 : v = <<"AVD", x, p>>
      BY <2>5
    <3>2. PICK k \in 1 .. m : Which(k, c) = x
      BY <2>2
    <3>3. PICK l \in Int : l = m * p + k
      OBVIOUS
    <3>4. l \in 1 .. nm
      <4>1. PICK mp \in Nat : mp = m * p
        OBVIOUS
      <4>2. nm >= mp + m
        <5>1. n > p /\ m * n = nm
          BY <1>3
        <5> QED BY <4>1, <5>1, Multiples
      <4> QED BY <3>3, <4>1, <4>2
    <3>5. (l - 1) \div m = p /\ ((l - 1) % m) + 1 = k
      <4>1. k - 1 \in 0 .. m - 1 /\ l - 1 = m * p + (k - 1) /\ p \in Nat
        BY <3>3
      <4>2. (m * p + (k - 1)) \div m = p /\ (m * p + (k - 1)) % m = k - 1
        BY <4>1, DivisionIs
      <4> QED BY <4>1, <4>2
    <3>6. VideoType(U[3 + m + l], c) = v
      BY <1>4, <3>1, <3>2, <3>4, <3>5
    <3>7. 3 + m + l \in 3 .. Len(U)
      BY <1>4, <3>4
    <3> QED BY <3>6, <3>7
  <2> QED BY <2>1, <2>3, <2>4, <2>5
<1> QED BY <1>7, <1>8 DEF VideosApart


-----------------------------------------------------------------------------
(***************************************************************************)
(* Statistics.                                                             *)
(***************************************************************************)
StatSet == [unit : [UnitTypes -> Nat], video : [VideoTypes -> Int]]

LEMMA CountedIn ==
  ASSUME NEW stat \in StatSet, NEW u \in UnitSet, NEW c, NEW n \in Int
  PROVE  Counted(stat, u, c, n) \in StatSet
<1>1. PICK un \in [UnitTypes -> Nat], vi \in [VideoTypes -> Int] : stat = [unit |-> un, video |-> vi]
  BY DEF StatSet
<1>2. u.type \in UnitTypes /\ u.size \in Nat
  BY DEF UnitSet
<1>3. [un EXCEPT ![u.type] = @ + u.size] \in [UnitTypes -> Nat]
  BY <1>2
<1>4. \A v : [vi EXCEPT ![v] = @ + n] \in [VideoTypes -> Int]
  <2>1. SUFFICES ASSUME NEW v PROVE [vi EXCEPT ![v] = @ + n] \in [VideoTypes -> Int]
    OBVIOUS
  <2>2. CASE v \in VideoTypes
    <3>1. vi[v] + n \in Int
      BY <2>2
    <3> QED BY <3>1
  <2>3. CASE v \notin VideoTypes
    <3>1. [vi EXCEPT ![v] = @ + n] = vi
      BY <2>3
    <3> QED BY <3>1
  <2> QED BY <2>2, <2>3
<1>5. PICK f \in [UnitTypes -> Nat] : f = [un EXCEPT ![u.type] = @ + u.size]
  BY <1>3
<1>6. PICK h \in [VideoTypes -> Int] : h = IF IsVideo(u) THEN [vi EXCEPT ![VideoType(u, c)] = @ + n] ELSE vi
  BY <1>4
<1>7. Counted(stat, u, c, n) = [unit |-> f, video |-> h]
  BY <1>1, <1>5, <1>6 DEF Counted
<1> QED BY <1>7 DEF StatSet

(* p holds what the encoder has counted after each of the units *)
Counts(p, U, c) ==
  /\ p \in [0 .. Len(U) -> StatSet] /\ p[0] = newGOF
  /\ \A n \in 1 .. Len(U) : p[n] = Counted(p[n - 1], U[n], c, U[n].size - HeaderSize)
  /\ StatOf(U, c) = p[Len(U)]

LEMMA NewStat == newGOF \in StatSet
BY DEF newGOF, StatSet

(* the encoder's statistics are counted unit by unit *)
LEMMA StatSteps ==
  ASSUME NEW U \in Seq(UnitSet), NEW c
  PROVE  \E p : Counts(p, U, c)
<1>1. PICK n \in Nat : n = Len(U)
  OBVIOUS
<1> DEFINE After(k, d) == Counted(d, U[k], c, U[k].size - HeaderSize)
           step == [k \in 1 .. n |-> [d \in StatSet |-> After(k, d)]]
<1>2. ASSUME NEW k \in 1 .. n, NEW d \in StatSet PROVE After(k, d) \in StatSet
  <2>1. U[k] \in UnitSet
    BY <1>1
  <2>2. U[k].size - HeaderSize \in Int
    BY <2>1 DEF UnitSet, HeaderSize
  <2> QED BY <2>1, <2>2, CountedIn
<1>3. \A k \in 1 .. n, d \in StatSet : step[k][d] = After(k, d)
  <2> HIDE DEF After, StatSet
  <2> QED OBVIOUS
<1> HIDE DEF step, After
<1>4. StepsIn(step, 1 .. n, StatSet)
  BY <1>2, <1>3 DEF StepsIn
<1>5. PICK p : Recursion(p, 0, n, StatSet, newGOF, step)
  BY <1>4, NewStat, PrefixRecursion
<1>6. /\ p \in [0 .. n -> StatSet]
      /\ \A k \in 0 .. n : p[k] = IF k = 0 THEN newGOF ELSE After(k, p[k - 1])
  <2>1. ASSUME NEW k \in 0 .. n, k # 0 PROVE k \in 1 .. n /\ p[k - 1] \in StatSet
    BY <2>1, <1>5 DEF Recursion
  <2> QED BY <1>3, <1>5, <2>1 DEF Recursion
<1>7. p = [k \in 0 .. Len(U) |->
             IF k = 0 THEN newGOF ELSE Counted(p[k - 1], U[k], c, U[k].size - HeaderSize)]
  BY <1>1, <1>6 DEF After
<1>8. PICK q : /\ q = [k \in 0 .. Len(U) |->
                         IF k = 0 THEN newGOF ELSE Counted(q[k - 1], U[k], c, U[k].size - HeaderSize)]
               /\ StatOf(U, c) = q[Len(U)]
  BY <1>7 DEF StatOf
<1>9. q[0] = newGOF /\ \A k \in 1 .. n : q[k] = After(k, q[k - 1])
  BY <1>1, <1>8 DEF After
<1> DEFINE T == {k \in 0 .. n : q[k] \in StatSet}
<1>10. 0 \in T
  BY <1>9, NewStat
<1>11. \A k \in 1 .. n : k - 1 \in T => k \in T
  BY <1>2, <1>9
<1>12. \A k \in 0 .. n : q[k] \in StatSet
  <2>1. \A k \in 0 .. n : k \in T
    <3> HIDE DEF T
    <3> QED BY <1>10, <1>11, PrefixInduction
  <2> QED BY <2>1
<1>13. q \in [0 .. n -> StatSet]
  <2>1. q = [k \in 0 .. n |-> q[k]]
    BY <1>1, <1>8
  <2> HIDE DEF StatSet
  <2> QED BY <1>12, <2>1
<1> QED BY <1>1, <1>8, <1>9, <1>13 DEF Counts, After


(* taking the look-ahead out of the count again restores it *)
LEMMA LookAheadUndone ==
  ASSUME NEW stat \in StatSet, NEW u \in UnitSet, u.type = "VPS", NEW c, NEW n
  PROVE  LookAheadStat(Counted(stat, u, c, n), u) = stat
<1>1. PICK un \in [UnitTypes -> Nat], vi \in [VideoTypes -> Int] : stat = [unit |-> un, video |-> vi]
  BY DEF StatSet
<1>2. u.size \in Nat /\ "VPS" \in UnitTypes /\ ~ IsVideo(u)
  BY DEF UnitSet, UnitTypes, IsVideo
<1>3. PICK x \in Nat : x = un["VPS"]
  BY <1>2
<1>4. PICK f \in [UnitTypes -> Nat] : f = [un EXCEPT !["VPS"] = x + u.size]
  <2>1. x + u.size \in Nat
    BY <1>2
  <2>2. [un EXCEPT !["VPS"] = x + u.size] \in [UnitTypes -> Nat]
    BY <1>2, <2>1
  <2> QED BY <2>2
<1>5. f["VPS"] = x + u.size
  BY <1>2, <1>4
<1>6. Counted(stat, u, c, n) = [unit |-> f, video |-> vi]
  BY <1>1, <1>2, <1>3, <1>4 DEF Counted
<1>7. [f EXCEPT !["VPS"] = x] = un
  BY <1>2, <1>3, <1>4
<1>8. LookAheadStat(Counted(stat, u, c, n), u) = [unit |-> [f EXCEPT !["VPS"] = f["VPS"] - u.size], video |-> vi]
  BY <1>6 DEF LookAheadStat
<1>9. f["VPS"] - u.size = x
  BY <1>2, <1>5
<1> QED BY <1>1, <1>7, <1>8, <1>9

(* what a unit adds besides its own size is looked at for a video only *)
LEMMA CountedUnits ==
  ASSUME NEW stat, NEW u, ~ IsVideo(u), NEW c, NEW m, NEW n
  PROVE  Counted(stat, u, c, m) = Counted(stat, u, c, n)
BY DEF Counted

-----------------------------------------------------------------------------
(***************************************************************************)
(* A group in the stream, and how far it is read.                          *)
(***************************************************************************)
(* the units U stand in the stream us after its first a units, and nothing *)
(* of the same group follows them                                          *)
Placed(us, a, U) ==
  /\ a \in Nat /\ a + Len(U) <= Len(us)
  /\ \A i \in 1 .. Len(U) : us[a + i] = U[i]
  /\ a + Len(U) < Len(us) => us[a + Len(U) + 1].type = "VPS"

GroupUnits(g, c, U) == \E sizes \in SizeChoices : U = GofUnits(g, c, sizes)

(* U are the units of group g, and p are the counts that ended in st *)
Reading(us, c, st, g, U, a, p) ==
  Placed(us, a, U) /\ GroupUnits(g, c, U) /\ Counts(p, U, c) /\ st = p[Len(U)]

(* the videos among the first n units are in the store, in their order *)
Stored(vs, U, n) ==
  /\ Len(vs) = IF n <= 2 THEN 0 ELSE n - 2
  /\ \A j \in 1 .. Len(vs) : vs[j] = U[j + 2]

(* the first n units are read and counted *)
ReadTo(vs, f, d, U, a, p, n) ==
  n \in 1 .. Len(U) /\ f = a + n /\ Stored(vs, U, n) /\ d = p[n]

GroupAt(us, c, st, g) == \E U, a, p : Reading(us, c, st, g, U, a, p)

PartRead(us, c, st, g, vs, f, d) ==
  \E U, a, p, n : Reading(us, c, st, g, U, a, p) /\ ReadTo(vs, f, d, U, a, p, n)

AllRead(us, c, st, g, vs, f, d) ==
  \E U, a, p : Reading(us, c, st, g, U, a, p) /\ ReadTo(vs, f, d, U, a, p, Len(U))

(* the units of a group: their types and what tells its videos apart *)
LEMMA GroupUnitsShape ==
  ASSUME NEW g \in Nat, NEW c \in Configs, NEW U, GroupUnits(g, c, U)
  PROVE  /\ U \in Seq(UnitSet) /\ Len(U) \in Nat /\ Len(U) >= 3
         /\ \A i \in 1 .. Len(U) : /\ U[i] \in UnitSet /\ U[i].gof = g
                                   /\ U[i].type = "VPS" <=> i = 1
                                   /\ U[i].type = "AD" <=> i = 2
                                   /\ IsVideo(U[i]) <=> i >= 3
         /\ VideosApart(U, c)
<1>1. PICK sizes \in SizeChoices : U = GofUnits(g, c, sizes)
  BY DEF GroupUnits
<1>2. sizes \in [UnitTypes -> Nat]
  BY SizeAssumption
<1>3. /\ U \in Seq(UnitSet) /\ Len(U) >= 3 /\ U[1].type = "VPS" /\ U[2].type = "AD"
      /\ \A i \in 1 .. Len(U) : OwnUnit(g, U[i])
      /\ \A i \in 3 .. Len(U) : OwnVideo(g, U[i])
  BY <1>1, <1>2, GofUnitsShape
<1>4. VideosApart(U, c)
  BY <1>1, <1>2, GroupVideosApart
<1>5. Len(U) \in Nat
  BY <1>3
<1>6. ASSUME NEW i \in 1 .. Len(U)
      PROVE  /\ U[i] \in UnitSet /\ U[i].gof = g
             /\ U[i].type = "VPS" <=> i = 1
             /\ U[i].type = "AD" <=> i = 2
             /\ IsVideo(U[i]) <=> i >= 3
  <2>1. U[i] \in UnitSet /\ U[i].gof = g /\ U[i].type \in UnitTypes
    BY <1>3 DEF OwnUnit, UnitSet
  <2>2. CASE i \in 3 .. Len(U)
    <3>1. U[i].type \notin {"VPS", "AD"}
      BY <1>3, <2>2 DEF OwnVideo
    <3> QED BY <2>1, <2>2, <3>1 DEF IsVideo, UnitTypes
  <2>3. CASE i = 1
    BY <1>3, <2>1, <2>3 DEF IsVideo
  <2>4. CASE i = 2
    BY <1>3, <2>1, <2>4 DEF IsVideo
  <2> QED BY <1>5, <2>2, <2>3, <2>4
<1> QED BY <1>3, <1>4, <1>5, <1>6

(* The lookup by type finds the video that was just stored, as no other of *)
(* the group has its type (getVideoBitstream).                             *)
LEMMA JustStored ==
  ASSUME NEW U \in Seq(UnitSet), NEW n \in 3 .. Len(U), NEW vs \in Seq(UnitSet),
         Stored(vs, U, n), VideosApart(U, config)
  PROVE  getVideoBitstream(vs, VideoType(U[n], config)) = U[n]
<1> DEFINE v == VideoType(U[n], config)
<1>1. Len(U) \in Nat /\ n \in Nat /\ Len(vs) = n - 2 /\ \A j \in 1 .. n - 2 : vs[j] = U[j + 2]
  BY DEF Stored
<1>2. n - 2 \in 1 .. Len(vs) /\ vs[n - 2] = U[n]
  <2>1. n - 2 \in 1 .. n - 2 /\ (n - 2) + 2 = n
    OBVIOUS
  <2> QED BY <1>1, <2>1
<1>3. Entries(vs, v) # {}
  <2>1. n - 2 \in DOMAIN vs
    BY <1>2
  <2> QED BY <1>2, <2>1 DEF Entries
<1> HIDE DEF v
<1>4. PICK i \in 1 .. Len(vs) : getVideoBitstream(vs, v) = vs[i] /\ VideoType(vs[i], config) = v
  BY <1>3, FirstVideo
<1>5. i + 2 \in 3 .. Len(U) /\ vs[i] = U[i + 2]
  BY <1>1
<1>6. i + 2 = n
  BY <1>4, <1>5 DEF VideosApart, v
<1> QED BY <1>4, <1>5, <1>6 DEF v


(* a unit belongs to the group of the one before it or begins the next *)
LEMMA UnitGroups ==
  ASSUME NEW m, NEW us, StreamShape(us, m)
  PROVE  /\ Len(us) \in Nat
         /\ \A k \in 1 .. Len(us) : us[k].gof \in Nat
         /\ \A k \in 1 .. Len(us) - 1 : us[k + 1].gof = us[k].gof \/ us[k + 1].gof = us[k].gof + 1
         /\ \A k \in 1 .. Len(us) - 1 : us[k + 1].type = "VPS" => us[k + 1].gof = us[k].gof + 1
<1>1. us \in Seq(UnitSet)
  BY DEF StreamShape
<1>2. \A u \in UnitSet : u.gof \in Nat
  BY DEF UnitSet
<1>3. Len(us) \in Nat /\ \A k \in 1 .. Len(us) : us[k] \in UnitSet
  BY <1>1
<1> QED BY <1>2, <1>3 DEF StreamShape

(* The groups follow each other in the stream, *)
LEMMA GroupsAscend ==
  ASSUME NEW m, NEW us, StreamShape(us, m), NEW i \in 1 .. Len(us), NEW j \in i .. Len(us)
  PROVE  us[i].gof <= us[j].gof
<1>1. /\ Len(us) \in Nat
      /\ \A k \in 1 .. Len(us) : us[k].gof \in Nat
      /\ \A k \in 1 .. Len(us) - 1 : us[k + 1].gof = us[k].gof \/ us[k + 1].gof = us[k].gof + 1
  BY UnitGroups
<1>2. PICK n \in Nat : n = Len(us) - i
  <2>1. Len(us) - i \in Nat
    BY <1>1
  <2> QED BY <2>1
<1> DEFINE T == {d \in 0 .. n : us[i].gof <= us[i + d].gof}
<1>3. 0 \in T
  BY <1>1
<1>4. ASSUME NEW d \in 1 .. n, d - 1 \in T PROVE d \in T
  <2>1. PICK e : e = i + (d - 1) /\ e \in 1 .. Len(us) - 1 /\ e \in 1 .. Len(us)
                 /\ e + 1 = i + d /\ e + 1 \in 1 .. Len(us)
    BY <1>1, <1>2
  <2>2. us[i].gof <= us[e].gof
    BY <1>4, <2>1
  <2>3. us[i].gof <= us[e + 1].gof
    <3>1. us[i].gof \in Nat /\ us[e].gof \in Nat /\ (us[e + 1].gof = us[e].gof \/ us[e + 1].gof = us[e].gof + 1)
      BY <1>1, <2>1
    <3> QED BY <2>2, <3>1
  <2> QED BY <2>1, <2>3
<1>5. \A d \in 0 .. n : d \in T
  <2> HIDE DEF T
  <2> QED BY <1>3, <1>4, PrefixInduction
<1>6. j - i \in 0 .. n /\ i + (j - i) = j
  BY <1>1, <1>2
<1>7. j - i \in T
  BY <1>5, <1>6
<1> QED BY <1>6, <1>7

(* each with one parameter set. *)
LEMMA OneParameterSet ==
  ASSUME NEW m, NEW us, StreamShape(us, m), NEW i \in 1 .. Len(us), NEW j \in 1 .. Len(us),
         us[i].type = "VPS", us[j].type = "VPS", us[i].gof = us[j].gof
  PROVE  i = j
<1>1. /\ Len(us) \in Nat
      /\ \A k \in 1 .. Len(us) : us[k].gof \in Nat
      /\ \A k \in 1 .. Len(us) - 1 : us[k + 1].type = "VPS" => us[k + 1].gof = us[k].gof + 1
  BY UnitGroups
<1>2. ASSUME NEW k \in 1 .. Len(us), NEW l \in 1 .. Len(us), us[l].type = "VPS", us[k].gof = us[l].gof, k < l
      PROVE  FALSE
  <2>1. PICK e : e = l - 1 /\ e + 1 = l /\ e \in 1 .. Len(us) - 1 /\ e \in k .. Len(us) /\ e \in 1 .. Len(us)
    BY <1>1, <1>2
  <2>2. us[k].gof <= us[e].gof
    BY <2>1, GroupsAscend
  <2>3. us[l].gof = us[e].gof + 1
    BY <1>1, <1>2, <2>1
  <2>4. us[k].gof \in Nat /\ us[e].gof \in Nat
    BY <1>1, <2>1
  <2> QED BY <1>2, <2>2, <2>3, <2>4
<1> QED BY <1>1, <1>2

(* A group of the stream is not disturbed by the groups appended to it. *)
LEMMA StillPlaced ==
  ASSUME NEW us \in Seq(UnitSet), NEW V \in Seq(UnitSet), Len(V) >= 3, V[1].type = "VPS",
         NEW U \in Seq(UnitSet), NEW a, Placed(us, a, U), NEW w, w = us \o V
  PROVE  Placed(w, a, U)
<1>1. Len(us) \in Nat /\ Len(V) \in Nat /\ Len(U) \in Nat /\ a \in Nat /\ a + Len(U) <= Len(us)
  BY DEF Placed
<1>2. /\ Len(w) = Len(us) + Len(V)
      /\ \A i \in 1 .. Len(us) : w[i] = us[i]
      /\ \A i \in Len(us) + 1 .. Len(w) : i - Len(us) \in 1 .. Len(V) /\ w[i] = V[i - Len(us)]
  BY ConcatElements
<1>3. w[Len(us) + 1].type = "VPS"
  <2>1. Len(us) + 1 \in Len(us) + 1 .. Len(w) /\ (Len(us) + 1) - Len(us) = 1
    BY <1>1, <1>2
  <2>2. w[Len(us) + 1] = V[1]
    BY <1>2, <2>1
  <2> QED BY <2>2
<1>4. ASSUME NEW i \in 1 .. Len(U) PROVE w[a + i] = U[i]
  <2>1. a + i \in 1 .. Len(us)
    BY <1>1
  <2> QED BY <1>2, <2>1 DEF Placed
<1>5. w[a + Len(U) + 1].type = "VPS"
  <2>1. CASE a + Len(U) = Len(us)
    BY <1>3, <2>1
  <2>2. CASE a + Len(U) < Len(us)
    <3>1. a + Len(U) + 1 \in 1 .. Len(us)
      BY <1>1, <2>2
    <3>2. w[a + Len(U) + 1] = us[a + Len(U) + 1]
      BY <1>2, <3>1
    <3> QED BY <2>2, <3>2 DEF Placed
  <2> QED BY <1>1, <2>1, <2>2
<1> QED BY <1>1, <1>2, <1>4, <1>5 DEF Placed

(* Appended units are in their place. *)
LEMMA NewlyPlaced ==
  ASSUME NEW us \in Seq(UnitSet), NEW U \in Seq(UnitSet), NEW w, w = us \o U
  PROVE  Placed(w, Len(us), U)
<1>1. Len(us) \in Nat /\ Len(U) \in Nat
  OBVIOUS
<1>2. /\ Len(w) = Len(us) + Len(U)
      /\ \A i \in Len(us) + 1 .. Len(w) : i - Len(us) \in 1 .. Len(U) /\ w[i] = U[i - Len(us)]
  BY ConcatElements
<1>3. ASSUME NEW i \in 1 .. Len(U) PROVE w[Len(us) + i] = U[i]
  <2>1. Len(us) + i \in Len(us) + 1 .. Len(w) /\ (Len(us) + i) - Len(us) = i
    BY <1>1, <1>2
  <2> QED BY <1>2, <2>1
<1> QED BY <1>1, <1>2, <1>3 DEF Placed

-----------------------------------------------------------------------------
(***************************************************************************)
(* The statistics keep up with the reading.                                *)
(***************************************************************************)
(* every coded group stands in the stream with what was counted for it *)
UnitsInv ==
  /\ encStat \in Seq(StatSet) /\ Len(encStat) = Len(groups)
  /\ \A g \in 0 .. Len(groups) - 1 : GroupAt(ssvu, config, encStat[g + 1], g)

(* the store's videos, and the counts of the group being read *)
Videos == syntax.hls[1].videos
Count0 == decStat[g0 + 1]

(* Between two units the decoder has counted exactly the units it stored, as *)
(* the encoder did; it never gives a group up.                               *)
StatInv ==
  /\ phase # "exited"
  /\ decStat \in Seq(StatSet)
  /\ Len(decStat) = IF phase \in {"units", "rebuild"} THEN g0 + 1 ELSE g0
  /\ StatisticsAgree
  /\ phase = "units" /\ numVPS = 0 => Count0 = newGOF
  /\ phase = "units" /\ numVPS # 0 => PartRead(ssvu, config, encStat[g0 + 1], g0, Videos, front, Count0)
  /\ phase = "rebuild" => AllRead(ssvu, config, encStat[g0 + 1], g0, Videos, front, Count0)

CountInv == UnitsInv /\ StatInv

LEMMA InitCount == Init => CountInv
<1> SUFFICES ASSUME Init PROVE CountInv
  OBVIOUS
<1>1. UnitsInv
  BY DEF Init, UnitsInv
<1>2. StatInv
  BY DEF Init, StatInv, StatisticsAgree, g0
<1> QED BY <1>1, <1>2 DEF CountInv

(* a group is coded *)
LEMMA EncodeGroupCount == ASSUME IInv, CountInv, EncodeGroup PROVE CountInv'
<1>1. PICK count \in LoadedCounts(MinOf(start + GofSize, end0)), sizes \in SizeChoices :
        /\ groups' = Append(groups, [start |-> start, count |-> count])
        /\ ssvu' = ssvu \o GofUnits(Len(groups), config, sizes)
        /\ encStat' = Append(encStat, StatOf(GofUnits(Len(groups), config, sizes), config))
  BY DEF EncodeGroup
<1>2. phase = "encode" /\ UNCHANGED <<config, phase, decVars>>
  BY DEF EncodeGroup
<1>3. PICK g \in Nat : g = Len(groups)
  BY DEF IInv, GroupsInv
<1>4. PICK U : U = GofUnits(g, config, sizes)
  OBVIOUS
<1>5. GroupUnits(g, config, U) /\ config \in Configs
  BY <1>4 DEF GroupUnits, IInv
<1>6. U \in Seq(UnitSet) /\ Len(U) >= 3 /\ U[1].type = "VPS" /\ Len(U) \in Nat
  <2>1. U \in Seq(UnitSet) /\ Len(U) \in Nat /\ Len(U) >= 3 /\ \A i \in 1 .. Len(U) : U[i].type = "VPS" <=> i = 1
    BY <1>5, GroupUnitsShape
  <2> QED BY <2>1
<1>7. ssvu \in Seq(UnitSet) /\ ssvu' = ssvu \o U
  BY <1>1, <1>3, <1>4 DEF IInv, StreamInv, StreamShape
<1>8. PICK p : Counts(p, U, config)
  BY <1>6, StatSteps
<1>9. PICK x : x = StatOf(U, config) /\ x = p[Len(U)] /\ x \in StatSet
  <2>1. p[Len(U)] \in StatSet /\ StatOf(U, config) = p[Len(U)]
    BY <1>6, <1>8 DEF Counts
  <2> QED BY <2>1
<1>10. encStat \in Seq(StatSet) /\ Len(encStat) = g /\ encStat' = Append(encStat, x)
       /\ \A k \in 0 .. g - 1 : GroupAt(ssvu, config, encStat[k + 1], k)
  BY <1>1, <1>3, <1>4, <1>9 DEF CountInv, UnitsInv
<1>11. encStat' \in Seq(StatSet) /\ Len(encStat') = g + 1 /\ encStat'[g + 1] = x
       /\ \A k \in 1 .. g : encStat'[k] = encStat[k]
  BY <1>9, <1>10, AppendProperties
<1>12. Len(groups') = g + 1
  <2>1. groups \in Seq(GroupSet)
    BY DEF IInv, GroupsInv
  <2> QED BY <1>1, <1>3, <2>1
<1>13. GroupAt(ssvu', config, encStat'[g + 1], g)
  <2>1. Placed(ssvu', Len(ssvu), U)
    BY <1>6, <1>7, NewlyPlaced
  <2> QED BY <1>5, <1>8, <1>9, <1>11, <2>1 DEF GroupAt, Reading
<1>14. ASSUME NEW k \in 0 .. g - 1 PROVE GroupAt(ssvu', config, encStat'[k + 1], k)
  <2>1. PICK V, a, q : Reading(ssvu, config, encStat[k + 1], k, V, a, q)
    BY <1>10 DEF GroupAt
  <2>2. V \in Seq(UnitSet)
    BY <1>5, <2>1, GroupUnitsShape DEF Reading
  <2>3. Placed(ssvu', a, V)
    BY <1>6, <1>7, <2>1, <2>2, StillPlaced DEF Reading
  <2>4. encStat'[k + 1] = encStat[k + 1]
    BY <1>11
  <2> QED BY <2>1, <2>3, <2>4 DEF GroupAt, Reading
<1>15. UnitsInv'
  <2>1. ASSUME NEW k \in 0 .. (g + 1) - 1 PROVE GroupAt(ssvu', config, encStat'[k + 1], k)
    <3>1. k = g \/ k \in 0 .. g - 1
      OBVIOUS
    <3> QED BY <1>13, <1>14, <3>1
  <2> QED BY <1>2, <1>11, <1>12, <2>1 DEF UnitsInv
<1>16. StatInv'
  <2>1. decoded = <<>> /\ UNCHANGED <<decStat, decoded, phase>>
    BY <1>2 DEF decVars, IInv, DecoderInv
  <2>2. StatisticsAgree'
    BY <2>1 DEF StatisticsAgree
  <2> QED BY <1>2, <2>1, <2>2 DEF CountInv, StatInv, g0
<1> QED BY <1>15, <1>16 DEF CountInv

(* the end of the encoder, and the beginning of the decoder *)
LEMMA OtherCount ==
  ASSUME IInv, CountInv, EncodeEmptyGroup \/ WriteStream \/ UNCHANGED vars
  PROVE  CountInv'
<1>1. UNCHANGED <<encVars, decVars>>
  BY DEF EncodeEmptyGroup, WriteStream, vars
<1>2. UNCHANGED <<config, groups, ssvu, encStat, front, syntax, numVPS, decStat, decoded>>
  BY <1>1 DEF encVars, decVars
<1>3. UnitsInv'
  BY <1>2 DEF CountInv, UnitsInv
<1>4. StatisticsAgree'
  BY <1>2 DEF CountInv, StatInv, StatisticsAgree
<1>5. UNCHANGED <<Count0, Videos, g0>>
  BY <1>2 DEF Count0, Videos, g0
<1>6. phase' # "exited" /\ Len(decStat') = IF phase' \in {"units", "rebuild"} THEN g0' + 1 ELSE g0'
  BY <1>2, <1>5 DEF CountInv, StatInv, EncodeEmptyGroup, WriteStream, vars
<1>7. phase' \in {"units", "rebuild"} => phase = phase'
  BY DEF EncodeEmptyGroup, WriteStream, vars
<1>8. phase' = "units" /\ numVPS' = 0 => Count0' = newGOF
  BY <1>2, <1>5, <1>7 DEF CountInv, StatInv
<1>9. PICK st, d, vs, g : st = encStat[g0 + 1] /\ d = Count0 /\ vs = Videos /\ g = g0
  OBVIOUS
<1>10. phase' = "units" /\ numVPS' # 0 => PartRead(ssvu, config, st, g, vs, front, d)
  BY <1>2, <1>7, <1>9 DEF CountInv, StatInv
<1>11. phase' = "rebuild" => AllRead(ssvu, config, st, g, vs, front, d)
  BY <1>7, <1>9 DEF CountInv, StatInv
<1>12. st = encStat'[g0' + 1] /\ d = Count0' /\ vs = Videos' /\ g = g0'
  BY <1>2, <1>5, <1>9
<1>13. decStat' \in Seq(StatSet)
  BY <1>2 DEF CountInv, StatInv
<1>14. StatInv'
  BY <1>2, <1>4, <1>6, <1>8, <1>10, <1>11, <1>12, <1>13 DEF StatInv
<1> QED BY <1>3, <1>14 DEF CountInv

(* a new context, with empty counts *)
LEMMA StartGroupCount == ASSUME IInv, CountInv, StartGroup PROVE CountInv'
<1>1. /\ phase = "group" /\ phase' = "units" /\ numVPS' = 0 /\ decStat' = Append(decStat, newGOF)
      /\ UNCHANGED <<config, groups, ssvu, encStat, decoded>>
  BY DEF StartGroup, encVars
<1>2. UnitsInv'
  BY <1>1 DEF CountInv, UnitsInv
<1>3. PICK g \in Nat : g = g0
  BY DEF IInv, DeliveredInv, g0
<1>4. decStat \in Seq(StatSet) /\ Len(decStat) = g
  BY <1>1, <1>3 DEF CountInv, StatInv
<1>5. decStat' \in Seq(StatSet) /\ Len(decStat') = g + 1 /\ decStat'[g + 1] = newGOF
      /\ \A k \in 1 .. g : decStat'[k] = decStat[k]
  BY <1>1, <1>4, NewStat, AppendProperties
<1>6. StatisticsAgree'
  <2>1. DOMAIN decoded = 1 .. g
    BY <1>3 DEF IInv, DeliveredInv, g0
  <2> QED BY <1>1, <1>5, <2>1 DEF CountInv, StatInv, StatisticsAgree
<1>7. g0' = g
  BY <1>1, <1>3 DEF g0
<1>8. Count0' = newGOF
  BY <1>5, <1>7 DEF Count0
<1> QED BY <1>1, <1>2, <1>5, <1>6, <1>7, <1>8 DEF CountInv, StatInv


(* the counts of a group change, those of the groups before it do not *)
LEMMA CurrentCount ==
  ASSUME IInv, StatInv, phase = "units", NEW x \in StatSet, CurrentStat(x), UNCHANGED <<decoded, encStat>>
  PROVE  /\ decStat' \in Seq(StatSet) /\ Len(decStat') = g0' + 1
         /\ g0' = g0 /\ Count0' = x /\ StatisticsAgree'
<1>1. PICK g \in Nat : g = g0 /\ DOMAIN decoded = 1 .. g
  BY DEF IInv, DeliveredInv, g0
<1>2. decStat \in Seq(StatSet) /\ Len(decStat) = g + 1
  BY <1>1 DEF StatInv
<1>3. decStat' = [decStat EXCEPT ![g + 1] = x]
  BY <1>2 DEF CurrentStat
<1>4. g + 1 \in 1 .. Len(decStat)
  BY <1>2
<1>5. decStat' \in Seq(StatSet) /\ Len(decStat') = g + 1 /\ decStat'[g + 1] = x
      /\ \A k \in 1 .. g : decStat'[k] = decStat[k]
  <2> HIDE DEF StatSet
  <2> QED BY <1>2, <1>3, <1>4
<1>6. g0' = g
  BY <1>1 DEF g0
<1>7. StatisticsAgree'
  BY <1>1, <1>5 DEF StatInv, StatisticsAgree
<1> QED BY <1>1, <1>5, <1>6, <1>7 DEF Count0

(* the next video is stored behind the others *)
LEMMA StoredNext ==
  ASSUME NEW U \in Seq(UnitSet), NEW vs \in Seq(UnitSet), NEW n \in 2 .. Len(U) - 1, Stored(vs, U, n),
         NEW u \in UnitSet, u = U[n + 1]
  PROVE  Append(vs, u) \in Seq(UnitSet) /\ Stored(Append(vs, u), U, n + 1)
<1>1. Len(vs) = n - 2 /\ n \in Nat /\ \A j \in 1 .. n - 2 : vs[j] = U[j + 2]
  BY DEF Stored
<1>2. PICK w \in Seq(UnitSet) : /\ w = Append(vs, u) /\ Len(w) = n - 1 /\ w[n - 1] = u
                                /\ \A j \in 1 .. n - 2 : w[j] = vs[j]
  <2>1. (n - 2) + 1 = n - 1
    BY <1>1
  <2>2. /\ Append(vs, u) \in Seq(UnitSet) /\ Len(Append(vs, u)) = Len(vs) + 1
        /\ \A j \in 1 .. Len(vs) : Append(vs, u)[j] = vs[j]
        /\ Append(vs, u)[Len(vs) + 1] = u
    BY AppendProperties
  <2> QED BY <1>1, <2>1, <2>2
<1>3. ASSUME NEW j \in 1 .. n - 1 PROVE w[j] = U[j + 2]
  <2>1. CASE j = n - 1
    <3>1. j + 2 = n + 1
      BY <1>1, <2>1
    <3> QED BY <1>2, <2>1, <3>1
  <2>2. CASE j # n - 1
    <3>1. j \in 1 .. n - 2
      BY <1>1, <2>2
    <3> QED BY <1>1, <1>2, <3>1
  <2> QED BY <2>1, <2>2
<1>4. Len(w) = IF n + 1 <= 2 THEN 0 ELSE (n + 1) - 2
  BY <1>1, <1>2
<1> QED BY <1>2, <1>3, <1>4 DEF Stored

(* The first unit of a group is counted. *)
LEMMA FirstUnitCount == ASSUME IInv, CountInv, DecodeUnit, numVPS = 0 PROVE StatInv'
<1>1. PICK u : u = ssvu[front + 1]
  OBVIOUS
<1>2. PICK g \in Nat : g = g0 /\ g < Len(groups)
  BY DEF IInv, DecoderInv, DeliveredInv, DecodeUnit, g0
<1>3. /\ phase = "units" /\ front < Len(ssvu) /\ front \in Nat /\ syntax \in StoreSet
      /\ Opens(front + 1, g) /\ syntax = [vps |-> <<>>, active |-> 0, hls |-> <<>>]
  BY <1>2 DEF IInv, DecoderInv, DecodeUnit
<1>4. StreamShape(ssvu, Len(groups)) /\ front + 1 \in 1 .. Len(ssvu) /\ u \in UnitSet /\ Len(ssvu) \in Nat
  <2>1. StreamShape(ssvu, Len(groups)) /\ ssvu \in Seq(UnitSet)
    BY DEF IInv, StreamInv, StreamShape
  <2>2. front + 1 \in 1 .. Len(ssvu) /\ Len(ssvu) \in Nat
    BY <1>3, <2>1
  <2> QED BY <1>1, <2>1, <2>2
<1>5. u.type = "VPS" /\ u.gof = g /\ ~ IsVideo(u)
  BY <1>1, <1>3 DEF Opens, IsVideo
<1>6. PICK bytes : CurrentStat(Counted(decStat[Len(decStat)], u, config, bytes))
  BY <1>1, <1>5 DEF DecodeUnit, EndsGroup
<1>7. /\ phase' = "units" /\ front' = front + 1 /\ numVPS' = 1 /\ syntax' = Parsed(syntax, u)
      /\ UNCHANGED <<config, groups, ssvu, encStat, decoded>>
  BY <1>1, <1>5 DEF DecodeUnit, EndsGroup, encVars
<1>8. PICK U, a, p : Reading(ssvu, config, encStat[g + 1], g, U, a, p)
  <2>1. g \in 0 .. Len(groups) - 1
    BY <1>2 DEF IInv, GroupsInv
  <2> QED BY <2>1 DEF CountInv, UnitsInv, GroupAt
<1>9. /\ U \in Seq(UnitSet) /\ Len(U) \in Nat /\ Len(U) >= 3
      /\ U[1].type = "VPS" /\ U[1].gof = g
  <2>1. GroupUnits(g, config, U) /\ config \in Configs
    BY <1>8 DEF Reading, IInv
  <2>2. /\ U \in Seq(UnitSet) /\ Len(U) \in Nat /\ Len(U) >= 3
        /\ \A i \in 1 .. Len(U) : U[i].gof = g /\ (U[i].type = "VPS" <=> i = 1)
    BY <2>1, GroupUnitsShape
  <2>3. 1 \in 1 .. Len(U)
    BY <2>2
  <2> QED BY <2>2, <2>3
<1>10. a = front /\ U[1] = u
  <2>1. a \in Nat /\ a + Len(U) <= Len(ssvu) /\ ssvu[a + 1] = U[1]
    BY <1>8, <1>9 DEF Reading, Placed
  <2>2. a + 1 \in 1 .. Len(ssvu)
    BY <1>4, <1>9, <2>1
  <2>3. a + 1 = front + 1
    BY <1>1, <1>4, <1>5, <1>9, <2>1, <2>2, OneParameterSet
  <2> QED BY <1>1, <1>3, <2>1, <2>3
<1>11. PICK x \in StatSet : x = p[1] /\ CurrentStat(x)
  <2>1. /\ p[1] \in StatSet /\ p[0] = newGOF /\ 1 - 1 = 0
        /\ p[1] = Counted(p[1 - 1], U[1], config, U[1].size - HeaderSize)
    <3>1. 1 \in 1 .. Len(U)
      BY <1>9
    <3> QED BY <1>8, <3>1 DEF Reading, Counts
  <2>2. decStat[Len(decStat)] = newGOF
    BY <1>2, <1>3 DEF CountInv, StatInv, Count0
  <2>3. Counted(decStat[Len(decStat)], u, config, bytes) = p[1]
    BY <1>5, <1>10, <2>1, <2>2, CountedUnits
  <2> QED BY <1>6, <2>1, <2>3
<1>12. /\ decStat' \in Seq(StatSet) /\ Len(decStat') = g0' + 1
       /\ g0' = g0 /\ Count0' = x /\ StatisticsAgree'
  BY <1>3, <1>7, <1>11, CurrentCount DEF CountInv
<1>13. Videos' = <<>>
  <2>1. Len(syntax.hls) = 0
    BY <1>3
  <2>2. Parsed(syntax, u).hls[1] = [ad |-> <<>>, videos |-> <<>>]
    BY <1>3, <1>4, <1>5, <2>1, ParsedVps
  <2> QED BY <1>7, <2>2 DEF Videos
<1>14. ReadTo(<<>>, front', x, U, a, p, 1)
  BY <1>3, <1>7, <1>9, <1>10, <1>11 DEF ReadTo, Stored
<1>15. PartRead(ssvu, config, encStat[g + 1], g, <<>>, front', x)
  BY <1>8, <1>14 DEF PartRead
<1>16. PartRead(ssvu', config', encStat'[g0' + 1], g0', Videos', front', Count0')
  BY <1>2, <1>7, <1>12, <1>13, <1>15
<1> QED BY <1>7, <1>12, <1>16 DEF StatInv


(* Every other unit of the group is counted as the encoder did, and the    *)
(* parameter set of the next group not at all.                             *)
LEMMA NextUnitCount == ASSUME IInv, CountInv, DecodeUnit, numVPS # 0 PROVE StatInv'
<1>1. PICK u : u = ssvu[front + 1]
  OBVIOUS
<1>2. PICK g \in Nat : g = g0 /\ g < Len(groups)
  BY DEF IInv, DecoderInv, DeliveredInv, DecodeUnit, g0
<1>3. /\ phase = "units" /\ front < Len(ssvu) /\ front \in Nat /\ syntax \in StoreSet
      /\ StoreInv /\ numVPS = 1
  BY DEF IInv, DecoderInv, DecodeUnit
<1>4. u \in UnitSet
  <2>1. ssvu \in Seq(UnitSet)
    BY DEF IInv, StreamInv, StreamShape
  <2>2. front + 1 \in 1 .. Len(ssvu)
    BY <1>3, <2>1
  <2> QED BY <1>1, <2>1, <2>2
<1>5. PICK s \in StoreSet : /\ s = Parsed(syntax, u) /\ syntax' = s /\ Videos' = s.hls[1].videos
  <2>1. Len(syntax.hls) = 1
    BY <1>3 DEF StoreInv
  <2>2. Parsed(syntax, u) \in StoreSet
    BY <1>3, <1>4, <2>1, ParsedVps, ParsedData
  <2> QED BY <1>1, <2>2 DEF DecodeUnit, Videos
<1>6. PICK U, a, p, n : /\ Reading(ssvu, config, encStat[g + 1], g, U, a, p)
                        /\ ReadTo(Videos, front, Count0, U, a, p, n)
  BY <1>2, <1>3 DEF CountInv, StatInv, PartRead
<1>7. /\ U \in Seq(UnitSet) /\ Len(U) \in Nat /\ Len(U) >= 3 /\ n \in 1 .. Len(U) /\ n \in Nat
      /\ \A i \in 1 .. Len(U) : /\ U[i] \in UnitSet
                                /\ U[i].type = "VPS" <=> i = 1
                                /\ U[i].type = "AD" <=> i = 2
                                /\ IsVideo(U[i]) <=> i >= 3
      /\ VideosApart(U, config)
  <2>1. GroupUnits(g, config, U) /\ config \in Configs /\ n \in 1 .. Len(U)
    BY <1>6 DEF Reading, ReadTo, IInv
  <2> QED BY <2>1, GroupUnitsShape
<1>8. /\ a \in Nat /\ front = a + n /\ a + Len(U) <= Len(ssvu)
      /\ \A i \in 1 .. Len(U) : ssvu[a + i] = U[i]
      /\ a + Len(U) < Len(ssvu) => ssvu[a + Len(U) + 1].type = "VPS"
  BY <1>6 DEF Reading, ReadTo, Placed
<1>9. PICK d \in StatSet : d = decStat[Len(decStat)] /\ d = Count0 /\ d = p[n]
  <2>1. p[n] \in StatSet
    BY <1>6, <1>7 DEF Reading, Counts
  <2>2. Len(decStat) = g0 + 1
    BY <1>3 DEF CountInv, StatInv
  <2> QED BY <1>6, <2>1, <2>2 DEF Count0, ReadTo
<1>10. UNCHANGED <<config, groups, ssvu, encStat, decoded>>
  BY DEF DecodeUnit, encVars
<1>11. PICK vs \in Seq(UnitSet) : vs = Videos /\ Stored(vs, U, n)
  <2>1. Len(syntax.hls) = 1 /\ syntax.hls \in Seq(AtlasSet)
    BY <1>3 DEF StoreInv, StoreSet
  <2>2. syntax.hls[1] \in AtlasSet
    BY <2>1
  <2>3. Videos \in Seq(UnitSet)
    BY <2>2 DEF AtlasSet, Videos
  <2> QED BY <1>6, <2>3 DEF ReadTo
<1>12. CASE u.type = "VPS"
  <2>1. n = Len(U)
    <3>1. SUFFICES ASSUME n # Len(U) PROVE FALSE
      OBVIOUS
    <3>2. n + 1 \in 1 .. Len(U) /\ front + 1 = a + (n + 1) /\ n + 1 # 1
      BY <1>7, <1>8, <3>1
    <3>3. u = U[n + 1]
      BY <1>1, <1>8, <3>2
    <3> QED BY <1>7, <1>12, <3>2, <3>3
  <2>2. EndsGroup(u, numVPS + 1)
    BY <1>3, <1>12 DEF EndsGroup
  <2>3. phase' = "rebuild" /\ front' = front
    BY <1>1, <1>12, <2>2 DEF DecodeUnit
  <2>4. CurrentStat(LookAheadStat(Counted(d, u, config, VideoBytes(Parsed(syntax, u), u)), u))
    BY <1>1, <1>9, <1>12, <2>2 DEF DecodeUnit
  <2>5. CurrentStat(d)
    <3>1. PICK m : m = VideoBytes(Parsed(syntax, u), u)
      OBVIOUS
    <3>2. LookAheadStat(Counted(d, u, config, m), u) = d
      BY <1>4, <1>12, LookAheadUndone
    <3> QED BY <2>4, <3>1, <3>2
  <2>6. /\ decStat' \in Seq(StatSet) /\ Len(decStat') = g0' + 1
        /\ g0' = g0 /\ Count0' = d /\ StatisticsAgree'
    BY <1>3, <1>9, <1>10, <2>5, CurrentCount DEF CountInv
  <2>7. Videos' = vs
    <3>1. Len(syntax.hls) = 1 /\ Len(syntax.hls) # 0
      BY <1>3 DEF StoreInv
    <3>2. s.hls[1] = syntax.hls[1]
      BY <1>3, <1>4, <1>5, <1>12, <3>1, ParsedVps
    <3> QED BY <1>5, <1>11, <3>2 DEF Videos
  <2>8. ReadTo(vs, front, d, U, a, p, Len(U))
    BY <1>7, <1>8, <1>9, <1>11, <2>1 DEF ReadTo
  <2>9. AllRead(ssvu, config, encStat[g + 1], g, vs, front, d)
    BY <1>6, <2>8 DEF AllRead
  <2>10. AllRead(ssvu', config', encStat'[g0' + 1], g0', Videos', front', Count0')
    BY <1>2, <1>10, <2>3, <2>6, <2>7, <2>9
  <2> QED BY <2>3, <2>6, <2>10 DEF StatInv
<1>13. CASE u.type # "VPS"
  <2>1. PICK k \in Nat : /\ k = n + 1 /\ k \in 2 .. Len(U) /\ k \in 1 .. Len(U) /\ k - 1 = n
                         /\ front + 1 = a + k /\ u = U[k]
    <3>1. n # Len(U)
      BY <1>1, <1>3, <1>8, <1>13
    <3>2. n + 1 \in 2 .. Len(U) /\ n + 1 \in Nat /\ (n + 1) - 1 = n /\ front + 1 = a + (n + 1)
      BY <1>7, <1>8, <3>1
    <3>3. u = U[n + 1]
      BY <1>1, <1>8, <3>2
    <3> QED BY <1>7, <3>2, <3>3
  <2>2. ~ EndsGroup(u, numVPS)
    BY <1>13 DEF EndsGroup
  <2>3. phase' = "units" /\ front' = front + 1 /\ numVPS' = 1
    BY <1>1, <1>3, <1>13, <2>2 DEF DecodeUnit
  <2>4. PICK m : m = VideoBytes(s, u) /\ CurrentStat(Counted(d, u, config, m))
    BY <1>1, <1>5, <1>9, <1>13, <2>2 DEF DecodeUnit
  <2>5. p[k] \in StatSet /\ p[k] = Counted(d, u, config, u.size - HeaderSize)
    BY <1>6, <1>9, <2>1 DEF Reading, Counts
  <2>6. s.hls[1].videos = IF u.type = "AD" THEN vs ELSE Append(vs, u)
    <3>1. Len(syntax.hls) = 1
      BY <1>3 DEF StoreInv
    <3>2. s.hls[1] = IF u.type = "AD" THEN [ad |-> Append(syntax.hls[1].ad, u), videos |-> syntax.hls[1].videos]
                     ELSE [ad |-> syntax.hls[1].ad, videos |-> Append(syntax.hls[1].videos, u)]
      BY <1>3, <1>4, <1>5, <1>13, <3>1, ParsedData
    <3> QED BY <1>11, <3>2 DEF Videos
  <2>7. PICK ws : /\ ws = s.hls[1].videos /\ Stored(ws, U, k)
                  /\ Counted(d, u, config, m) = p[k]
    <3>1. CASE u.type = "AD"
      <4>1. k = 2 /\ n = 1 /\ ~ IsVideo(u)
        BY <1>7, <2>1, <3>1
      <4>2. Stored(vs, U, k)
        BY <1>11, <4>1 DEF Stored
      <4>3. Counted(d, u, config, m) = p[k]
        BY <2>5, <4>1, CountedUnits
      <4> QED BY <2>6, <3>1, <4>2, <4>3
    <3>2. CASE u.type # "AD"
      <4>1. k \in 3 .. Len(U) /\ n \in 2 .. Len(U) - 1 /\ IsVideo(u)
        <5>1. k # 2
          BY <1>7, <2>1, <3>2
        <5>2. k >= 3
          BY <2>1, <5>1
        <5> QED BY <1>7, <2>1, <5>2
      <4>2. Append(vs, u) \in Seq(UnitSet) /\ Stored(Append(vs, u), U, k)
        BY <1>4, <1>7, <1>11, <2>1, <4>1, StoredNext
      <4>3. PICK ws \in Seq(UnitSet) : ws = Append(vs, u) /\ ws = s.hls[1].videos
        BY <2>6, <3>2, <4>2
      <4>4. getVideoBitstream(ws, VideoType(U[k], config)) = U[k]
        BY <1>7, <4>1, <4>2, <4>3, JustStored
      <4>5. m = u.size - HeaderSize
        BY <2>1, <2>4, <4>1, <4>3, <4>4 DEF VideoBytes
      <4> QED BY <2>5, <4>2, <4>3, <4>5
    <3> QED BY <3>1, <3>2
  <2>8. PICK x \in StatSet : x = p[k] /\ CurrentStat(x)
    BY <2>4, <2>5, <2>7
  <2>9. /\ decStat' \in Seq(StatSet) /\ Len(decStat') = g0' + 1
        /\ g0' = g0 /\ Count0' = x /\ StatisticsAgree'
    BY <1>3, <1>10, <2>8, CurrentCount DEF CountInv
  <2>10. ReadTo(ws, front + 1, x, U, a, p, k)
    BY <2>1, <2>7, <2>8 DEF ReadTo
  <2>11. PartRead(ssvu, config, encStat[g + 1], g, ws, front + 1, x)
    BY <1>6, <2>10 DEF PartRead
  <2>12. PartRead(ssvu', config', encStat'[g0' + 1], g0', Videos', front', Count0')
    BY <1>2, <1>5, <1>10, <2>3, <2>7, <2>9, <2>11
  <2> QED BY <2>3, <2>9, <2>12 DEF StatInv
<1> QED BY <1>12, <1>13

LEMMA DecodeUnitCount == ASSUME IInv, CountInv, DecodeUnit PROVE CountInv'
<1>1. UNCHANGED <<config, groups, ssvu, encStat>>
  BY DEF DecodeUnit, encVars
<1>2. UnitsInv'
  BY <1>1 DEF CountInv, UnitsInv
<1>3. StatInv'
  BY FirstUnitCount, NextUnitCount
<1> QED BY <1>2, <1>3 DEF CountInv

(* at the end of the list the last group is read *)
LEMMA EndOfStreamCount == ASSUME IInv, CountInv, EndOfStream PROVE CountInv'
<1>1. /\ phase = "units" /\ phase' = "rebuild" /\ front = Len(ssvu)
      /\ UNCHANGED <<config, groups, ssvu, encStat, front, syntax, numVPS, decStat, decoded>>
  BY DEF EndOfStream, encVars, decVars
<1>2. UnitsInv'
  BY <1>1 DEF CountInv, UnitsInv
<1>3. numVPS # 0
  BY <1>1 DEF IInv, DecoderInv, Opens, StreamInv, StreamShape
<1>4. PICK st, g, vs, d : st = encStat[g0 + 1] /\ g = g0 /\ vs = Videos /\ d = Count0
  OBVIOUS
<1>5. PICK U, a, p, n : Reading(ssvu, config, st, g, U, a, p) /\ ReadTo(vs, front, d, U, a, p, n)
  BY <1>1, <1>3, <1>4 DEF CountInv, StatInv, PartRead
<1>6. n = Len(U)
  <2>1. a \in Nat /\ front = a + n /\ a + Len(U) <= Len(ssvu) /\ n \in 1 .. Len(U)
    BY <1>5 DEF Reading, ReadTo, Placed
  <2>2. GroupUnits(g, config, U) /\ config \in Configs /\ g \in Nat
    BY <1>4, <1>5 DEF Reading, IInv, DeliveredInv, g0
  <2>3. Len(U) \in Nat
    BY <2>2, GroupUnitsShape
  <2> QED BY <1>1, <2>1, <2>3
<1>7. AllRead(ssvu, config, st, g, vs, front, d)
  BY <1>5, <1>6 DEF AllRead
<1>8. st = encStat'[g0' + 1] /\ g = g0' /\ vs = Videos' /\ d = Count0'
  BY <1>1, <1>4 DEF g0, Videos, Count0
<1>9. StatisticsAgree'
  BY <1>1 DEF CountInv, StatInv, StatisticsAgree
<1>10. Len(decStat') = g0' + 1 /\ decStat' \in Seq(StatSet)
  BY <1>1 DEF CountInv, StatInv, g0
<1> QED BY <1>1, <1>2, <1>7, <1>8, <1>9, <1>10 DEF CountInv, StatInv

(* In a group that is read completely every video is found under one entry *)
(* of the store.                                                           *)
LEMMA OneEntryEach ==
  ASSUME IInv, CountInv, phase = "rebuild", NEW v \in NeededVideos(config)
  PROVE  \E i \in DOMAIN syntax.hls[1].videos : Entries(syntax.hls[1].videos, v) = {i}
<1>1. PICK vs : vs = Videos
  OBVIOUS
<1>2. PICK U, a, p : Reading(ssvu, config, encStat[g0 + 1], g0, U, a, p) /\ ReadTo(vs, front, Count0, U, a, p, Len(U))
  BY <1>1 DEF CountInv, StatInv, AllRead
<1>3. Len(U) \in Nat /\ Len(U) >= 3 /\ VideosApart(U, config)
  <2>1. GroupUnits(g0, config, U) /\ config \in Configs /\ g0 \in Nat
    BY <1>2 DEF Reading, IInv, DeliveredInv, g0
  <2> QED BY <2>1, GroupUnitsShape
<1>4. Len(vs) = Len(U) - 2 /\ \A j \in 1 .. Len(U) - 2 : vs[j] = U[j + 2]
  BY <1>2, <1>3 DEF ReadTo, Stored
<1>5. DOMAIN vs = 1 .. Len(U) - 2
  <2>1. syntax.hls \in Seq(AtlasSet) /\ Len(syntax.hls) = 1
    BY DEF IInv, DecoderInv, StoreInv, StoreSet
  <2>2. syntax.hls[1] \in AtlasSet
    BY <2>1
  <2>3. vs \in Seq(UnitSet)
    BY <1>1, <2>2 DEF AtlasSet, Videos
  <2> QED BY <1>4, <2>3
<1>6. PICK l \in 3 .. Len(U) : VideoType(U[l], config) = v
  BY <1>3 DEF VideosApart
<1>7. PICK i \in 1 .. Len(U) - 2 : i + 2 = l
  <2>1. l - 2 \in 1 .. Len(U) - 2 /\ (l - 2) + 2 = l
    BY <1>3
  <2> QED BY <2>1
<1>8. ASSUME NEW j \in 1 .. Len(U) - 2, VideoType(vs[j], config) = v PROVE j = i
  <2>1. j + 2 \in 3 .. Len(U) /\ VideoType(U[j + 2], config) = VideoType(U[l], config)
    BY <1>3, <1>4, <1>6, <1>8
  <2>2. j + 2 = l
    BY <1>3, <2>1 DEF VideosApart
  <2> QED BY <1>7, <2>2
<1>9. VideoType(vs[i], config) = v
  BY <1>4, <1>6, <1>7
<1>10. Entries(vs, v) = {i}
  BY <1>5, <1>8, <1>9 DEF Entries
<1> QED BY <1>1, <1>5, <1>10 DEF Videos

(* the group is delivered, with the counts of the encoder *)
LEMMA RebuildCount == ASSUME IInv, IInv', CountInv, Rebuild PROVE CountInv'
<1>1. phase = "rebuild" /\ UNCHANGED <<config, groups, ssvu, encStat, front, syntax, numVPS, decStat>>
  BY DEF Rebuild, encVars
<1>2. UnitsInv'
  BY <1>1 DEF CountInv, UnitsInv
<1>3. ~ Rejected
  <2>1. Len(syntax.hls) = 1
    BY <1>1 DEF IInv, DecoderInv, StoreInv
  <2>2. ASSUME NEW v \in NeededVideos(config) PROVE Entries(syntax.hls[1].videos, v) # {}
    <3>1. PICK i : Entries(syntax.hls[1].videos, v) = {i}
      BY <1>1, OneEntryEach
    <3> QED BY <3>1
  <2> QED BY <2>1, <2>2 DEF Rejected
<1>4. PICK d : decoded' = Append(decoded, d)
  BY <1>3 DEF Rebuild
<1>5. phase' \in {"group", "done"}
  BY <1>3 DEF Rebuild
<1>6. PICK g \in Nat : /\ g = g0 /\ DOMAIN decoded = 1 .. g
                       /\ g0' = g + 1 /\ DOMAIN decoded' = 1 .. g + 1
  <2>1. decoded \in Seq(DeliveredSet) /\ decoded' \in Seq(DeliveredSet')
    BY DEF IInv, DeliveredInv, DeliveredSet
  <2>2. Len(decoded') = Len(decoded) + 1
    BY <1>4, <2>1
  <2> QED BY <2>1, <2>2 DEF g0
<1>7. decStat[g + 1] = encStat[g + 1]
  <2>1. PICK U, a, p : /\ Reading(ssvu, config, encStat[g + 1], g, U, a, p)
                       /\ ReadTo(Videos, front, Count0, U, a, p, Len(U))
    BY <1>1, <1>6 DEF CountInv, StatInv, AllRead
  <2> QED BY <1>6, <2>1 DEF Reading, ReadTo, Count0
<1>8. StatisticsAgree'
  <2>1. ASSUME NEW k \in 1 .. g + 1 PROVE decStat[k] = encStat[k]
    <3>1. k \in 1 .. g \/ k = g + 1
      OBVIOUS
    <3> QED BY <1>6, <1>7, <3>1 DEF CountInv, StatInv, StatisticsAgree
  <2> QED BY <1>1, <1>6, <2>1 DEF StatisticsAgree
<1>9. decStat' \in Seq(StatSet) /\ Len(decStat') = g + 1
  BY <1>1, <1>6 DEF CountInv, StatInv
<1> QED BY <1>2, <1>5, <1>6, <1>8, <1>9 DEF CountInv, StatInv

LEMMA StepCount == IInv /\ IInv' /\ CountInv /\ [Next]_vars => CountInv'
<1> SUFFICES ASSUME IInv, IInv', CountInv, [Next]_vars PROVE CountInv'
  OBVIOUS
<1>1. CASE EncodeGroup BY <1>1, EncodeGroupCount
<1>2. CASE EncodeEmptyGroup BY <1>2, OtherCount
<1>3. CASE WriteStream BY <1>3, OtherCount
<1>4. CASE StartGroup BY <1>4, StartGroupCount
<1>5. CASE DecodeUnit BY <1>5, DecodeUnitCount
<1>6. CASE EndOfStream BY <1>6, EndOfStreamCount
<1>7. CASE Rebuild BY <1>7, RebuildCount
<1>8. CASE UNCHANGED vars BY <1>8, OtherCount
<1> QED BY <1>1, <1>2, <1>3, <1>4, <1>5, <1>6, <1>7, <1>8 DEF Next

LEMMA CountInvariant == Spec => []CountInv
<1> QED BY InitCount, StepCount, Invariant, PTL DEF Spec

(* No video of a group hides another, for any number of maps and           *)
(* partitions: the types the writer stores its videos under are those the  *)
(* reader asks for, each with one video.                                   *)
THEOREM VideosAreUnambiguous == Spec => []VideosUnambiguous
<1>1. IInv /\ CountInv => VideosUnambiguous
  BY OneEntryEach DEF VideosUnambiguous
<1> QED BY <1>1, Invariant, CountInvariant, PTL

(* The decoder counts for every finished group what the encoder counted,   *)
(* although the parameter set of the next group is counted before it is    *)
(* known to end this one.                                                  *)
THEOREM StatisticsAreThose == Spec => []StatisticsAgree
<1>1. CountInv => StatisticsAgree
  BY DEF CountInv, StatInv
<1> QED BY <1>1, CountInvariant, PTL

(* The decoder never gives a group of the encoder up: there is one atlas,  *)
(* and every video it asks for is in the store (checkProfile,              *)
(* getVideoBitstream).                                                     *)
THEOREM NoGroupIsRejected == Spec => [](phase # "exited")
<1>1. CountInv => phase # "exited"
  BY DEF CountInv, StatInv
<1> QED BY <1>1, CountInvariant, PTL

=============================================================================
