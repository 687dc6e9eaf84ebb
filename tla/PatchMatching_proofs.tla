------------------------ MODULE PatchMatching_proofs ------------------------
(***************************************************************************)
(* What the lists of patches keep, for groups of any number of frames,     *)
(* tiles and patches and any number of reference frames: their patches, the*)
(* indices into each other, what the decoder makes of them and the patches *)
(* the EOM points belong to.                                               *)
(***************************************************************************)
EXTENDS PatchMatching, InductionLemmas, TLAPS

-----------------------------------------------------------------------------
(***************************************************************************)
(* Choosing from a list.                                                   *)
(***************************************************************************)
LEMMA AppendIs ==
  ASSUME NEW D, NEW s \in Seq(D), NEW e \in D
  PROVE  /\ Len(s) \in Nat /\ DOMAIN s = 1 .. Len(s)
         /\ Append(s, e) \in Seq(D)
         /\ Len(Append(s, e)) = Len(s) + 1 /\ DOMAIN Append(s, e) = 1 .. Len(s) + 1
         /\ Append(s, e)[Len(s) + 1] = e
         /\ \A j \in 1 .. Len(s) : Append(s, e)[j] = s[j]
OBVIOUS

(* g is how the chosen elements come together *)
Choosing(g, list, places, D) ==
  /\ g \in [0 .. Len(list) -> Seq(D)]
  /\ g[0] = <<>>
  /\ \A k \in 1 .. Len(list) :
       g[k] = IF k \in places THEN Append(g[k - 1], list[k]) ELSE g[k - 1]

(* Chosen is what its recursion says, for any list. *)
LEMMA ChosenSolves ==
  ASSUME NEW D, NEW list \in Seq(D), NEW places
  PROVE  \E g : Choosing(g, list, places, D) /\ Chosen(list, places) = g[Len(list)]
<1>1. PICK n \in Nat : n = Len(list) /\ DOMAIN list = 1 .. n
  OBVIOUS
<1> DEFINE step == [k \in 1 .. n |-> [d \in Seq(D) |-> IF k \in places THEN Append(d, list[k]) ELSE d]]
<1>2. \A k \in 1 .. n : list[k] \in D
  BY <1>1
<1>3. \A k \in 1 .. n, d \in Seq(D) : step[k][d] = IF k \in places THEN Append(d, list[k]) ELSE d
  OBVIOUS
<1> HIDE DEF step
<1>4. StepsIn(step, 1 .. n, Seq(D))
  <2>1. ASSUME NEW k \in 1 .. n, NEW d \in Seq(D) PROVE step[k][d] \in Seq(D)
    <3>1. Append(d, list[k]) \in Seq(D)
      BY <1>2, AppendIs
    <3> QED BY <1>3, <3>1
  <2> QED BY <2>1 DEF StepsIn
<1>5. PICK p : Recursion(p, 0, n, Seq(D), <<>>, step)
  <2>1. <<>> \in Seq(D)
    OBVIOUS
  <2> QED BY <1>4, <2>1, PrefixRecursion
<1>6. /\ p \in [0 .. n -> Seq(D)]
      /\ \A k \in 0 .. n : p[k] = IF k = 0 THEN <<>> ELSE IF k \in places THEN Append(p[k - 1], list[k]) ELSE p[k - 1]
  <2>1. ASSUME NEW k \in 0 .. n, k # 0 PROVE k \in 1 .. n /\ p[k - 1] \in Seq(D)
    BY <2>1, <1>5 DEF Recursion
  <2> QED BY <1>3, <1>5, <2>1 DEF Recursion
<1>7. p = [k \in 0 .. Len(list) |-> IF k = 0 THEN <<>>
                                    ELSE IF k \in places THEN Append(p[k - 1], list[k]) ELSE p[k - 1]]
  BY <1>1, <1>6
<1>8. PICK q : /\ Chosen(list, places) = q[Len(list)]
               /\ q = [k \in 0 .. Len(list) |-> IF k = 0 THEN <<>>
                          ELSE IF k \in places THEN Append(q[k - 1], list[k]) ELSE q[k - 1]]
  BY <1>7 DEF Chosen
<1>9. \A k \in 0 .. n : q[k] = IF k = 0 THEN <<>> ELSE IF k \in places THEN Append(q[k - 1], list[k]) ELSE q[k - 1]
  BY <1>1, <1>8
<1>10. \A k \in 0 .. n : q[k] \in Seq(D)
  <2> DEFINE T == {k \in 0 .. n : q[k] \in Seq(D)}
  <2>1. 0 \in T
    <3>1. 0 \in 0 .. n /\ <<>> \in Seq(D)
      OBVIOUS
    <3> QED BY <1>9, <3>1
  <2>2. ASSUME NEW k \in 1 .. n, k - 1 \in T PROVE k \in T
    <3>1. PICK s \in Seq(D) : s = q[k - 1]
      BY <2>2
    <3>2. Append(s, list[k]) \in Seq(D)
      BY <1>2, AppendIs
    <3>3. k \in 0 .. n /\ q[k] = IF k \in places THEN Append(s, list[k]) ELSE s
      BY <1>9, <3>1
    <3> QED BY <3>2, <3>3
  <2>3. \A k \in 0 .. n : k \in T
    <3> HIDE DEF T
    <3> QED BY <2>1, <2>2, PrefixInduction
  <2> QED BY <2>3
<1>11. q \in [0 .. n -> Seq(D)]
  BY <1>1, <1>8, <1>10
<1>12. Choosing(q, list, places, D)
  <2>1. \A k \in 1 .. n : q[k] = IF k \in places THEN Append(q[k - 1], list[k]) ELSE q[k - 1]
    BY <1>9
  <2> QED BY <1>1, <1>9, <1>11, <2>1 DEF Choosing
<1> QED BY <1>8, <1>12

(* the places themselves, in order *)
Numbers(n) == [i \in 1 .. n |-> i]
InOrder(places, n) == Chosen(Numbers(n), places)

(* a list's elements at increasing places, and at all of them *)
Ascending(p) == \A i, j \in DOMAIN p : i < j => p[i] < p[j]

(* The chosen numbers are the places up to n, each once, ascending. *)
LEMMA PlacesInOrder ==
  ASSUME NEW n \in Nat, NEW places
  PROVE  LET p == InOrder(places, n)
         IN  /\ p \in Seq(1 .. n) /\ Ascending(p)
             /\ \A j \in DOMAIN p : p[j] \in places
             /\ \A i \in 1 .. n : i \in places => \E j \in DOMAIN p : p[j] = i
<1>1. Numbers(n) \in Seq(1 .. n) /\ Len(Numbers(n)) = n /\ \A i \in 1 .. n : Numbers(n)[i] = i
  BY DEF Numbers
<1>2. PICK g : Choosing(g, Numbers(n), places, 1 .. n) /\ InOrder(places, n) = g[n]
  BY <1>1, ChosenSolves DEF InOrder
<1>3. /\ g \in [0 .. n -> Seq(1 .. n)] /\ g[0] = <<>>
      /\ \A k \in 1 .. n : g[k] = IF k \in places THEN Append(g[k - 1], k) ELSE g[k - 1]
  BY <1>1, <1>2 DEF Choosing
<1> DEFINE Good(k) == /\ \A i, j \in DOMAIN g[k] : i < j => g[k][i] < g[k][j]
                      /\ \A j \in DOMAIN g[k] : g[k][j] \in places /\ g[k][j] <= k
                      /\ \A i \in 1 .. k : i \in places => \E j \in DOMAIN g[k] : g[k][j] = i
           T == {k \in 0 .. n : Good(k)}
<1>4. 0 \in T
  BY <1>3
<1>5. ASSUME NEW k \in 1 .. n, k - 1 \in T PROVE k \in T
  <2>1. PICK s \in Seq(1 .. n) : s = g[k - 1]
    BY <1>3
  <2>2. PICK m \in Nat : m = Len(s) /\ DOMAIN s = 1 .. m
    OBVIOUS
  <2>3. /\ \A i, j \in 1 .. m : i < j => s[i] < s[j]
        /\ \A j \in 1 .. m : s[j] \in places /\ s[j] <= k - 1 /\ s[j] \in 1 .. n
        /\ \A i \in 1 .. k - 1 : i \in places => \E j \in 1 .. m : s[j] = i
    BY <1>5, <2>1, <2>2
  <2>4. CASE k \notin places
    <3>1. g[k] = s
      BY <1>3, <2>1, <2>4
    <3>2. \A i \in 1 .. k : i \in places => i \in 1 .. k - 1
      BY <2>4
    <3>3. \A j \in 1 .. m : s[j] <= k
      BY <2>3
    <3>4. k \in 0 .. n
      OBVIOUS
    <3> QED BY <2>2, <2>3, <3>1, <3>2, <3>3, <3>4
  <2>5. CASE k \in places
    <3>1. g[k] = Append(s, k)
      BY <1>3, <2>1, <2>5
    <3>2. DOMAIN g[k] = 1 .. m + 1 /\ g[k][m + 1] = k /\ \A j \in 1 .. m : g[k][j] = s[j]
      BY <2>2, <3>1, AppendIs
    <3>6. \A j \in 1 .. m + 1 : j \in 1 .. m \/ j = m + 1
      BY <2>2
    <3>7. k \in 0 .. n /\ m + 1 \in 1 .. m + 1 /\ \A j \in 1 .. m : j \in 1 .. m + 1
      BY <2>2
    <3>3. ASSUME NEW i \in 1 .. m + 1, NEW j \in 1 .. m + 1, i < j PROVE g[k][i] < g[k][j]
      <4>1. i \in 1 .. m /\ g[k][i] = s[i]
        BY <2>2, <3>2, <3>3
      <4>2. CASE j = m + 1
        BY <2>3, <3>2, <4>1, <4>2
      <4>3. CASE j \in 1 .. m
        BY <2>3, <3>2, <3>3, <4>1, <4>3
      <4> QED BY <3>6, <4>2, <4>3
    <3>4. ASSUME NEW j \in 1 .. m + 1 PROVE g[k][j] \in places /\ g[k][j] <= k
      <4>1. CASE j = m + 1
        <5>1. g[k][j] = k
          BY <3>2, <4>1
        <5> QED BY <2>5, <5>1
      <4>2. CASE j \in 1 .. m
        <5>1. g[k][j] = s[j]
          BY <3>2, <4>2
        <5>2. s[j] \in places /\ s[j] <= k - 1 /\ s[j] \in 1 .. n
          BY <2>3, <4>2
        <5>3. s[j] <= k
          BY <5>2
        <5> QED BY <5>1, <5>2, <5>3
      <4> QED BY <3>6, <4>1, <4>2
    <3>5. ASSUME NEW i \in 1 .. k, i \in places PROVE \E j \in 1 .. m + 1 : g[k][j] = i
      <4>1. CASE i = k
        BY <3>2, <3>7, <4>1
      <4>2. CASE i # k
        <5>1. PICK j \in 1 .. m : s[j] = i
          <6>1. i \in 1 .. k - 1
            BY <4>2
          <6> QED BY <2>3, <3>5, <6>1
        <5> QED BY <3>2, <3>7, <5>1
      <4> QED BY <4>1, <4>2
    <3> QED BY <3>2, <3>3, <3>4, <3>5, <3>7
  <2> QED BY <2>4, <2>5
<1>6. n \in T
  <2> HIDE DEF T
  <2> QED BY <1>4, <1>5, PrefixInduction
<1> QED BY <1>2, <1>3, <1>6 DEF Ascending

(* the chosen elements are those at the places *)
LEMMA ChosenAt ==
  ASSUME NEW D, NEW list \in Seq(D), NEW places
  PROVE  LET p == InOrder(places, Len(list))
             c == Chosen(list, places)
         IN  /\ c \in Seq(D) /\ Len(c) = Len(p) /\ DOMAIN c = DOMAIN p
             /\ \A j \in DOMAIN p : c[j] = list[p[j]]
<1>1. PICK n \in Nat : n = Len(list)
  OBVIOUS
<1>2. Numbers(n) \in Seq(1 .. n) /\ Len(Numbers(n)) = n /\ \A i \in 1 .. n : Numbers(n)[i] = i
  BY DEF Numbers
<1>3. PICK h : Choosing(h, Numbers(n), places, 1 .. n) /\ InOrder(places, n) = h[n]
  BY <1>2, ChosenSolves DEF InOrder
<1>4. PICK g : Choosing(g, list, places, D) /\ Chosen(list, places) = g[n]
  BY <1>1, ChosenSolves
<1>5. /\ h \in [0 .. n -> Seq(1 .. n)] /\ h[0] = <<>>
      /\ \A k \in 1 .. n : h[k] = IF k \in places THEN Append(h[k - 1], k) ELSE h[k - 1]
  BY <1>2, <1>3 DEF Choosing
<1>6. /\ g \in [0 .. n -> Seq(D)] /\ g[0] = <<>>
      /\ \A k \in 1 .. n : g[k] = IF k \in places THEN Append(g[k - 1], list[k]) ELSE g[k - 1]
  BY <1>1, <1>4 DEF Choosing
<1> DEFINE T == {k \in 0 .. n : Len(g[k]) = Len(h[k]) /\ \A j \in 1 .. Len(h[k]) : g[k][j] = list[h[k][j]]}
<1>7. 0 \in T
  BY <1>5, <1>6
<1>8. ASSUME NEW k \in 1 .. n, k - 1 \in T PROVE k \in T
  <2>5. k - 1 \in 0 .. n /\ k \in 0 .. n /\ k \in 1 .. Len(list) /\ list[k] \in D
    BY <1>1
  <2>6. PICK s \in Seq(1 .. n) : s = h[k - 1]
    BY <1>5, <2>5
  <2>7. PICK r \in Seq(D) : r = g[k - 1]
    BY <1>6, <2>5
  <2>2. PICK m \in Nat : m = Len(s) /\ m = Len(r) /\ \A j \in 1 .. m : r[j] = list[s[j]]
    BY <1>8, <2>6, <2>7
  <2>3. CASE k \notin places
    <3>1. h[k] = s /\ g[k] = r
      BY <1>5, <1>6, <2>6, <2>7, <2>3
    <3> QED BY <2>2, <2>5, <3>1
  <2>4. CASE k \in places
    <3>1. h[k] = Append(s, k) /\ g[k] = Append(r, list[k])
      BY <1>5, <1>6, <2>6, <2>7, <2>4
    <3>3. Len(h[k]) = m + 1 /\ h[k][m + 1] = k /\ \A j \in 1 .. m : h[k][j] = s[j]
      <4>1. k \in 1 .. n
        OBVIOUS
      <4>2. PICK a : a = Append(s, k)
        OBVIOUS
      <4>3. Len(a) = Len(s) + 1 /\ a[Len(s) + 1] = k /\ \A j \in 1 .. Len(s) : a[j] = s[j]
        BY <4>1, <4>2, AppendIs
      <4> QED BY <2>2, <3>1, <4>2, <4>3
    <3>5. Len(g[k]) = m + 1 /\ g[k][m + 1] = list[k] /\ \A j \in 1 .. m : g[k][j] = r[j]
      BY <2>2, <2>5, <3>1, AppendIs
    <3>2. /\ Len(h[k]) = m + 1 /\ h[k][m + 1] = k /\ \A j \in 1 .. m : h[k][j] = s[j]
          /\ Len(g[k]) = m + 1 /\ g[k][m + 1] = list[k] /\ \A j \in 1 .. m : g[k][j] = r[j]
      BY <3>3, <3>5
    <3>4. \A j \in 1 .. m + 1 : j \in 1 .. m \/ j = m + 1
      BY <2>2
    <3> QED BY <2>2, <2>5, <3>2, <3>4
  <2> QED BY <2>3, <2>4
<1>9. n \in T
  <2>1. n \in 0 .. n
    OBVIOUS
  <2> HIDE DEF T
  <2> QED BY <1>7, <1>8, <2>1, PrefixInduction
<1>10. g[n] \in Seq(D) /\ h[n] \in Seq(1 .. n)
  <2>1. n \in 0 .. n
    OBVIOUS
  <2> QED BY <1>5, <1>6, <2>1
<1>11. PICK p \in Seq(1 .. n) : p = h[n]
  BY <1>10
<1>12. PICK c \in Seq(D) : c = g[n]
  BY <1>10
<1>13. Len(c) = Len(p) /\ \A j \in 1 .. Len(p) : c[j] = list[p[j]]
  BY <1>9, <1>11, <1>12
<1>14. DOMAIN c = 1 .. Len(c) /\ DOMAIN p = 1 .. Len(p)
  OBVIOUS
<1>15. InOrder(places, Len(list)) = p /\ Chosen(list, places) = c
  BY <1>1, <1>3, <1>4, <1>11, <1>12
<1> QED BY <1>13, <1>14, <1>15

(* two enumerations of the same numbers in ascending order are the same *)
Covers(q, p) == \A i \in DOMAIN p : \E j \in DOMAIN q : q[j] = p[i]

(* Two ascending lists of the same numbers agree as far as the one goes. *)
LEMMA AscendingBegins ==
  ASSUME NEW p \in Seq(Nat), NEW q \in Seq(Nat), Ascending(p), Ascending(q), Covers(q, p), Covers(p, q)
  PROVE  \A k \in 1 .. Len(p) : k <= Len(q) /\ p[k] = q[k]
<1>1. PICK n \in Nat : n = Len(p) /\ DOMAIN p = 1 .. n
  OBVIOUS
<1>2. PICK m \in Nat : m = Len(q) /\ DOMAIN q = 1 .. m
  OBVIOUS
<1>3. /\ \A i \in 1 .. n : p[i] \in Nat
      /\ \A j \in 1 .. m : q[j] \in Nat
  BY <1>1, <1>2
<1>4. /\ \A i, j \in 1 .. n : i < j => p[i] < p[j]
      /\ \A i, j \in 1 .. m : i < j => q[i] < q[j]
  BY <1>1, <1>2 DEF Ascending
<1>5. /\ \A i \in 1 .. n : \E j \in 1 .. m : q[j] = p[i]
      /\ \A j \in 1 .. m : \E i \in 1 .. n : p[i] = q[j]
  BY <1>1, <1>2 DEF Covers
<1> DEFINE T == {k \in 0 .. n : \A j \in 1 .. k : j <= m /\ p[j] = q[j]}
<1>6. 0 \in T
  OBVIOUS
<1>7. ASSUME NEW k \in 1 .. n, k - 1 \in T PROVE k \in T
  <2>1. \A j \in 1 .. k - 1 : j \in 1 .. m /\ p[j] = q[j]
    BY <1>7
  <2>2. PICK j \in 1 .. m : q[j] = p[k]
    BY <1>5
  <2>3. j >= k
    <3>1. ASSUME j < k PROVE FALSE
      <4>1. j \in 1 .. k - 1 /\ j \in 1 .. n
        BY <3>1
      <4>2. p[j] < p[k]
        BY <1>4, <3>1, <4>1
      <4> QED BY <1>3, <2>1, <2>2, <4>1, <4>2
    <3> QED BY <3>1
  <2>4. k \in 1 .. m
    BY <2>3
  <2>5. PICK i \in 1 .. n : p[i] = q[k]
    BY <1>5, <2>4
  <2>6. i >= k
    <3>1. ASSUME i < k PROVE FALSE
      <4>1. i \in 1 .. k - 1 /\ i \in 1 .. m
        BY <2>4, <3>1
      <4>2. q[i] < q[k]
        BY <1>4, <2>4, <3>1, <4>1
      <4> QED BY <1>3, <2>1, <2>5, <4>1, <4>2
    <3> QED BY <3>1
  <2>7. p[k] <= p[i] /\ q[k] <= q[j]
    <3>1. k = i \/ k < i
      BY <2>6
    <3>2. k = j \/ k < j
      BY <2>3
    <3>3. p[k] <= p[i]
      BY <1>3, <1>4, <3>1
    <3>4. q[k] <= q[j]
      BY <1>3, <1>4, <2>4, <3>2
    <3> QED BY <3>3, <3>4
  <2>8. p[k] = q[k]
    BY <1>3, <2>2, <2>4, <2>5, <2>7
  <2>9. \A x \in 1 .. k : x = k \/ x \in 1 .. k - 1
    OBVIOUS
  <2>10. k \in 0 .. n
    OBVIOUS
  <2> QED BY <2>1, <2>4, <2>8, <2>9, <2>10
<1>8. n \in T
  <2>1. n \in 0 .. n
    OBVIOUS
  <2> HIDE DEF T
  <2> QED BY <1>6, <1>7, <2>1, PrefixInduction
<1> QED BY <1>1, <1>2, <1>8

(* There is one ascending list of given numbers. *)
LEMMA AscendingSame ==
  ASSUME NEW p \in Seq(Nat), NEW q \in Seq(Nat), Ascending(p), Ascending(q), Covers(q, p), Covers(p, q)
  PROVE  p = q
<1>1. PICK n \in Nat : n = Len(p)
  OBVIOUS
<1>2. PICK m \in Nat : m = Len(q)
  OBVIOUS
<1>3. \A k \in 1 .. n : k <= m /\ p[k] = q[k]
  BY <1>1, <1>2, AscendingBegins
<1>4. \A k \in 1 .. m : k <= n /\ q[k] = p[k]
  BY <1>1, <1>2, AscendingBegins
<1>5. n = m
  <2>1. n # 0 => n \in 1 .. n
    OBVIOUS
  <2>2. m # 0 => m \in 1 .. m
    OBVIOUS
  <2> QED BY <1>3, <1>4, <2>1, <2>2
<1>6. p = [k \in 1 .. n |-> p[k]] /\ q = [k \in 1 .. m |-> q[k]]
  BY <1>1, <1>2
<1> QED BY <1>3, <1>5, <1>6

-----------------------------------------------------------------------------
(***************************************************************************)
(* The patches of a tile.                                                  *)
(***************************************************************************)
PatchType ==
  [pos : Int, view : Views, tile : Tiles, orient : Orientations, eom : BOOLEAN,
   best : Int, ref : Nat, match : Int, indexInFrame : Nat]

(* A patch with another index is a patch. *)
LEMMA PatchWith ==
  ASSUME NEW p \in PatchType, NEW b \in Int, NEW r \in Nat, NEW m \in Int
  PROVE  [p EXCEPT !.best = b] \in PatchType /\ [p EXCEPT !.best = b, !.ref = r, !.match = m] \in PatchType
BY DEF PatchType

(* A function on 1 .. n with values in S is a list. *)
LEMMA IsSeq ==
  ASSUME NEW S, NEW n \in Nat, NEW c, c = [i \in 1 .. n |-> c[i]], \A i \in 1 .. n : c[i] \in S
  PROVE  c \in Seq(S) /\ Len(c) = n /\ DOMAIN c = 1 .. n
OBVIOUS

TilePlaces(list, t) == InOrder({i \in DOMAIN list : list[i].tile = t}, Len(list))

(* The patches of a tile are those that name it, in the frame's order. *)
LEMMA TilePatchesAt ==
  ASSUME NEW list \in Seq(PatchType), NEW t
  PROVE  LET p == TilePlaces(list, t)
             c == TilePatches(list, t)
         IN  /\ c \in Seq(PatchType) /\ DOMAIN c = DOMAIN p /\ p \in Seq(DOMAIN list) /\ Ascending(p)
             /\ \A j \in DOMAIN p : p[j] \in DOMAIN list /\ c[j] = list[p[j]] /\ list[p[j]].tile = t
             /\ \A i \in DOMAIN list : list[i].tile = t => \E j \in DOMAIN p : p[j] = i
<1>1. PICK n \in Nat : n = Len(list) /\ DOMAIN list = 1 .. n
  OBVIOUS
<1>2. PICK places : places = {i \in DOMAIN list : list[i].tile = t}
  OBVIOUS
<1>3. PICK p : p = TilePlaces(list, t) /\ p = InOrder(places, n)
  BY <1>1, <1>2 DEF TilePlaces
<1>4. PICK c : c = TilePatches(list, t) /\ c = Chosen(list, places)
  BY <1>2 DEF TilePatches
<1>5. /\ p \in Seq(1 .. n) /\ Ascending(p)
      /\ \A j \in DOMAIN p : p[j] \in places
      /\ \A i \in 1 .. n : i \in places => \E j \in DOMAIN p : p[j] = i
  BY <1>3, PlacesInOrder
<1>6. c \in Seq(PatchType) /\ DOMAIN c = DOMAIN p /\ \A j \in DOMAIN p : c[j] = list[p[j]]
  BY <1>1, <1>3, <1>4, ChosenAt
<1>7. \A j \in DOMAIN p : p[j] \in DOMAIN list /\ list[p[j]].tile = t
  BY <1>2, <1>5
<1>8. \A i \in DOMAIN list : list[i].tile = t => \E j \in DOMAIN p : p[j] = i
  BY <1>1, <1>2, <1>5
<1> QED BY <1>1, <1>3, <1>4, <1>5, <1>6, <1>7, <1>8

(* what the loop that moves the indices along relies on *)
IndexedUp(list) ==
  /\ \A i \in DOMAIN list : list[i].indexInFrame \in Nat
  /\ \A i, j \in DOMAIN list : i < j => list[i].indexInFrame < list[j].indexInFrame

(* An index into the frame becomes the index of the same patch in its tile:
   what the loop has replaced is too small to be found again. *)
LEMMA RemapBestIs ==
  ASSUME NEW list \in Seq(PatchType), IndexedUp(list), NEW y \in DOMAIN list
  PROVE  RemapBest(list[y].indexInFrame, list) = y - 1
<1>1. PICK n \in Nat : n = Len(list) /\ DOMAIN list = 1 .. n
  OBVIOUS
<1>2. PICK best \in Nat : best = list[y].indexInFrame
  BY DEF IndexedUp
<1> DEFINE step == [k \in 1 .. n |-> [d \in Int |-> IF list[k].indexInFrame = d THEN k - 1 ELSE d]]
<1>3. \A k \in 1 .. n, d \in Int : step[k][d] = IF list[k].indexInFrame = d THEN k - 1 ELSE d
  OBVIOUS
<1> HIDE DEF step
<1>4. StepsIn(step, 1 .. n, Int)
  BY <1>3 DEF StepsIn
<1>5. PICK p : Recursion(p, 0, n, Int, best, step)
  BY <1>2, <1>4, PrefixRecursion
<1>6. /\ p \in [0 .. n -> Int]
      /\ \A k \in 0 .. n : p[k] = IF k = 0 THEN best ELSE IF list[k].indexInFrame = p[k - 1] THEN k - 1 ELSE p[k - 1]
  <2>1. ASSUME NEW k \in 0 .. n, k # 0 PROVE k \in 1 .. n /\ p[k - 1] \in Int
    BY <2>1, <1>5 DEF Recursion
  <2> QED BY <1>3, <1>5, <2>1 DEF Recursion
<1>7. p = [k \in 0 .. Len(list) |-> IF k = 0 THEN best
                                    ELSE IF list[k].indexInFrame = p[k - 1] THEN k - 1 ELSE p[k - 1]]
  BY <1>1, <1>6
<1>8. PICK q : /\ RemapBest(best, list) = q[Len(list)]
               /\ q = [k \in 0 .. Len(list) |-> IF k = 0 THEN best
                          ELSE IF list[k].indexInFrame = q[k - 1] THEN k - 1 ELSE q[k - 1]]
  <2>1. best # invalid
    BY <1>2 DEF invalid
  <2> QED BY <1>7, <2>1 DEF RemapBest
<1>9. \A k \in 0 .. n : q[k] = IF k = 0 THEN best ELSE IF list[k].indexInFrame = q[k - 1] THEN k - 1 ELSE q[k - 1]
  BY <1>1, <1>8
<1>10. \A k \in 1 .. n : list[k].indexInFrame \in Nat /\ list[k].indexInFrame >= k - 1
  <2> DEFINE T == {k \in 0 .. n : k # 0 => list[k].indexInFrame >= k - 1}
  <2>1. 0 \in T
    OBVIOUS
  <2>2. ASSUME NEW k \in 1 .. n, k - 1 \in T PROVE k \in T
    <3>1. k \in 0 .. n /\ list[k].indexInFrame \in Nat
      BY <1>1 DEF IndexedUp
    <3>2. CASE k = 1
      BY <3>1, <3>2
    <3>3. CASE k # 1
      <4>1. k - 1 \in 1 .. n /\ k - 1 < k
        BY <3>3
      <4>2. list[k - 1].indexInFrame \in Nat /\ list[k - 1].indexInFrame < list[k].indexInFrame
        BY <1>1, <4>1 DEF IndexedUp
      <4>3. list[k - 1].indexInFrame >= (k - 1) - 1
        BY <2>2, <4>1
      <4> QED BY <3>1, <4>1, <4>2, <4>3
    <3> QED BY <3>2, <3>3
  <2>3. \A k \in 0 .. n : k \in T
    <3> HIDE DEF T
    <3> QED BY <2>1, <2>2, PrefixInduction
  <2> QED BY <1>1, <2>3 DEF IndexedUp
<1>11. \A k \in 0 .. n : q[k] = IF k < y THEN best ELSE y - 1
  <2> DEFINE T == {k \in 0 .. n : q[k] = IF k < y THEN best ELSE y - 1}
  <2>0. y \in 1 .. n
    BY <1>1
  <2>1. 0 \in T
    <3>1. 0 \in 0 .. n /\ 0 < y
      BY <2>0
    <3> QED BY <1>9, <3>1
  <2>2. ASSUME NEW k \in 1 .. n, k - 1 \in T PROVE k \in T
    <3>1. k \in 0 .. n /\ k # 0
      OBVIOUS
    <3>2. q[k] = IF list[k].indexInFrame = q[k - 1] THEN k - 1 ELSE q[k - 1]
      BY <1>9, <3>1
    <3>3. q[k - 1] = IF k - 1 < y THEN best ELSE y - 1
      BY <2>2
    <3>4. CASE k < y
      <4>1. q[k - 1] = best /\ list[k].indexInFrame < best
        BY <1>1, <1>2, <2>0, <3>3, <3>4 DEF IndexedUp
      <4> QED BY <1>2, <1>10, <3>1, <3>2, <3>4, <4>1
    <3>5. CASE k = y
      <4>1. q[k - 1] = best
        BY <3>3, <3>5
      <4> QED BY <1>2, <3>1, <3>2, <3>5, <4>1
    <3>6. CASE k > y
      <4>1. q[k - 1] = y - 1
        BY <2>0, <3>3, <3>6
      <4>2. list[k].indexInFrame \in Nat /\ list[k].indexInFrame >= k - 1
        BY <1>10
      <4>3. list[k].indexInFrame # q[k - 1]
        BY <2>0, <3>6, <4>1, <4>2
      <4> QED BY <2>0, <3>1, <3>2, <3>6, <4>1, <4>3
    <3> QED BY <2>0, <3>4, <3>5, <3>6
  <2>3. \A k \in 0 .. n : k \in T
    <3> HIDE DEF T
    <3> QED BY <2>1, <2>2, PrefixInduction
  <2> QED BY <2>3
<1>12. q[n] = y - 1
  <2>1. n \in 0 .. n /\ ~(n < y)
    BY <1>1
  <2> QED BY <1>11, <2>1
<1> QED BY <1>1, <1>2, <1>8, <1>12

(* the indices among the frame's patches ascend in a tile's list *)
Numbered(list) == \A i \in DOMAIN list : list[i].indexInFrame = i - 1

(* The patches of a tile stand in the order of their indices in the frame. *)
LEMMA TileIndexedUp ==
  ASSUME NEW list \in Seq(PatchType), Numbered(list), NEW t
  PROVE  IndexedUp(TilePatches(list, t))
<1>1. PICK p, c : p = TilePlaces(list, t) /\ c = TilePatches(list, t)
  OBVIOUS
<1>2. /\ DOMAIN c = DOMAIN p /\ Ascending(p)
      /\ \A j \in DOMAIN p : p[j] \in DOMAIN list /\ c[j] = list[p[j]]
  BY <1>1, TilePatchesAt
<1>3. \A j \in DOMAIN c : p[j] \in Nat \ {0} /\ c[j].indexInFrame = p[j] - 1
  BY <1>2 DEF Numbered
<1> QED BY <1>1, <1>2, <1>3 DEF IndexedUp, Ascending

-----------------------------------------------------------------------------
(***************************************************************************)
(* The patches with EOM points.                                            *)
(***************************************************************************)
EomPlaces(list, t) == {i \in DOMAIN list : list[i].tile = t /\ list[i].eom}

(* An EOM patch lists places of its tile, those of the patches with EOM
   points. *)
LEMMA EomMembersAre ==
  ASSUME NEW list \in Seq(PatchType), NEW t
  PROVE  LET own == TilePatches(list, t)
             m   == EomMembers(own)
         IN  /\ m \in Seq(Nat)
             /\ \A j \in DOMAIN m : m[j] + 1 \in DOMAIN own
             /\ [j \in DOMAIN m |-> own[m[j] + 1].pos] = Positions(Chosen(list, EomPlaces(list, t)))
<1>1. PICK n \in Nat : n = Len(list) /\ DOMAIN list = 1 .. n
  OBVIOUS
<1>2. PICK p : p = TilePlaces(list, t)
  OBVIOUS
<1>3. PICK own \in Seq(PatchType) : own = TilePatches(list, t)
  BY TilePatchesAt
<1>4. /\ p \in Seq(1 .. n) /\ DOMAIN own = DOMAIN p /\ Ascending(p)
      /\ \A j \in DOMAIN p : p[j] \in 1 .. n /\ own[j] = list[p[j]] /\ list[p[j]].tile = t
      /\ \A i \in 1 .. n : list[i].tile = t => \E j \in DOMAIN p : p[j] = i
  <2>1. p \in Seq(DOMAIN list) /\ DOMAIN own = DOMAIN p /\ Ascending(p)
    BY <1>2, <1>3, TilePatchesAt
  <2>2. \A j \in DOMAIN p : p[j] \in DOMAIN list /\ own[j] = list[p[j]] /\ list[p[j]].tile = t
    BY <1>2, <1>3, TilePatchesAt
  <2>3. \A i \in DOMAIN list : list[i].tile = t => \E j \in DOMAIN p : p[j] = i
    BY <1>2, TilePatchesAt
  <2>4. p \in Seq(1 .. n)
    BY <1>1, <2>1
  <2> QED BY <1>1, <2>1, <2>2, <2>3, <2>4
<1>5. PICK w \in Nat : w = Len(own) /\ DOMAIN own = 1 .. w
  OBVIOUS
<1>6. PICK with : with = {i \in DOMAIN own : own[i].eom}
  OBVIOUS
<1>7. PICK q : q = InOrder(with, w)
  OBVIOUS
<1>8. /\ q \in Seq(1 .. w) /\ Ascending(q)
      /\ \A j \in DOMAIN q : q[j] \in with
      /\ \A i \in 1 .. w : i \in with => \E j \in DOMAIN q : q[j] = i
  BY <1>7, PlacesInOrder
<1>9. PICK zero : zero = [i \in DOMAIN own |-> i - 1]
  OBVIOUS
<1>10. zero \in Seq(Nat) /\ Len(zero) = w /\ \A i \in 1 .. w : zero[i] = i - 1
  BY <1>5, <1>9
<1>11. PICK m \in Seq(Nat) : m = EomMembers(own) /\ DOMAIN m = DOMAIN q /\ \A j \in DOMAIN q : m[j] = zero[q[j]]
  <2>1. EomMembers(own) = Chosen(zero, with)
    BY <1>6, <1>9 DEF EomMembers
  <2> QED BY <1>7, <1>10, <2>1, ChosenAt
<1>12. ASSUME NEW j \in DOMAIN q PROVE q[j] \in 1 .. w /\ m[j] + 1 = q[j]
  <2>1. q[j] \in 1 .. w
    BY <1>8
  <2>2. m[j] = q[j] - 1
    BY <1>10, <1>11, <2>1
  <2> QED BY <2>1, <2>2
<1>13. PICK r : r = [j \in DOMAIN q |-> p[q[j]]]
  OBVIOUS
<1>14. PICK s : s = InOrder(EomPlaces(list, t), n)
  OBVIOUS
<1>15. /\ s \in Seq(1 .. n) /\ Ascending(s)
       /\ \A j \in DOMAIN s : s[j] \in EomPlaces(list, t)
       /\ \A i \in 1 .. n : i \in EomPlaces(list, t) => \E j \in DOMAIN s : s[j] = i
  BY <1>14, PlacesInOrder
<1>16. PICK u \in Nat : u = Len(q) /\ DOMAIN q = 1 .. u
  BY <1>8
<1>17. \A j \in 1 .. u : q[j] \in DOMAIN p /\ r[j] = p[q[j]] /\ r[j] \in 1 .. n
  BY <1>4, <1>5, <1>12, <1>13, <1>16
<1>18. r \in Seq(1 .. n) /\ DOMAIN r = 1 .. u
  BY <1>13, <1>16, <1>17
<1>19. Ascending(r)
  <2>1. ASSUME NEW i \in 1 .. u, NEW j \in 1 .. u, i < j PROVE r[i] < r[j]
    <3>1. q[i] < q[j]
      BY <1>8, <1>16, <2>1 DEF Ascending
    <3>2. q[i] \in DOMAIN p /\ q[j] \in DOMAIN p /\ r[i] = p[q[i]] /\ r[j] = p[q[j]]
      BY <1>17
    <3>3. p[q[i]] < p[q[j]]
      BY <1>4, <3>1, <3>2 DEF Ascending
    <3> QED BY <3>2, <3>3
  <2> QED BY <1>18, <2>1 DEF Ascending
<1>20. Covers(s, r)
  <2>1. ASSUME NEW j \in DOMAIN r PROVE \E i \in DOMAIN s : s[i] = r[j]
    <3>1. j \in 1 .. u /\ q[j] \in with /\ q[j] \in DOMAIN p
      BY <1>8, <1>16, <1>17, <1>18, <2>1
    <3>2. own[q[j]].eom /\ own[q[j]] = list[r[j]] /\ list[r[j]].tile = t /\ r[j] \in 1 .. n
      BY <1>4, <1>6, <1>17, <3>1
    <3>3. r[j] \in EomPlaces(list, t)
      BY <1>1, <3>2 DEF EomPlaces
    <3> QED BY <1>15, <3>2, <3>3
  <2> QED BY <2>1 DEF Covers
<1>21. Covers(r, s)
  <2>1. ASSUME NEW j \in DOMAIN s PROVE \E i \in DOMAIN r : r[i] = s[j]
    <3>1. s[j] \in 1 .. n /\ list[s[j]].tile = t /\ list[s[j]].eom
      BY <1>1, <1>15, <2>1 DEF EomPlaces
    <3>2. PICK k \in DOMAIN p : p[k] = s[j]
      BY <1>4, <3>1
    <3>3. k \in 1 .. w /\ k \in with
      BY <1>4, <1>5, <1>6, <3>1, <3>2
    <3>4. PICK i \in DOMAIN q : q[i] = k
      BY <1>8, <3>3
    <3> QED BY <1>16, <1>17, <1>18, <3>2, <3>4
  <2> QED BY <2>1 DEF Covers
<1>22. r = s
  <2>1. r \in Seq(Nat) /\ s \in Seq(Nat)
    BY <1>15, <1>18
  <2> QED BY <1>15, <1>19, <1>20, <1>21, <2>1, AscendingSame
<1>23. PICK c : /\ c = Chosen(list, EomPlaces(list, t))
                /\ DOMAIN c = DOMAIN s /\ \A j \in DOMAIN s : c[j] = list[s[j]]
  BY <1>1, <1>14, ChosenAt
<1>24. Positions(c) = [j \in DOMAIN c |-> c[j].pos]
  BY DEF Positions, Mapped
<1>25. DOMAIN c = DOMAIN m /\ \A j \in DOMAIN m : own[m[j] + 1].pos = c[j].pos /\ m[j] + 1 \in DOMAIN own
  <2>1. ASSUME NEW j \in DOMAIN m PROVE own[m[j] + 1].pos = c[j].pos /\ m[j] + 1 \in DOMAIN own
    <3>1. j \in 1 .. u /\ j \in DOMAIN s /\ m[j] + 1 = q[j] /\ q[j] \in DOMAIN p
      BY <1>11, <1>12, <1>16, <1>17, <1>18, <1>22
    <3>2. own[q[j]] = list[p[q[j]]] /\ c[j] = list[s[j]] /\ s[j] = p[q[j]]
      BY <1>4, <1>17, <1>22, <1>23, <3>1
    <3> QED BY <1>4, <3>1, <3>2
  <2> QED BY <1>11, <1>16, <1>18, <1>22, <1>23, <2>1
<1> QED BY <1>3, <1>11, <1>23, <1>24, <1>25

-----------------------------------------------------------------------------
(***************************************************************************)
(* Placing the patches of a frame.                                         *)
(***************************************************************************)
Alike(p, q) ==
  /\ p.pos = q.pos /\ p.view = q.view /\ p.tile = q.tile /\ p.orient = q.orient
  /\ p.eom = q.eom /\ p.indexInFrame = q.indexInFrame

AlikeLists(list, own) == DOMAIN list = DOMAIN own /\ \A i \in DOMAIN list : Alike(list[i], own[i])

Matches(p, q) == q.pos = p.match /\ q.view = p.view /\ q.orient = p.orient

(* p, unless it is intra, names a patch of the list that matches it *)
NamesIn(p, list) == p.best # invalid => p.best + 1 \in DOMAIN list /\ Matches(p, list[p.best + 1])

(* the same before the tiles: the patch named is of p's tile *)
NamesSameTile(p, list) == p.best # invalid => p.best + 1 \in DOMAIN list /\ list[p.best + 1].tile = p.tile

PlacedList(prev, refs, new, f) == [k \in DOMAIN new |-> Placed(prev, refs, new, f, k)]

(* Every patch that was matched names the one it was matched with, which is
   of its tile; the list is numbered as it is placed. *)
LEMMA PlacedIs ==
  ASSUME NEW prev \in Seq(PatchType), NEW refs \in Seq(DOMAIN prev), NEW new \in Seq(Segments),
         NEW f \in Nat, Len(refs) <= Len(new),
         \A k \in DOMAIN refs : Matchable(prev[refs[k]], new[k])
  PROVE  LET list == PlacedList(prev, refs, new, f)
         IN  /\ list \in Seq(PatchType) /\ Numbered(list)
             /\ \A k \in DOMAIN list :
                  list[k].ref = 0 /\ NamesIn(list[k], prev) /\ NamesSameTile(list[k], prev)
<1>1. PICK list : list = PlacedList(prev, refs, new, f)
  OBVIOUS
<1>2. PICK n \in Nat : n = Len(new) /\ DOMAIN new = 1 .. n
  OBVIOUS
<1>3. PICK r \in Nat : r = Len(refs) /\ DOMAIN refs = 1 .. r
  OBVIOUS
<1>4. DOMAIN list = 1 .. n
  BY <1>1, <1>2 DEF PlacedList
<1>5. PICK m \in Nat : m = Len(prev) /\ DOMAIN prev = 1 .. m
  OBVIOUS
<1>6. \A k \in 1 .. r : refs[k] \in 1 .. m /\ prev[refs[k]] \in PatchType
  BY <1>3, <1>5
<1>7. ASSUME NEW k \in 1 .. n
      PROVE  /\ list[k] \in PatchType /\ list[k].indexInFrame = k - 1 /\ list[k].ref = 0
             /\ NamesIn(list[k], prev) /\ NamesSameTile(list[k], prev)
  <2>1. list[k] = Placed(prev, refs, new, f, k)
    BY <1>1, <1>2 DEF PlacedList
  <2>2. new[k] \in [view : Views, tile : Tiles, orient : Orientations, eom : BOOLEAN]
    BY <1>2, SegmentAssumption DEF Tiles
  <2>6. new[k].view \in Views /\ new[k].tile \in Tiles /\ new[k].orient \in Orientations /\ new[k].eom \in BOOLEAN
    BY <2>2
  <2>3. PICK pos \in Int, index \in Nat : pos = f * MaxPatches + k /\ index = k - 1
    BY FrameAssumption
  <2>7. 0 \in Nat /\ invalid \in Int
    BY DEF invalid
  <2>4. CASE k <= Len(refs)
    <3>1. /\ k \in 1 .. r /\ refs[k] \in 1 .. m /\ prev[refs[k]] \in PatchType
          /\ prev[refs[k]].view = new[k].view /\ prev[refs[k]].tile = new[k].tile
      BY <1>3, <1>6, <2>4 DEF Matchable
    <3>2. list[k] = [pos |-> pos, view |-> new[k].view, tile |-> new[k].tile,
                     orient |-> prev[refs[k]].orient, eom |-> new[k].eom, best |-> refs[k] - 1,
                     ref |-> 0, match |-> prev[refs[k]].pos, indexInFrame |-> index]
      BY <2>1, <2>3, <2>4 DEF Placed
    <3>3. list[k] \in PatchType
      <4>1. PICK q \in PatchType : q = prev[refs[k]]
        BY <3>1
      <4>2. q.orient \in Orientations /\ q.pos \in Int
        BY DEF PatchType
      <4>3. PICK best \in Int : best = refs[k] - 1
        BY <3>1
      <4> QED BY <2>6, <2>7, <3>2, <4>1, <4>2, <4>3 DEF PatchType
    <3>4. list[k].best + 1 = refs[k]
      BY <3>1, <3>2
    <3> QED BY <1>5, <2>3, <3>1, <3>2, <3>3, <3>4 DEF NamesIn, NamesSameTile, Matches
  <2>5. CASE ~(k <= Len(refs))
    <3>1. list[k] = [pos |-> pos, view |-> new[k].view, tile |-> new[k].tile,
                     orient |-> new[k].orient, eom |-> new[k].eom, best |-> invalid,
                     ref |-> 0, match |-> invalid, indexInFrame |-> index]
      BY <2>1, <2>3, <2>5 DEF Placed
    <3>2. list[k] \in PatchType
      BY <2>6, <2>7, <3>1 DEF PatchType
    <3> QED BY <2>3, <3>1, <3>2 DEF NamesIn, NamesSameTile
  <2> QED BY <2>4, <2>5
<1>8. list \in Seq(PatchType)
  <2>1. list = [k \in 1 .. n |-> list[k]]
    BY <1>1, <1>2 DEF PlacedList
  <2>2. \A k \in 1 .. n : list[k] \in PatchType
    BY <1>7
  <2> QED BY <2>1, <2>2, IsSeq
<1> QED BY <1>1, <1>4, <1>7, <1>8 DEF Numbered

(* the patches of a tile with their indices moved along *)
MovedAlong(own, prevTile) == Mapped(own, LAMBDA p : [p EXCEPT !.best = RemapBest(@, prevTile)])

(* The remapping changes indices only, and from naming a patch in the frame
   before to naming the same one in its tile. *)
LEMMA MovedAlongIs ==
  ASSUME NEW list \in Seq(PatchType), NEW prev \in Seq(PatchType), NEW t, NEW prevTile \in Seq(PatchType),
         Numbered(prev), AlikeLists(prevTile, TilePatches(prev, t)),
         \A k \in DOMAIN list : NamesIn(list[k], prev) /\ NamesSameTile(list[k], prev)
  PROVE  LET own == TilePatches(list, t)
             c   == MovedAlong(own, prevTile)
         IN  /\ c \in Seq(PatchType) /\ AlikeLists(c, own)
             /\ \A i \in DOMAIN c : c[i].ref = own[i].ref /\ NamesIn(c[i], prevTile)
<1>1. PICK own \in Seq(PatchType) : own = TilePatches(list, t)
  BY TilePatchesAt
<1>2. PICK n \in Nat : n = Len(own) /\ DOMAIN own = 1 .. n
  OBVIOUS
<1>3. PICK c : c = MovedAlong(own, prevTile)
  OBVIOUS
<1>4. c = [i \in 1 .. n |-> [own[i] EXCEPT !.best = RemapBest(@, prevTile)]]
  BY <1>2, <1>3 DEF MovedAlong, Mapped
<1>5. PICK q, prevOwn : q = TilePlaces(prev, t) /\ prevOwn = TilePatches(prev, t)
  OBVIOUS
<1>6. /\ DOMAIN prevOwn = DOMAIN q
      /\ \A j \in DOMAIN q : q[j] \in DOMAIN prev /\ prevOwn[j] = prev[q[j]]
      /\ \A x \in DOMAIN prev : prev[x].tile = t => \E j \in DOMAIN q : q[j] = x
  BY <1>5, TilePatchesAt
<1>7. AlikeLists(prevTile, prevOwn) /\ IndexedUp(prevOwn)
  BY <1>5, TileIndexedUp
<1>8. IndexedUp(prevTile)
  BY <1>7 DEF AlikeLists, Alike, IndexedUp
<1>9. ASSUME NEW i \in 1 .. n
      PROVE  c[i] \in PatchType /\ Alike(c[i], own[i]) /\ c[i].ref = own[i].ref /\ NamesIn(c[i], prevTile)
  <2>1. own[i] \in PatchType /\ c[i] = [own[i] EXCEPT !.best = RemapBest(own[i].best, prevTile)]
    BY <1>2, <1>4
  <2>2. Alike(c[i], own[i]) /\ c[i].ref = own[i].ref /\ c[i].match = own[i].match
    BY <2>1 DEF Alike, PatchType
  <2>3. c[i].best = RemapBest(own[i].best, prevTile)
    BY <2>1 DEF PatchType
  <2>4. NamesIn(own[i], prev) /\ NamesSameTile(own[i], prev) /\ own[i].tile = t
    <3>1. PICK p : p = TilePlaces(list, t)
      OBVIOUS
    <3>2. i \in DOMAIN p /\ p[i] \in DOMAIN list /\ own[i] = list[p[i]] /\ list[p[i]].tile = t
      BY <1>1, <1>2, <3>1, TilePatchesAt
    <3> QED BY <3>2
  <2>5. CASE own[i].best = invalid
    <3>1. c[i].best = invalid
      BY <2>3, <2>5 DEF RemapBest
    <3>2. c[i] \in PatchType
      <4>1. RemapBest(own[i].best, prevTile) \in Int
        BY <2>3, <3>1 DEF invalid
      <4> QED BY <2>1, <4>1, PatchWith
    <3> QED BY <2>2, <3>1, <3>2 DEF NamesIn
  <2>6. CASE own[i].best # invalid
    <3>1. PICK x \in DOMAIN prev : x = own[i].best + 1 /\ prev[x].tile = t /\ Matches(own[i], prev[x])
      BY <2>4, <2>6 DEF NamesIn, NamesSameTile
    <3>2. PICK y \in DOMAIN prevOwn : prevOwn[y] = prev[x]
      BY <1>6, <3>1
    <3>3. y \in DOMAIN prevTile /\ Alike(prevTile[y], prev[x])
      BY <1>7, <3>2 DEF AlikeLists
    <3>4. prevTile[y].indexInFrame = own[i].best
      <4>1. prev[x].indexInFrame = x - 1 /\ own[i].best \in Int
        BY <2>1 DEF Numbered, PatchType
      <4> QED BY <3>1, <3>3, <4>1 DEF Alike
    <3>5. c[i].best = y - 1 /\ y \in Nat
      BY <1>8, <2>3, <3>3, <3>4, RemapBestIs
    <3>6. c[i] \in PatchType
      <4>1. RemapBest(own[i].best, prevTile) \in Int
        BY <2>3, <3>5
      <4> QED BY <2>1, <4>1, PatchWith
    <3>7. c[i].best + 1 = y
      BY <3>5
    <3>8. Matches(c[i], prevTile[y])
      BY <2>2, <3>1, <3>3 DEF Matches, Alike
    <3> QED BY <2>2, <3>3, <3>6, <3>7, <3>8 DEF NamesIn
  <2> QED BY <2>5, <2>6
<1>10. DOMAIN c = 1 .. n
  BY <1>4
<1>11. c \in Seq(PatchType)
  <2>1. c = [i \in 1 .. n |-> c[i]]
    BY <1>4
  <2>2. \A i \in 1 .. n : c[i] \in PatchType
    BY <1>9
  <2> QED BY <2>1, <2>2, IsSeq
<1> QED BY <1>1, <1>2, <1>3, <1>9, <1>10, <1>11 DEF AlikeLists


-----------------------------------------------------------------------------
(***************************************************************************)
(* The invariant.                                                          *)
(***************************************************************************)
Own(f, t) == TilePatches(title[f], t)

Phases == {"place", "adjust", "reconstruct", "reverse", "code", "decode", "done", "stuck"}
Reversed == phase \in {"code", "decode", "done", "stuck"}
Sent == phase \in {"decode", "done"}

Types ==
  /\ mode \in Modes /\ phase \in Phases /\ frame \in Nat
  /\ title \in [Frames -> Seq(PatchType)]
  /\ tiles \in [Frames -> [Tiles -> Seq(PatchType)]]
  /\ DOMAIN members = Frames /\ DOMAIN decoded = Frames /\ DOMAIN eomFound = Frames

PhaseInv ==
  /\ phase \in {"place", "decode"} => frame \in Frames
  /\ phase = "adjust" => frame >= 2
  /\ phase \in {"reconstruct", "reverse"} /\ mode.refs # 1 => frame >= NumFrames

NumberedInv == \A f \in Frames : Numbered(title[f])

UnplacedInv == phase = "place" => \A f \in Frames, t \in Tiles : f >= frame => tiles[f][t] = <<>>

(* the patches of a tile are those of its frame, in their order *)
Lists(f, t) == IF mode.reverse /\ Reversed THEN Reverse(Own(f, t)) ELSE Own(f, t)

KeptInv ==
  \A f \in Frames, t \in Tiles :
    IF phase = "place" THEN f < frame => AlikeLists(tiles[f][t], Own(f, t))
    ELSE AlikeLists(tiles[f][t], Lists(f, t)) \/ Emptied(f, t)

MembersInv ==
  mode.eom => \A f \in Frames, t \in Tiles :
    (phase = "place" => f < frame) => members[f][t] = EomMembers(Own(f, t))

(* p, a patch of tile t of frame f, names one of a frame before *)
Names(p, lists, f, t) ==
  p.best # invalid =>
    LET r == RefAfoc(f, p.ref)
    IN  r >= 0 /\ p.best + 1 \in DOMAIN lists[r][t] /\ Matches(p, lists[r][t][p.best + 1])

(* the reference frame exists *)
RefersBack(p, f) == p.best # invalid => RefAfoc(f, p.ref) >= 0

RangeInv == \A f \in Frames, t \in Tiles : \A i \in DOMAIN tiles[f][t] : RefersBack(tiles[f][t][i], f)

(* a frame that is to be matched again may name what has been emptied since *)
NamesInv ==
  \A f \in Frames, t \in Tiles : \A i \in DOMAIN tiles[f][t] :
    LET p == tiles[f][t][i]
    IN  (phase = "adjust" /\ mode.refs # 1 => f < frame) /\ (Reversed => ~IndexMoved(f, t, p))
        => Names(p, tiles, f, t)

OwnEom(f, t) == Positions(Chosen(title[f], EomPlaces(title[f], t)))

EomInv ==
  mode.eom =>
    \A f \in Frames, t \in Tiles :
      /\ Reversed \/ phase = "reverse" => eomAdded[f][t] = OwnEom(f, t) \/ Emptied(f, t)
      /\ phase = "done" \/ (phase = "decode" /\ f < frame) => eomFound[f][t] = OwnEom(f, t) \/ Emptied(f, t)

UnitsInv == Sent => units = [f \in Frames |-> [t \in Tiles |-> CodeTile(f, t)]]

(* a decoded list has the positions of an encoder's, and its views and
   orientations *)
SamePositions(got, list) ==
  /\ DOMAIN got = DOMAIN list
  /\ got = [i \in DOMAIN list |-> [pos |-> list[i].pos, view |-> got[i].view, orient |-> got[i].orient]]

SameKind(got, list) == \A i \in DOMAIN list : got[i].view = list[i].view /\ got[i].orient = list[i].orient

NothingMoved == \A f \in Frames, t \in Tiles : \A i \in DOMAIN tiles[f][t] : ~IndexMoved(f, t, tiles[f][t][i])

DecodedInv ==
  \A f \in Frames, t \in Tiles :
    phase = "done" \/ (phase = "decode" /\ f < frame) =>
      /\ SamePositions(decoded[f][t], tiles[f][t])
      /\ NothingMoved => SameKind(decoded[f][t], tiles[f][t])

Inv ==
  /\ Types /\ PhaseInv /\ NumberedInv /\ UnplacedInv /\ KeptInv /\ MembersInv
  /\ RangeInv /\ NamesInv /\ EomInv /\ UnitsInv /\ DecodedInv


(* Nothing is placed at first. *)
LEMMA InitInv == Init => Inv
<1> SUFFICES ASSUME Init PROVE Inv
  OBVIOUS
<1>1. NoTiles = [f \in Frames |-> [t \in Tiles |-> <<>>]]
  BY DEF NoTiles
<1>2. \A f \in Frames : title[f] = <<>> /\ \A t \in Tiles : tiles[f][t] = <<>>
  BY <1>1 DEF Init
<1>3. Types
  <2>1. <<>> \in Seq(PatchType)
    OBVIOUS
  <2> QED BY <1>1, <2>1 DEF Init, Types, Phases
<1>4. phase = "place" /\ frame = 0 /\ 0 \in Frames
  BY FrameAssumption DEF Init, Frames
<1>5. \A f \in Frames : ~(f < frame)
  BY <1>4 DEF Frames
<1>6. \A f \in Frames, t \in Tiles : DOMAIN tiles[f][t] = {}
  BY <1>2
<1> QED BY <1>2, <1>3, <1>4, <1>5, <1>6
        DEF Inv, PhaseInv, NumberedInv, Numbered, UnplacedInv, KeptInv, MembersInv, RangeInv, NamesInv,
            EomInv, UnitsInv, DecodedInv, Reversed, Sent

(* A list has the patches it has. *)
LEMMA AlikeItself == \A list : AlikeLists(list, list)
  BY DEF AlikeLists, Alike

(* a list, its tiles and their EOM patches as they are placed *)
PlacedFrame(list, ts, ms) ==
  /\ list \in Seq(PatchType) /\ Numbered(list)
  /\ ts \in [Tiles -> Seq(PatchType)]
  /\ \A t \in Tiles : AlikeLists(ts[t], TilePatches(list, t))
  /\ \A t \in Tiles : \A i \in DOMAIN ts[t] :
       ts[t][i].ref = 0 /\ (ts[t][i].best # invalid => frame # 0 /\ NamesIn(ts[t][i], tiles[frame - 1][t]))
  /\ mode.eom => \A t \in Tiles : ms[t] = EomMembers(TilePatches(list, t))

(* What placing a frame adds to the three lists of lists. *)
LEMMA PlaceFrameDoes ==
  ASSUME Inv, NEW new \in Segmentations[mode], NEW matched, PlaceFrame(new, matched)
  PROVE  \E list, ts, ms : /\ PlacedFrame(list, ts, ms)
                           /\ title' = [title EXCEPT ![frame] = list]
                           /\ tiles' = [tiles EXCEPT ![frame] = ts]
                           /\ members' = [members EXCEPT ![frame] = ms]
<1>1. phase = "place" /\ frame \in Frames /\ frame \in Nat /\ mode \in Modes
  BY DEF Inv, PhaseInv, Types, PlaceFrame
<1>2. PICK prev \in Seq(PatchType) : prev = IF frame = 0 THEN <<>> ELSE title[frame - 1]
  <2>1. frame # 0 => frame - 1 \in Frames
    BY <1>1, FrameAssumption DEF Frames
  <2>2. <<>> \in Seq(PatchType)
    OBVIOUS
  <2> QED BY <2>1, <2>2 DEF Inv, Types
<1>3. PICK m \in Nat : m = Len(prev) /\ DOMAIN prev = 1 .. m
  OBVIOUS
<1>4. PICK refs : refs = Chosen([k \in DOMAIN prev |-> k], matched)
  OBVIOUS
<1>5. refs = InOrder(matched, m)
  BY <1>3, <1>4 DEF InOrder, Numbers
<1>6. refs \in Seq(DOMAIN prev)
  BY <1>3, <1>5, PlacesInOrder
<1>7. new \in Seq(Segments)
  <2>1. new \in BoundedSeq(Segments, MaxPatches)
    BY <1>1, SegmentAssumption
  <2> QED BY <2>1, FrameAssumption DEF BoundedSeq, SeqOf
<1>8. PICK list : list = PlacedList(prev, refs, new, frame)
  OBVIOUS
<1>9. /\ Len(refs) <= Len(new)
      /\ \A k \in DOMAIN refs : Matchable(prev[refs[k]], new[k])
      /\ title' = [title EXCEPT ![frame] = list]
      /\ tiles' = [tiles EXCEPT ![frame] =
           [t \in Tiles |-> IF frame = 0 THEN TilePatches(list, t)
                            ELSE MovedAlong(TilePatches(list, t), tiles[frame - 1][t])]]
      /\ members' = [members EXCEPT ![frame] =
           [t \in Tiles |-> IF mode.eom THEN EomMembers(TilePatches(list, t)) ELSE <<>>]]
  BY <1>2, <1>4, <1>8 DEF PlaceFrame, PlacedList, MovedAlong
<1>10. /\ list \in Seq(PatchType) /\ Numbered(list)
       /\ \A k \in DOMAIN list :
            list[k].ref = 0 /\ NamesIn(list[k], prev) /\ NamesSameTile(list[k], prev)
  BY <1>1, <1>6, <1>7, <1>8, <1>9, PlacedIs
<1>11. PICK ts : ts = [t \in Tiles |-> IF frame = 0 THEN TilePatches(list, t)
                                       ELSE MovedAlong(TilePatches(list, t), tiles[frame - 1][t])]
  OBVIOUS
<1>12. PICK ms : ms = [t \in Tiles |-> IF mode.eom THEN EomMembers(TilePatches(list, t)) ELSE <<>>]
  OBVIOUS
<1>13. ASSUME NEW t \in Tiles
       PROVE  /\ ts[t] \in Seq(PatchType)
              /\ AlikeLists(ts[t], TilePatches(list, t))
              /\ \A i \in DOMAIN ts[t] :
                   ts[t][i].ref = 0 /\ (ts[t][i].best # invalid => frame # 0 /\ NamesIn(ts[t][i], tiles[frame - 1][t]))
  <2>1. PICK own \in Seq(PatchType) : own = TilePatches(list, t)
    BY <1>10, TilePatchesAt
  <2>2. PICK p : p = TilePlaces(list, t)
    OBVIOUS
  <2>3. ASSUME NEW i \in DOMAIN own PROVE p[i] \in DOMAIN list /\ own[i] = list[p[i]]
    BY <1>10, <2>1, <2>2, TilePatchesAt
  <2>4. CASE frame = 0
    <3>1. ts[t] = own
      BY <1>11, <2>1, <2>4
    <3>2. DOMAIN prev = {}
      BY <1>2, <2>4
    <3>3. \A i \in DOMAIN own : own[i].ref = 0 /\ own[i].best = invalid
      BY <1>10, <2>3, <3>2 DEF NamesIn
    <3> QED BY <2>1, <3>1, <3>3, AlikeItself
  <2>5. CASE frame # 0
    <3>1. frame - 1 \in Frames /\ frame - 1 < frame /\ prev = title[frame - 1]
      BY <1>1, <1>2, <2>5, FrameAssumption DEF Frames
    <3>2. PICK prevTile \in Seq(PatchType) : prevTile = tiles[frame - 1][t]
      BY <3>1 DEF Inv, Types
    <3>3. AlikeLists(prevTile, TilePatches(prev, t))
      BY <1>1, <3>1, <3>2 DEF Inv, KeptInv, Own
    <3>4. Numbered(prev)
      BY <3>1 DEF Inv, NumberedInv
    <3>5. PICK c : c = MovedAlong(own, prevTile)
      OBVIOUS
    <3>6. ts[t] = c
      BY <1>11, <2>1, <2>5, <3>2, <3>5
    <3>7. /\ c \in Seq(PatchType) /\ AlikeLists(c, own)
          /\ \A i \in DOMAIN c : c[i].ref = own[i].ref /\ NamesIn(c[i], prevTile)
      BY <1>10, <2>1, <3>3, <3>4, <3>5, MovedAlongIs
    <3>8. \A i \in DOMAIN c : own[i].ref = 0
      BY <1>10, <2>3, <3>7 DEF AlikeLists
    <3> QED BY <2>1, <2>5, <3>2, <3>6, <3>7, <3>8
  <2> QED BY <2>4, <2>5
<1>14. ts \in [Tiles -> Seq(PatchType)]
  BY <1>11, <1>13
<1>15. mode.eom => \A t \in Tiles : ms[t] = EomMembers(TilePatches(list, t))
  BY <1>12
<1>16. PlacedFrame(list, ts, ms)
  BY <1>10, <1>13, <1>14, <1>15 DEF PlacedFrame
<1> QED BY <1>9, <1>11, <1>12, <1>16


(* Placing a frame keeps the invariant: the frames before it are as they
   were, and it names patches of the one before. *)
LEMMA PlaceFrameInv ==
  ASSUME Inv, NEW new \in Segmentations[mode], NEW matched, PlaceFrame(new, matched)
  PROVE  Inv'
<1>1. PICK list, ts, ms : /\ PlacedFrame(list, ts, ms)
                          /\ title' = [title EXCEPT ![frame] = list]
                          /\ tiles' = [tiles EXCEPT ![frame] = ts]
                          /\ members' = [members EXCEPT ![frame] = ms]
  BY PlaceFrameDoes
<1>2. /\ phase = "place" /\ frame \in Frames
      /\ UNCHANGED <<mode, eomAdded, units, decoded, eomFound>>
      /\ \/ frame + 1 < NumFrames /\ frame' = frame + 1 /\ phase' = "place"
         \/ frame + 1 = NumFrames /\ frame' = 2 /\ phase' = "adjust"
  BY DEF Inv, PhaseInv, PlaceFrame, decVars
<1>3. /\ \A f \in Frames : title'[f] = IF f = frame THEN list ELSE title[f]
      /\ \A f \in Frames : tiles'[f] = IF f = frame THEN ts ELSE tiles[f]
      /\ \A f \in Frames : members'[f] = IF f = frame THEN ms ELSE members[f]
  BY <1>1 DEF Inv, Types
<1>4. Types'
  <2>1. title' \in [Frames -> Seq(PatchType)]
    BY <1>1, <1>2 DEF Inv, Types, PlacedFrame
  <2>2. tiles' \in [Frames -> [Tiles -> Seq(PatchType)]]
    BY <1>1, <1>2 DEF Inv, Types, PlacedFrame
  <2>3. frame' \in Nat
    BY <1>2 DEF Inv, Types
  <2> QED BY <1>1, <1>2, <2>1, <2>2, <2>3 DEF Inv, Types, Phases
<1>5. PhaseInv'
  BY <1>2, FrameAssumption DEF Frames, PhaseInv
<1>6. NumberedInv'
  BY <1>1, <1>3 DEF Inv, NumberedInv, PlacedFrame
<1>7. ASSUME NEW f \in Frames
      PROVE  /\ f \in Nat /\ f < NumFrames /\ frame \in Nat
             /\ phase' = "place" => (f < frame' <=> f < frame \/ f = frame)
             /\ phase' = "adjust" => f < frame \/ f = frame
  BY <1>2, FrameAssumption DEF Frames
<1>8. UnplacedInv'
  <2>1. ASSUME NEW f \in Frames, NEW t \in Tiles, phase' = "place", f >= frame' PROVE tiles'[f][t] = <<>>
    <3>1. f # frame /\ f >= frame
      BY <1>2, <1>7, <2>1
    <3> QED BY <1>2, <1>3, <3>1 DEF Inv, UnplacedInv
  <2> QED BY <2>1 DEF UnplacedInv
<1>9. ~Reversed' /\ ~Sent' /\ phase' # "reverse"
  BY <1>2 DEF Reversed, Sent
<1>10. KeptInv'
  <2>1. ASSUME NEW f \in Frames, NEW t \in Tiles, f < frame \/ f = frame
        PROVE  AlikeLists(tiles'[f][t], TilePatches(title'[f], t))
    <3>1. CASE f = frame
      BY <1>1, <1>3, <3>1 DEF PlacedFrame
    <3>2. CASE f # frame
      BY <1>2, <1>3, <2>1, <3>2 DEF Inv, KeptInv, Own
    <3> QED BY <3>1, <3>2
  <2>2. \A f \in Frames, t \in Tiles :
          (phase' = "place" => f < frame') => AlikeLists(tiles'[f][t], TilePatches(title'[f], t))
    BY <1>2, <1>7, <2>1
  <2> QED BY <1>9, <2>2 DEF KeptInv, Lists, Own
<1>11. MembersInv'
  <2>1. ASSUME NEW f \in Frames, NEW t \in Tiles, f < frame \/ f = frame, mode.eom
        PROVE  members'[f][t] = EomMembers(TilePatches(title'[f], t))
    <3>1. CASE f = frame
      BY <1>1, <1>3, <2>1, <3>1 DEF PlacedFrame
    <3>2. CASE f # frame
      BY <1>2, <1>3, <2>1, <3>2 DEF Inv, MembersInv, Own
    <3> QED BY <3>1, <3>2
  <2>2. \A f \in Frames, t \in Tiles :
          mode.eom /\ (phase' = "place" => f < frame') => members'[f][t] = EomMembers(TilePatches(title'[f], t))
    BY <1>2, <1>7, <2>1
  <2> QED BY <1>2, <2>2 DEF MembersInv, Own
<1>12. ASSUME NEW f \in Frames, NEW t \in Tiles, NEW i \in DOMAIN tiles'[f][t]
       PROVE  Names(tiles'[f][t][i], tiles', f, t)
  <2>1. CASE f < frame
    <3>1. tiles'[f][t] = tiles[f][t]
      BY <1>3, <1>7, <2>1
    <3>2. PICK p \in PatchType : p = tiles[f][t][i]
      BY <1>12, <3>1 DEF Inv, Types
    <3>3. Names(p, tiles, f, t)
      BY <1>2, <1>12, <3>1, <3>2 DEF Inv, NamesInv, Reversed
    <3>4. PICK r : r = RefAfoc(f, p.ref)
      OBVIOUS
    <3>5. r \in Int /\ r < f
      BY <1>7, <3>4 DEF RefAfoc, PatchType
    <3>7. r >= 0 => r \in Frames /\ r # frame
      BY <1>7, <2>1, <3>5, FrameAssumption DEF Frames
    <3>6. r >= 0 => r \in Frames /\ tiles'[r] = tiles[r]
      BY <1>3, <3>7
    <3> QED BY <3>1, <3>2, <3>3, <3>4, <3>6 DEF Names
  <2>2. CASE f = frame
    <3>1. tiles'[f][t] = ts[t]
      BY <1>3, <2>2
    <3>2. PICK p : p = ts[t][i]
      OBVIOUS
    <3>3. p.ref = 0 /\ (p.best # invalid => frame # 0 /\ NamesIn(p, tiles[frame - 1][t]))
      BY <1>1, <1>12, <3>1, <3>2 DEF PlacedFrame
    <3>4. RefAfoc(f, p.ref) = frame - 1
      BY <1>7, <2>2, <3>3 DEF RefAfoc
    <3>5. frame # 0 => frame - 1 \in Frames /\ frame - 1 # frame /\ frame - 1 >= 0
      BY <1>2, FrameAssumption DEF Frames
    <3>6. frame # 0 => tiles'[frame - 1] = tiles[frame - 1]
      BY <1>3, <3>5
    <3> QED BY <3>1, <3>2, <3>3, <3>4, <3>5, <3>6 DEF Names, NamesIn
  <2>3. CASE f > frame
    <3>1. tiles'[f][t] = <<>>
      BY <1>2, <1>3, <1>7, <2>3 DEF Inv, UnplacedInv
    <3> QED BY <1>12, <3>1
  <2> QED BY <1>7, <2>1, <2>2, <2>3
<1>13. RangeInv'
  BY <1>12 DEF RangeInv, RefersBack, Names
<1>14. NamesInv'
  BY <1>12 DEF NamesInv
<1>15. phase' # "done" /\ phase' # "decode"
  BY <1>2
<1>16. EomInv' /\ UnitsInv' /\ DecodedInv'
  BY <1>9, <1>15 DEF EomInv, UnitsInv, DecodedInv
<1> QED BY <1>4, <1>5, <1>6, <1>8, <1>10, <1>11, <1>13, <1>14, <1>16 DEF Inv


-----------------------------------------------------------------------------
(***************************************************************************)
(* Matching again.                                                         *)
(***************************************************************************)
LEMMA AlikeFollows ==
  ASSUME NEW a, NEW b, NEW c, AlikeLists(a, b), AlikeLists(b, c)
  PROVE  AlikeLists(a, c)
BY DEF AlikeLists, Alike

(* A tile that is matched again has its patches in the order it had, or
   none, each naming a patch of a frame before. *)
LEMMA AdjustedIs ==
  ASSUME Inv, phase = "adjust", frame \in Frames, NEW t \in Tiles, NEW choice \in MatchChoices(frame, t)
  PROVE  LET c == Adjusted(frame, t, choice)
         IN  /\ c \in Seq(PatchType)
             /\ c = <<>> \/ AlikeLists(c, tiles[frame][t])
             /\ \A i \in DOMAIN c : Names(c[i], tiles, frame, t)
<1>1. PICK list \in Seq(PatchType) : list = tiles[frame][t]
  BY DEF Inv, Types
<1>2. PICK n \in Nat : n = Len(list) /\ DOMAIN list = 1 .. n
  OBVIOUS
<1>3. PICK c : c = Adjusted(frame, t, choice)
  OBVIOUS
<1>4. choice \in [1 .. n -> Candidates(frame, t) \cup {Unmatched}] /\ ValidChoice(frame, t, choice)
  BY <1>1, <1>2 DEF MatchChoices
<1>5. CASE \A i \in DOMAIN choice : choice[i].best = invalid
  <2>1. c = <<>>
    BY <1>3, <1>5 DEF Adjusted
  <2> QED BY <1>3, <2>1
<1>6. CASE ~(\A i \in DOMAIN choice : choice[i].best = invalid)
  <2>1. c = [i \in 1 .. n |->
               [list[i] EXCEPT !.best  = choice[i].best,
                               !.ref   = choice[i].ref,
                               !.match = IF choice[i].best = invalid THEN invalid
                                         ELSE RefPatch(frame, t, choice[i]).pos]]
    BY <1>1, <1>3, <1>4, <1>6 DEF Adjusted
  <2>2. ASSUME NEW i \in 1 .. n
        PROVE  c[i] \in PatchType /\ Alike(c[i], list[i]) /\ Names(c[i], tiles, frame, t)
    <3>1. PICK p \in PatchType : p = list[i]
      BY <1>2
    <3>2. PICK x : x = choice[i] /\ x \in Candidates(frame, t) \cup {Unmatched}
      BY <1>4
    <3>3. c[i] = [p EXCEPT !.best = x.best, !.ref = x.ref,
                           !.match = IF x.best = invalid THEN invalid ELSE RefPatch(frame, t, x).pos]
      BY <2>1, <3>1, <3>2
    <3>4. CASE x = Unmatched
      <4>1. x.best = invalid /\ x.ref = 0 /\ 0 \in Nat /\ invalid \in Int
        BY <3>4 DEF Unmatched, invalid
      <4>2. c[i] = [p EXCEPT !.best = invalid, !.ref = 0, !.match = invalid]
        BY <3>3, <4>1
      <4>3. c[i] \in PatchType
        BY <4>1, <4>2 DEF PatchType
      <4>4. Alike(c[i], p) /\ c[i].best = invalid
        BY <4>2 DEF Alike, PatchType
      <4> QED BY <3>1, <4>3, <4>4 DEF Names
    <3>5. CASE x # Unmatched
      <4>1. PICK ref \in 0 .. MinOf(frame, mode.refs) - 1 :
              \E b \in DOMAIN tiles[RefAfoc(frame, ref)][t] : x = [ref |-> ref, best |-> b - 1]
        BY <3>2, <3>5 DEF Candidates
      <4>2. PICK b \in DOMAIN tiles[RefAfoc(frame, ref)][t] : x = [ref |-> ref, best |-> b - 1]
        BY <4>1
      <4>3. mode.refs \in Nat /\ frame \in Nat
        BY ModeAssumption DEF Inv, Types
      <4>4. ref \in Nat /\ ref < frame
        BY <4>3 DEF MinOf
      <4>5. PICK r : r = RefAfoc(frame, ref)
        OBVIOUS
      <4>6. r >= 0 /\ r \in Frames
        BY <4>3, <4>4, <4>5, FrameAssumption DEF RefAfoc, Frames
      <4>7. PICK before \in Seq(PatchType) : before = tiles[r][t]
        BY <4>6 DEF Inv, Types
      <4>8. b \in Nat \ {0} /\ b \in DOMAIN before
        BY <4>2, <4>5, <4>7
      <4>9. x.ref = ref /\ x.best = b - 1 /\ x.best # invalid /\ b - 1 \in Int
        BY <4>2, <4>8 DEF invalid
      <4>10. PICK q \in PatchType : q = before[b]
        BY <4>8
      <4>11. RefPatch(frame, t, x) = q
        BY <4>5, <4>7, <4>8, <4>9, <4>10 DEF RefPatch, At
      <4>12. q.pos \in Int
        BY DEF PatchType
      <4>13. c[i] = [p EXCEPT !.best = b - 1, !.ref = ref, !.match = q.pos]
        BY <3>3, <4>9, <4>11
      <4>14. c[i] \in PatchType
        <5>1. PICK best \in Int, match \in Int : best = b - 1 /\ match = q.pos
          BY <4>9, <4>12
        <5> QED BY <4>4, <4>13, <5>1 DEF PatchType
      <4>15. Alike(c[i], p) /\ c[i].best = b - 1 /\ c[i].ref = ref /\ c[i].match = q.pos
        BY <4>13 DEF Alike, PatchType
      <4>16. Rematchable(q, p)
        <5>1. Rematchable(RefPatch(frame, t, choice[i]), tiles[frame][t][i])
          BY <1>4, <3>2, <4>9 DEF ValidChoice
        <5> QED BY <1>1, <3>1, <3>2, <4>11, <5>1
      <4>17. Matches(c[i], q)
        BY <4>15, <4>16 DEF Matches, Alike, Rematchable
      <4>18. c[i].best + 1 = b
        BY <4>8, <4>15
      <4> QED BY <3>1, <4>5, <4>6, <4>7, <4>8, <4>10, <4>14, <4>15, <4>17, <4>18 DEF Names
    <3> QED BY <3>4, <3>5
  <2>3. c \in Seq(PatchType) /\ DOMAIN c = 1 .. n
    <3>1. c = [i \in 1 .. n |-> c[i]]
      BY <2>1
    <3>2. \A i \in 1 .. n : c[i] \in PatchType
      BY <2>2
    <3> QED BY <3>1, <3>2, IsSeq
  <2> QED BY <1>1, <1>2, <1>3, <2>2, <2>3 DEF AlikeLists
<1> QED BY <1>5, <1>6

(* Matching a frame again keeps the invariant, though it may empty tiles
   that later frames still name: those are matched again as well. *)
LEMMA AdjustInv ==
  ASSUME Inv, adjustReferenceAtlasFrames
  PROVE  Inv'
<1>1. /\ phase = "adjust" /\ mode.refs # 1 /\ frame < NumFrames /\ frame \in Nat /\ frame >= 2
      /\ frame' = frame + 1
      /\ UNCHANGED <<mode, phase, title, members, eomAdded, units, decoded, eomFound>>
  BY DEF Inv, Types, PhaseInv, adjustReferenceAtlasFrames, decVars
<1>2. frame \in Frames
  BY <1>1, FrameAssumption DEF Frames
<1>3. PICK choice : /\ \A t \in Tiles : choice[t] \in MatchChoices(frame, t)
                    /\ tiles' = [tiles EXCEPT ![frame] = [t \in Tiles |-> Adjusted(frame, t, choice[t])]]
  BY DEF adjustReferenceAtlasFrames
<1>4. PICK ts : ts = [t \in Tiles |-> Adjusted(frame, t, choice[t])]
  OBVIOUS
<1>5. ASSUME NEW t \in Tiles
      PROVE  /\ ts[t] \in Seq(PatchType)
             /\ ts[t] = <<>> \/ AlikeLists(ts[t], tiles[frame][t])
             /\ \A i \in DOMAIN ts[t] : Names(ts[t][i], tiles, frame, t)
  BY <1>1, <1>2, <1>3, <1>4, AdjustedIs
<1>6. \A f \in Frames : tiles'[f] = IF f = frame THEN ts ELSE tiles[f]
  BY <1>3, <1>4 DEF Inv, Types
<1>7. Types'
  <2>1. ts \in [Tiles -> Seq(PatchType)]
    BY <1>4, <1>5
  <2>2. tiles' \in [Frames -> [Tiles -> Seq(PatchType)]]
    BY <1>3, <1>4, <2>1 DEF Inv, Types
  <2> QED BY <1>1, <2>2 DEF Inv, Types
<1>8. PhaseInv' /\ NumberedInv' /\ UnplacedInv' /\ MembersInv'
  BY <1>1 DEF Inv, PhaseInv, NumberedInv, UnplacedInv, MembersInv, Own
<1>9. ~Reversed' /\ ~Sent' /\ phase' # "reverse" /\ phase' # "done" /\ phase' # "decode" /\ ~Reversed
  BY <1>1 DEF Reversed, Sent
<1>10. KeptInv'
  <2>1. ASSUME NEW f \in Frames, NEW t \in Tiles
        PROVE  AlikeLists(tiles'[f][t], Own(f, t)) \/ (tiles'[f][t] = <<>> /\ mode.refs # 1 /\ f >= 2)
    <3>1. AlikeLists(tiles[f][t], Own(f, t)) \/ (tiles[f][t] = <<>> /\ mode.refs # 1 /\ f >= 2)
      BY <1>1, <1>9 DEF Inv, KeptInv, Lists, Emptied
    <3>2. CASE f # frame
      BY <1>6, <3>1, <3>2
    <3>3. CASE f = frame
      <4>1. tiles'[f][t] = ts[t]
        BY <1>6, <3>3
      <4>2. CASE ts[t] = <<>>
        BY <1>1, <3>3, <4>1, <4>2
      <4>3. CASE AlikeLists(ts[t], tiles[f][t])
        <5>1. CASE tiles[f][t] = <<>>
          <6>1. DOMAIN ts[t] = {}
            BY <4>3, <5>1 DEF AlikeLists
          <6>2. ts[t] = <<>>
            BY <1>5, <6>1
          <6> QED BY <1>1, <3>3, <4>1, <6>2
        <5>2. CASE AlikeLists(tiles[f][t], Own(f, t))
          BY <4>1, <4>3, <5>2, AlikeFollows
        <5> QED BY <3>1, <5>1, <5>2
      <4> QED BY <1>5, <3>3, <4>2, <4>3
    <3> QED BY <3>2, <3>3
  <2>2. \A f \in Frames, t \in Tiles : Own(f, t)' = Own(f, t)
    BY <1>1 DEF Own
  <2> QED BY <1>1, <1>9, <2>1, <2>2 DEF KeptInv, Lists, Emptied
<1>11. ASSUME NEW f \in Frames, NEW t \in Tiles, NEW i \in DOMAIN tiles'[f][t], f <= frame
       PROVE  Names(tiles'[f][t][i], tiles', f, t)
  <2>1. PICK p \in PatchType : p = tiles'[f][t][i]
    BY <1>7, <1>11 DEF Types
  <2>2. Names(p, tiles, f, t)
    <3>1. CASE f = frame
      BY <1>5, <1>6, <1>11, <2>1, <3>1
    <3>2. CASE f # frame
      <4>1. f < frame /\ tiles'[f] = tiles[f]
        BY <1>1, <1>6, <1>11, <3>2, FrameAssumption DEF Frames
      <4> QED BY <1>9, <1>11, <2>1, <4>1 DEF Inv, NamesInv
    <3> QED BY <3>1, <3>2
  <2>3. PICK r : r = RefAfoc(f, p.ref)
    OBVIOUS
  <2>4. r \in Int /\ r < f
    BY <2>3, FrameAssumption DEF RefAfoc, PatchType, Frames
  <2>5. r >= 0 => r \in Frames /\ r # frame
    BY <1>1, <1>11, <2>4, FrameAssumption DEF Frames
  <2>6. r >= 0 => tiles'[r] = tiles[r]
    BY <1>6, <2>5
  <2> QED BY <2>1, <2>2, <2>3, <2>6 DEF Names
<1>12. NamesInv'
  <2>1. \A f \in Frames : f < frame' => f <= frame
    BY <1>1, FrameAssumption DEF Frames
  <2> QED BY <1>1, <1>11, <2>1 DEF NamesInv
<1>13. RangeInv'
  <2>1. ASSUME NEW f \in Frames, NEW t \in Tiles, NEW i \in DOMAIN tiles'[f][t]
        PROVE  RefersBack(tiles'[f][t][i], f)
    <3>1. CASE f <= frame
      BY <1>11, <3>1 DEF Names, RefersBack
    <3>2. CASE ~(f <= frame)
      <4>1. tiles'[f] = tiles[f]
        BY <1>1, <1>6, <3>2
      <4> QED BY <2>1, <4>1 DEF Inv, RangeInv
    <3> QED BY <3>1, <3>2
  <2> QED BY <2>1 DEF RangeInv
<1>14. EomInv' /\ UnitsInv' /\ DecodedInv'
  BY <1>9 DEF EomInv, UnitsInv, DecodedInv
<1> QED BY <1>7, <1>8, <1>10, <1>12, <1>13, <1>14 DEF Inv

(* When all frames have been matched again every index names its patch. *)
LEMMA EndAdjustInv ==
  ASSUME Inv, EndAdjust
  PROVE  Inv'
<1>1. /\ phase = "adjust" /\ (mode.refs = 1 \/ frame >= NumFrames) /\ phase' = "reconstruct"
      /\ UNCHANGED <<mode, frame, title, tiles, members, eomAdded, units, decoded, eomFound>>
  BY DEF EndAdjust, decVars
<1>2. /\ ~Reversed /\ ~Reversed' /\ ~Sent'
      /\ phase' # "reverse" /\ phase' # "done" /\ phase' # "decode" /\ phase' # "place" /\ phase' # "adjust"
  BY <1>1 DEF Reversed, Sent
<1>3. Types' /\ PhaseInv'
  BY <1>1 DEF Inv, Types, Phases, PhaseInv
<1>4. NumberedInv' /\ UnplacedInv' /\ MembersInv' /\ RangeInv'
  BY <1>1, <1>2 DEF Inv, NumberedInv, UnplacedInv, MembersInv, Own, RangeInv
<1>5. KeptInv'
  <2>1. \A f \in Frames, t \in Tiles : Own(f, t)' = Own(f, t) /\ Emptied(f, t)' = Emptied(f, t)
    BY <1>1 DEF Own, Emptied
  <2>2. \A f \in Frames, t \in Tiles : AlikeLists(tiles[f][t], Own(f, t)) \/ Emptied(f, t)
    BY <1>1, <1>2 DEF Inv, KeptInv, Lists
  <2> QED BY <1>1, <1>2, <2>1, <2>2 DEF KeptInv, Lists
<1>6. NamesInv'
  <2>1. \A f \in Frames : mode.refs # 1 => f < frame
    BY <1>1, FrameAssumption DEF Inv, Types, Frames
  <2>2. ASSUME NEW f \in Frames, NEW t \in Tiles, NEW i \in DOMAIN tiles[f][t] PROVE Names(tiles[f][t][i], tiles, f, t)
    BY <1>2, <2>1, <2>2 DEF Inv, NamesInv
  <2> QED BY <1>1, <2>2 DEF NamesInv
<1>7. EomInv' /\ UnitsInv' /\ DecodedInv'
  BY <1>2 DEF EomInv, UnitsInv, DecodedInv
<1> QED BY <1>3, <1>4, <1>5, <1>6, <1>7 DEF Inv


-----------------------------------------------------------------------------
(***************************************************************************)
(* Reconstructing and reversing.                                           *)
(***************************************************************************)
LEMMA EomPositionsAre ==
  ASSUME Types, NEW f \in Frames, NEW t \in Tiles, NEW list, AlikeLists(list, Own(f, t)), NEW m, m = EomMembers(Own(f, t))
  PROVE  /\ m \in Seq(Nat) /\ \A j \in DOMAIN m : m[j] + 1 \in DOMAIN list
         /\ [j \in DOMAIN m |-> At(list, m[j]).pos] = OwnEom(f, t)
<1>1. title[f] \in Seq(PatchType)
  BY DEF Types
<1>2. PICK own : own = Own(f, t) /\ own = TilePatches(title[f], t)
  BY DEF Own
<1>3. /\ m \in Seq(Nat)
      /\ \A j \in DOMAIN m : m[j] + 1 \in DOMAIN own
      /\ [j \in DOMAIN m |-> own[m[j] + 1].pos] = OwnEom(f, t)
  BY <1>1, <1>2, EomMembersAre DEF OwnEom
<1>4. \A j \in DOMAIN m : m[j] + 1 \in DOMAIN list /\ At(list, m[j]).pos = own[m[j] + 1].pos
  BY <1>2, <1>3 DEF AlikeLists, Alike, At
<1> QED BY <1>3, <1>4

(* The encoder's reconstruction takes the points of the EOM patch's
   members. *)
LEMMA ReconstructInv ==
  ASSUME Inv, generatePointCloud
  PROVE  Inv'
<1>1. /\ phase = "reconstruct" /\ phase' = "reverse"
      /\ UNCHANGED <<mode, frame, title, tiles, members, units, decoded, eomFound>>
  BY DEF generatePointCloud, decVars
<1>2. /\ ~Reversed /\ ~Reversed' /\ ~Sent' /\ phase' # "done" /\ phase' # "decode"
      /\ phase # "place" /\ phase' # "place" /\ phase # "adjust" /\ phase' # "adjust"
  BY <1>1 DEF Reversed, Sent
<1>3. Types' /\ PhaseInv'
  BY <1>1 DEF Inv, Types, Phases, PhaseInv
<1>4. NumberedInv' /\ UnplacedInv' /\ MembersInv' /\ RangeInv'
  BY <1>1, <1>2 DEF Inv, NumberedInv, UnplacedInv, MembersInv, Own, RangeInv
<1>5. \A f \in Frames, t \in Tiles : Own(f, t)' = Own(f, t) /\ Emptied(f, t)' = Emptied(f, t) /\ OwnEom(f, t)' = OwnEom(f, t)
  BY <1>1 DEF Own, Emptied, OwnEom
<1>6. \A f \in Frames, t \in Tiles : AlikeLists(tiles[f][t], Own(f, t)) \/ Emptied(f, t)
  BY <1>1, <1>2 DEF Inv, KeptInv, Lists
<1>7. KeptInv'
  BY <1>1, <1>2, <1>5, <1>6 DEF KeptInv, Lists
<1>8. NamesInv'
  BY <1>1, <1>2 DEF Inv, NamesInv
<1>9. EomInv'
  <2>1. ASSUME mode.eom, NEW f \in Frames, NEW t \in Tiles, ~Emptied(f, t)
        PROVE  eomAdded'[f][t] = OwnEom(f, t)
    <3>1. PICK m : m = members[f][t] /\ m = EomMembers(Own(f, t))
      BY <1>2, <2>1 DEF Inv, MembersInv
    <3>2. [j \in DOMAIN m |-> At(tiles[f][t], m[j]).pos] = OwnEom(f, t)
      BY <1>6, <2>1, <3>1, EomPositionsAre DEF Inv
    <3>3. eomAdded'[f][t] = [j \in DOMAIN m |-> At(tiles[f][t], m[j]).pos]
      BY <3>1 DEF generatePointCloud, Mapped
    <3> QED BY <3>2, <3>3
  <2> QED BY <1>1, <1>2, <1>5, <2>1 DEF EomInv
<1>10. UnitsInv' /\ DecodedInv'
  BY <1>2 DEF UnitsInv, DecodedInv
<1> QED BY <1>3, <1>4, <1>7, <1>8, <1>9, <1>10 DEF Inv

(* Lists with the same places are of the same length. *)
LEMMA SameLength ==
  ASSUME NEW S, NEW a \in Seq(S), NEW b \in Seq(S), DOMAIN a = DOMAIN b
  PROVE  Len(a) = Len(b)
<1>1. PICK n \in Nat : n = Len(a) /\ DOMAIN a = 1 .. n
  OBVIOUS
<1>2. PICK m \in Nat : m = Len(b) /\ DOMAIN b = 1 .. m
  OBVIOUS
<1>3. 1 .. n = 1 .. m
  BY <1>1, <1>2
<1>4. (n # 0 => n \in 1 .. n) /\ (m # 0 => m \in 1 .. m)
  OBVIOUS
<1>5. n = m
  BY <1>3, <1>4
<1> QED BY <1>1, <1>2, <1>5

(* the patch c[i] after the reversal, where p was before: len is the length  *)
(* of the list of the frame before                                           *)
TurnedPatch(q, p, len) ==
  /\ Alike(q, p) /\ q.ref = p.ref /\ q.match = p.match
  /\ q.best = IF p.best = invalid THEN invalid ELSE len - p.best - 1

(* The reversal of a tile turns its order and, in each patch, its index. *)
LEMMA ReversedTileIs ==
  ASSUME Inv, NEW f \in Frames, NEW t \in Tiles
  PROVE  LET c == ReversedTile(f, t)
             n == Len(tiles[f][t])
         IN  /\ c \in Seq(PatchType) /\ DOMAIN c = 1 .. n /\ Len(c) = n
             /\ \A i \in 1 .. n : TurnedPatch(c[i], tiles[f][t][n - i + 1], Len(tiles[f - 1][t]))
<1>1. PICK list \in Seq(PatchType) : list = tiles[f][t]
  BY DEF Inv, Types
<1>2. PICK n \in Nat : n = Len(list) /\ DOMAIN list = 1 .. n
  OBVIOUS
<1>3. PICK len : len = Len(tiles[f - 1][t])
  OBVIOUS
<1>4. PICK g : g = [i \in 1 .. n |-> IF list[i].best = invalid THEN list[i]
                                     ELSE [list[i] EXCEPT !.best = len - @ - 1]]
  OBVIOUS
<1>5. PICK c : c = ReversedTile(f, t)
  OBVIOUS
<1>6. c = [i \in 1 .. Len(g) |-> g[Len(g) - i + 1]]
  <2>1. c = Reverse([i \in DOMAIN list |-> IF list[i].best = invalid THEN list[i]
                                          ELSE [list[i] EXCEPT !.best = len - @ - 1]])
    BY <1>1, <1>3, <1>5 DEF ReversedTile, Mapped, ReversedIndex
  <2>2. c = Reverse(g)
    BY <1>2, <1>4, <2>1
  <2> QED BY <2>2 DEF Reverse
<1>7. ASSUME NEW i \in 1 .. n PROVE g[i] \in PatchType /\ TurnedPatch(g[i], list[i], len)
  <2>1. PICK p \in PatchType : p = list[i]
    BY <1>2
  <2>2. CASE p.best = invalid
    <3>1. g[i] = p
      BY <1>4, <2>1, <2>2
    <3> QED BY <2>1, <2>2, <3>1 DEF TurnedPatch, Alike
  <2>3. CASE p.best # invalid
    <3>1. RefAfoc(f, p.ref) >= 0
      BY <1>1, <1>2, <2>1, <2>3 DEF Inv, RangeInv, RefersBack
    <3>2. f - 1 \in Frames
      BY <3>1, FrameAssumption DEF RefAfoc, PatchType, Frames
    <3>3. tiles[f - 1][t] \in Seq(PatchType)
      BY <3>2 DEF Inv, Types
    <3>4. len \in Nat
      BY <1>3, <3>3
    <3>5. PICK best \in Int : best = len - p.best - 1
      BY <3>4 DEF PatchType
    <3>6. g[i] = [p EXCEPT !.best = best]
      BY <1>4, <2>1, <2>3, <3>5
    <3>7. g[i] \in PatchType
      BY <3>6 DEF PatchType
    <3> QED BY <2>1, <2>3, <3>5, <3>6, <3>7 DEF TurnedPatch, Alike, PatchType
  <2> QED BY <2>2, <2>3
<1>8. g \in Seq(PatchType) /\ Len(g) = n
  <2>1. g = [i \in 1 .. n |-> g[i]]
    BY <1>4
  <2>2. \A i \in 1 .. n : g[i] \in PatchType
    BY <1>7
  <2> QED BY <2>1, <2>2, IsSeq
<1>9. ASSUME NEW i \in 1 .. n
      PROVE  n - i + 1 \in 1 .. n /\ c[i] = g[n - i + 1]
  BY <1>6, <1>8
<1>10. c \in Seq(PatchType) /\ Len(c) = n /\ DOMAIN c = 1 .. n
  <2>1. c = [i \in 1 .. n |-> c[i]]
    BY <1>6, <1>8
  <2>2. \A i \in 1 .. n : c[i] \in PatchType
    BY <1>7, <1>9
  <2> QED BY <2>1, <2>2, IsSeq
<1>11. \A i \in 1 .. n : TurnedPatch(c[i], list[n - i + 1], len)
  BY <1>7, <1>9
<1> QED BY <1>1, <1>2, <1>3, <1>5, <1>10, <1>11

(* Reverse counts from the end. *)
LEMMA ReverseIs ==
  ASSUME NEW own \in Seq(PatchType)
  PROVE  /\ DOMAIN Reverse(own) = 1 .. Len(own)
         /\ \A i \in 1 .. Len(own) : Reverse(own)[i] = own[Len(own) - i + 1]
BY DEF Reverse

(* the reversal of all lists *)
Turned(lists, before) ==
  \A f \in Frames, t \in Tiles :
    LET n == Len(before[f][t])
    IN  /\ lists[f][t] \in Seq(PatchType) /\ DOMAIN lists[f][t] = 1 .. n /\ Len(lists[f][t]) = n
        /\ \A i \in 1 .. n : TurnedPatch(lists[f][t][i], before[f][t][n - i + 1], Len(before[f - 1][t]))

(* An index that is turned with the list it points into names the patch it
   named. *)
LEMMA TurnedNames ==
  ASSUME Inv, ~Reversed, phase # "adjust", NEW lists, Turned(lists, tiles),
         NEW f \in Frames, NEW t \in Tiles, NEW i \in DOMAIN lists[f][t],
         ~(lists[f][t][i].ref > 0 /\ Len(lists[RefAfoc(f, lists[f][t][i].ref)][t]) # Len(lists[f - 1][t]))
  PROVE  Names(lists[f][t][i], lists, f, t)
<1>1. PICK list \in Seq(PatchType), n \in Nat : list = tiles[f][t] /\ n = Len(list) /\ DOMAIN list = 1 .. n
  BY DEF Inv, Types
<1>2. PICK q : q = lists[f][t][i]
  OBVIOUS
<1>3. i \in 1 .. n /\ TurnedPatch(q, list[n - i + 1], Len(tiles[f - 1][t]))
  BY <1>1, <1>2 DEF Turned
<1>4. PICK p \in PatchType : p = list[n - i + 1]
  <2>1. n - i + 1 \in 1 .. n
    BY <1>3
  <2> QED BY <1>1, <2>1
<1>5. SUFFICES ASSUME q.best # invalid PROVE Names(q, lists, f, t)
  BY <1>2 DEF Names
<1>6. p.best # invalid /\ q.ref = p.ref /\ q.best = Len(tiles[f - 1][t]) - p.best - 1
  BY <1>3, <1>4, <1>5 DEF TurnedPatch
<1>7. Names(p, tiles, f, t)
  <2>1. n - i + 1 \in DOMAIN tiles[f][t]
    BY <1>1, <1>3
  <2> QED BY <1>1, <1>4, <2>1 DEF Inv, NamesInv
<1>8. PICK r : r = RefAfoc(f, p.ref)
  OBVIOUS
<1>9. r >= 0 /\ p.best + 1 \in DOMAIN tiles[r][t] /\ Matches(p, tiles[r][t][p.best + 1])
  BY <1>6, <1>7, <1>8 DEF Names
<1>10. r \in Frames /\ f - 1 \in Frames /\ (p.ref > 0 \/ r = f - 1)
  BY <1>8, <1>9, FrameAssumption DEF RefAfoc, PatchType, Frames
<1>17. PICK before \in Seq(PatchType) : before = tiles[r][t]
  BY <1>10 DEF Inv, Types
<1>18. PICK len \in Nat : len = Len(before) /\ DOMAIN before = 1 .. len
  OBVIOUS
<1>11. before = tiles[r][t] /\ len = Len(before) /\ DOMAIN before = 1 .. len
  BY <1>17, <1>18
<1>12. Len(tiles[f - 1][t]) = len
  <2>1. Len(lists[r][t]) = len
    BY <1>10, <1>11 DEF Turned
  <2>2. Len(lists[f - 1][t]) = Len(tiles[f - 1][t])
    BY <1>10 DEF Turned
  <2>3. r = f - 1 \/ Len(lists[r][t]) = Len(lists[f - 1][t])
    BY <1>2, <1>6, <1>8, <1>10
  <2> QED BY <1>11, <2>1, <2>2, <2>3
<1>13. p.best + 1 \in 1 .. len /\ q.best + 1 = len - p.best /\ q.best + 1 \in 1 .. len
  <2>1. PICK b \in Int : b = p.best
    BY DEF PatchType
  <2>2. q.best = len - b - 1 /\ b + 1 \in 1 .. len
    BY <1>6, <1>9, <1>11, <1>12, <2>1
  <2> QED BY <2>1, <2>2
<1>14. len - (q.best + 1) + 1 = p.best + 1
  BY <1>13 DEF PatchType
<1>15. /\ q.best + 1 \in DOMAIN lists[r][t]
       /\ TurnedPatch(lists[r][t][q.best + 1], before[p.best + 1], Len(tiles[r - 1][t]))
  BY <1>10, <1>11, <1>13, <1>14 DEF Turned
<1>16. Matches(q, lists[r][t][q.best + 1])
  BY <1>3, <1>4, <1>9, <1>11, <1>15 DEF Matches, TurnedPatch, Alike
<1> QED BY <1>2, <1>6, <1>8, <1>9, <1>15, <1>16 DEF Names

(* The reversal keeps the invariant, as far as it moves no index. *)
LEMMA ReverseInv ==
  ASSUME Inv, ReverseOrder
  PROVE  Inv'
<1>1. /\ phase = "reverse" /\ phase' = "code"
      /\ UNCHANGED <<mode, frame, title, members, eomAdded, units, decoded, eomFound>>
  BY DEF ReverseOrder, decVars
<1>2. /\ ~Reversed /\ Reversed' /\ ~Sent' /\ phase' # "done" /\ phase' # "decode" /\ phase' # "reverse"
      /\ phase # "place" /\ phase' # "place" /\ phase # "adjust" /\ phase' # "adjust"
  BY <1>1 DEF Reversed, Sent
<1>3. \A f \in Frames, t \in Tiles : Own(f, t)' = Own(f, t) /\ OwnEom(f, t)' = OwnEom(f, t)
  BY <1>1 DEF Own, OwnEom
<1>4. \A f \in Frames, t \in Tiles : AlikeLists(tiles[f][t], Own(f, t)) \/ Emptied(f, t)
  BY <1>1, <1>2 DEF Inv, KeptInv, Lists
<1>5. NumberedInv' /\ UnplacedInv' /\ MembersInv'
  BY <1>1, <1>2 DEF Inv, NumberedInv, UnplacedInv, MembersInv, Own
<1>6. PhaseInv' /\ UnitsInv' /\ DecodedInv'
  BY <1>1, <1>2 DEF PhaseInv, UnitsInv, DecodedInv
<1>7. CASE ~mode.reverse
  <2>1. tiles' = tiles
    BY <1>7 DEF ReverseOrder
  <2>2. \A f \in Frames, t \in Tiles : Emptied(f, t)' = Emptied(f, t)
    BY <1>1, <2>1 DEF Emptied
  <2>3. Types' /\ RangeInv'
    BY <1>1, <2>1 DEF Inv, Types, Phases, RangeInv
  <2>4. KeptInv'
    BY <1>1, <1>2, <1>3, <1>4, <1>7, <2>1, <2>2 DEF KeptInv, Lists
  <2>5. NamesInv'
    BY <1>2, <2>1 DEF Inv, NamesInv
  <2>6. EomInv'
    BY <1>1, <1>2, <1>3, <2>2 DEF Inv, EomInv
  <2> QED BY <1>5, <1>6, <2>3, <2>4, <2>5, <2>6 DEF Inv
<1>8. CASE mode.reverse
  <2>1. tiles' = [f \in Frames |-> [t \in Tiles |-> ReversedTile(f, t)]]
    BY <1>8 DEF ReverseOrder
  <2>2. Turned(tiles', tiles)
    BY <2>1, ReversedTileIs DEF Turned
  <2>3. Types'
    <3>1. tiles' \in [Frames -> [Tiles -> Seq(PatchType)]]
      BY <2>1, <2>2 DEF Turned
    <3> QED BY <1>1, <3>1 DEF Inv, Types, Phases
  <2>4. ASSUME NEW f \in Frames, NEW t \in Tiles PROVE tiles'[f][t] = <<>> <=> tiles[f][t] = <<>>
    <3>1. PICK n \in Nat : n = Len(tiles[f][t]) /\ n = Len(tiles'[f][t])
      BY <2>2 DEF Inv, Types, Turned
    <3>2. PICK a \in Seq(PatchType) : a = tiles[f][t]
      BY DEF Inv, Types
    <3>3. PICK b \in Seq(PatchType) : b = tiles'[f][t]
      BY <2>2 DEF Turned
    <3>4. (a = <<>> <=> Len(a) = 0) /\ (b = <<>> <=> Len(b) = 0)
      OBVIOUS
    <3> QED BY <3>1, <3>2, <3>3, <3>4
  <2>5. \A f \in Frames, t \in Tiles : Emptied(f, t)' = Emptied(f, t)
    BY <1>1, <2>4 DEF Emptied
  <2>6. KeptInv'
    <3>1. ASSUME NEW f \in Frames, NEW t \in Tiles, AlikeLists(tiles[f][t], Own(f, t))
          PROVE  AlikeLists(tiles'[f][t], Reverse(Own(f, t)))
      <4>1. PICK own \in Seq(PatchType) : own = Own(f, t)
        BY TilePatchesAt DEF Inv, Types, Own
      <4>2. PICK list \in Seq(PatchType) : list = tiles[f][t]
        BY DEF Inv, Types
      <4>3. PICK n \in Nat : n = Len(list) /\ n = Len(own) /\ DOMAIN list = 1 .. n
        BY <3>1, <4>1, <4>2, SameLength DEF AlikeLists
      <4>4. DOMAIN Reverse(own) = 1 .. n /\ \A i \in 1 .. n : Reverse(own)[i] = own[n - i + 1]
        BY <4>3, ReverseIs
      <4>5. DOMAIN tiles'[f][t] = 1 .. n
        BY <2>2, <4>2, <4>3 DEF Turned
      <4>6. ASSUME NEW i \in 1 .. n PROVE Alike(tiles'[f][t][i], own[n - i + 1])
        <5>1. n - i + 1 \in 1 .. n
          OBVIOUS
        <5>2. Alike(tiles'[f][t][i], list[n - i + 1])
          BY <2>2, <4>2, <4>3 DEF Turned, TurnedPatch
        <5>3. Alike(list[n - i + 1], own[n - i + 1])
          BY <3>1, <4>1, <4>2, <4>3, <5>1 DEF AlikeLists
        <5> QED BY <5>2, <5>3 DEF Alike
      <4> QED BY <4>1, <4>4, <4>5, <4>6 DEF AlikeLists
    <3> QED BY <1>1, <1>2, <1>3, <1>4, <1>8, <2>5, <3>1 DEF KeptInv, Lists
  <2>7. RangeInv'
    <3>1. ASSUME NEW f \in Frames, NEW t \in Tiles, NEW i \in DOMAIN tiles'[f][t]
          PROVE  RefersBack(tiles'[f][t][i], f)
      <4>1. PICK list \in Seq(PatchType), n \in Nat : list = tiles[f][t] /\ n = Len(list) /\ DOMAIN list = 1 .. n
        BY DEF Inv, Types
      <4>2. i \in 1 .. n /\ TurnedPatch(tiles'[f][t][i], list[n - i + 1], Len(tiles[f - 1][t]))
        BY <2>2, <3>1, <4>1 DEF Turned
      <4>3. n - i + 1 \in DOMAIN tiles[f][t]
        BY <4>1, <4>2
      <4>4. RefersBack(list[n - i + 1], f)
        BY <4>1, <4>3 DEF Inv, RangeInv
      <4> QED BY <4>2, <4>4 DEF TurnedPatch, RefersBack
    <3> QED BY <3>1 DEF RangeInv
  <2>8. NamesInv'
    <3>1. ASSUME NEW f \in Frames, NEW t \in Tiles, NEW i \in DOMAIN tiles'[f][t],
                 ~(tiles'[f][t][i].ref > 0 /\ Len(tiles'[RefAfoc(f, tiles'[f][t][i].ref)][t]) # Len(tiles'[f - 1][t]))
          PROVE  Names(tiles'[f][t][i], tiles', f, t)
      BY <1>2, <2>2, <3>1, TurnedNames
    <3> QED BY <1>1, <1>2, <1>8, <3>1 DEF NamesInv, IndexMoved
  <2>9. EomInv'
    BY <1>1, <1>2, <1>3, <2>5 DEF Inv, EomInv
  <2> QED BY <1>5, <1>6, <2>3, <2>6, <2>7, <2>8, <2>9 DEF Inv
<1> QED BY <1>7, <1>8


-----------------------------------------------------------------------------
(***************************************************************************)
(* Coding.                                                                 *)
(***************************************************************************)
LEMMA CodeTileFixed ==
  ASSUME UNCHANGED <<tiles, members>>, NEW f, NEW t
  PROVE  CodeTile(f, t)' = CodeTile(f, t)
BY DEF CodeTile, TileType, InterUnit, IntraUnit, RefPatchIndex, PredIndex, At, RefAfoc

(* A coder that stops has changed no list. *)
LEMMA CodeEmptyEomInv ==
  ASSUME Inv, CodeEmptyEom
  PROVE  Inv'
<1>1. /\ phase = "code" /\ phase' = "stuck"
      /\ UNCHANGED <<mode, frame, title, tiles, members, eomAdded, units, decoded, eomFound>>
  BY DEF CodeEmptyEom, decVars
<1>2. Reversed /\ Reversed' /\ ~Sent'
  BY <1>1 DEF Reversed, Sent
<1>3. \A f \in Frames, t \in Tiles :
        /\ Own(f, t)' = Own(f, t) /\ Emptied(f, t)' = Emptied(f, t) /\ OwnEom(f, t)' = OwnEom(f, t)
        /\ Lists(f, t)' = Lists(f, t)
  BY <1>1, <1>2 DEF Own, Emptied, OwnEom, Lists
<1>4. Types' /\ PhaseInv' /\ NumberedInv' /\ UnplacedInv' /\ RangeInv'
  BY <1>1 DEF Inv, Types, Phases, PhaseInv, NumberedInv, UnplacedInv, RangeInv
<1>5. KeptInv' /\ MembersInv'
  BY <1>1, <1>3 DEF Inv, KeptInv, MembersInv
<1>6. NamesInv'
  BY <1>1, <1>2 DEF Inv, NamesInv, IndexMoved
<1>7. EomInv'
  BY <1>1, <1>2, <1>3 DEF Inv, EomInv
<1>8. UnitsInv' /\ DecodedInv'
  BY <1>1, <1>2 DEF UnitsInv, DecodedInv
<1> QED BY <1>4, <1>5, <1>6, <1>7, <1>8 DEF Inv

(* Coding makes the units from the lists and changes none of them. *)
LEMMA CodeGroupInv ==
  ASSUME Inv, CodeGroup
  PROVE  Inv'
<1>1. /\ phase = "code" /\ phase' = "decode" /\ frame' = 0
      /\ UNCHANGED <<mode, title, tiles, members, eomAdded, decoded, eomFound>>
      /\ units' = [f \in Frames |-> [t \in Tiles |-> CodeTile(f, t)]]
  BY DEF CodeGroup, decVars
<1>2. Reversed /\ Reversed'
  BY <1>1 DEF Reversed
<1>3. \A f \in Frames, t \in Tiles :
        /\ Own(f, t)' = Own(f, t) /\ Emptied(f, t)' = Emptied(f, t) /\ OwnEom(f, t)' = OwnEom(f, t)
        /\ Lists(f, t)' = Lists(f, t)
  BY <1>1, <1>2 DEF Own, Emptied, OwnEom, Lists
<1>4. 0 \in Frames /\ \A f \in Frames : ~(f < 0)
  BY FrameAssumption DEF Frames
<1>5. Types' /\ PhaseInv' /\ NumberedInv' /\ UnplacedInv' /\ RangeInv'
  BY <1>1, <1>4 DEF Inv, Types, Phases, PhaseInv, NumberedInv, UnplacedInv, RangeInv
<1>6. KeptInv' /\ MembersInv'
  BY <1>1, <1>3 DEF Inv, KeptInv, MembersInv
<1>7. NamesInv'
  BY <1>1, <1>2 DEF Inv, NamesInv, IndexMoved
<1>8. EomInv'
  BY <1>1, <1>2, <1>3, <1>4 DEF Inv, EomInv
<1>9. UnitsInv'
  <2>1. \A f \in Frames, t \in Tiles : CodeTile(f, t)' = CodeTile(f, t)
    BY <1>1, CodeTileFixed
  <2> QED BY <1>1, <2>1 DEF UnitsInv
<1>10. DecodedInv'
  BY <1>1, <1>4 DEF DecodedInv
<1> QED BY <1>5, <1>6, <1>7, <1>8, <1>9, <1>10 DEF Inv

-----------------------------------------------------------------------------
(***************************************************************************)
(* The running index.                                                      *)
(***************************************************************************)
(* q is the index the encoder codes the indices of a list relative to *)
Running(q, list, n) ==
  \A i \in 1 .. n + 1 :
    /\ q[i] \in Int
    /\ i = 1 => q[i] = 0
    /\ i # 1 => q[i] = IF list[i - 1].best = invalid THEN q[i - 1] ELSE list[i - 1].best + 1

(* two functions of which each value of the one is that of the other when   *)
(* the values before it are, agree everywhere if they agree on the first     *)
Follows(g, h, n) == \A k \in 2 .. n : g[k - 1] = h[k - 1] => g[k] = h[k]

LEMMA SameThroughout ==
  ASSUME NEW n \in Nat, NEW g, NEW h, g[1] = h[1], Follows(g, h, n)
  PROVE  \A k \in 1 .. n : g[k] = h[k]
<1> DEFINE T == {k \in 0 .. n : k > 0 => g[k] = h[k]}
<1>1. 0 \in T
  OBVIOUS
<1>2. \A k \in 1 .. n : k - 1 \in T => k \in T
  BY DEF Follows
<1>3. \A k \in 0 .. n : k \in T
  <2> HIDE DEF T
  <2> QED BY <1>1, <1>2, PrefixInduction
<1> QED BY <1>3

(* The encoder's prediction of an index is what its loop leaves: the index
   of the last inter patch plus one. *)
LEMMA PredIndexRuns ==
  ASSUME NEW list \in Seq(PatchType)
  PROVE  Running(PredIndex(list), list, Len(list))
<1>1. PICK n \in Nat : n = Len(list) /\ DOMAIN list = 1 .. n
  OBVIOUS
<1> DEFINE step == [k \in 2 .. n + 1 |-> [d \in Int |-> IF list[k - 1].best = invalid THEN d ELSE list[k - 1].best + 1]]
<1>2. ASSUME NEW k \in 2 .. n + 1 PROVE list[k - 1].best \in Int
  <2>1. k - 1 \in 1 .. n
    OBVIOUS
  <2>2. list[k - 1] \in PatchType
    BY <1>1, <2>1
  <2> QED BY <2>2 DEF PatchType
<1>3. \A k \in 2 .. n + 1, d \in Int :
        step[k][d] = IF list[k - 1].best = invalid THEN d ELSE list[k - 1].best + 1
  OBVIOUS
<1> HIDE DEF step
<1>4. StepsIn(step, 2 .. n + 1, Int)
  BY <1>2, <1>3 DEF StepsIn
<1>5. PICK p : Recursion(p, 1, n + 1, Int, 0, step)
  <2>1. n + 1 \in Nat
    OBVIOUS
  <2> QED BY <1>4, <2>1, RecursionFromOne
<1>6. /\ p \in [1 .. n + 1 -> Int]
      /\ \A k \in 1 .. n + 1 :
           p[k] = IF k = 1 THEN 0 ELSE IF list[k - 1].best = invalid THEN p[k - 1] ELSE list[k - 1].best + 1
  <2>1. ASSUME NEW k \in 1 .. n + 1, k # 1 PROVE k \in 2 .. n + 1 /\ p[k - 1] \in Int
    BY <2>1, <1>5 DEF Recursion
  <2> QED BY <1>3, <1>5, <2>1 DEF Recursion
<1>7. p = [i \in 1 .. Len(list) + 1 |->
             IF i = 1 THEN 0 ELSE IF list[i - 1].best = invalid THEN p[i - 1] ELSE list[i - 1].best + 1]
  BY <1>1, <1>6
<1>8. PICK q : q = PredIndex(list)
  OBVIOUS
<1>9. q = [i \in 1 .. Len(list) + 1 |->
             IF i = 1 THEN 0 ELSE IF list[i - 1].best = invalid THEN q[i - 1] ELSE list[i - 1].best + 1]
  BY <1>7, <1>8 DEF PredIndex
<1>10. \A i \in 1 .. n + 1 :
         q[i] = IF i = 1 THEN 0 ELSE IF list[i - 1].best = invalid THEN q[i - 1] ELSE list[i - 1].best + 1
  BY <1>1, <1>9
<1>11. \A i \in 1 .. n + 1 : q[i] = p[i]
  <2>1. q[1] = p[1]
    <3>1. 1 \in 1 .. n + 1
      OBVIOUS
    <3>2. p[1] = 0
      BY <1>6, <3>1
    <3>3. q[1] = 0
      BY <1>10, <3>1
    <3> QED BY <3>2, <3>3
  <2>2. ASSUME NEW k \in 2 .. n + 1, q[k - 1] = p[k - 1] PROVE q[k] = p[k]
    <3>1. k \in 1 .. n + 1 /\ k # 1
      OBVIOUS
    <3> QED BY <1>6, <1>10, <2>2, <3>1
  <2>3. PICK top \in Nat : top = n + 1
    OBVIOUS
  <2>4. Follows(q, p, top)
    BY <2>2, <2>3 DEF Follows
  <2>5. \A k \in 1 .. top : q[k] = p[k]
    BY <2>1, <2>4, SameThroughout
  <2> QED BY <2>3, <2>5
<1>12. \A i \in 1 .. n + 1 : q[i] \in Int
  BY <1>6, <1>11
<1> QED BY <1>1, <1>8, <1>10, <1>12 DEF Running

(* the units of a list whose indices are coded relative to q *)
CodedUnits(u, list, n, q) ==
  /\ u = [i \in 1 .. n |-> u[i]]
  /\ \A i \in 1 .. n :
       /\ list[i].best = invalid => u[i].mode = "INTRA"
       /\ list[i].best # invalid => u[i].mode = "INTER" /\ u[i].refPatchIndex = list[i].best - q[i]

(* The decoder's running index is the encoder's. *)
LEMMA DecoderPredIndexRuns ==
  ASSUME NEW list \in Seq(PatchType), NEW u, CodedUnits(u, list, Len(list), PredIndex(list))
  PROVE  \A i \in 1 .. Len(list) + 1 : DecoderPredIndex(u)[i] = PredIndex(list)[i]
<1>1. PICK n \in Nat : n = Len(list) /\ DOMAIN list = 1 .. n
  OBVIOUS
<1>2. PICK q : q = PredIndex(list) /\ Running(q, list, n)
  BY <1>1, PredIndexRuns
<1>3. CodedUnits(u, list, n, q)
  BY <1>1, <1>2
<1>4. Len(u) = n
  <2>1. PICK S : S = {u[i] : i \in 1 .. n}
    OBVIOUS
  <2>2. \A i \in 1 .. n : u[i] \in S
    BY <2>1
  <2>3. u = [i \in 1 .. n |-> u[i]]
    BY <1>3 DEF CodedUnits
  <2> QED BY <2>2, <2>3, IsSeq
<1>5. ASSUME NEW k \in 2 .. n + 1
      PROVE  /\ k - 1 \in 1 .. n /\ k \in 1 .. n + 1 /\ k - 1 \in 1 .. n + 1
             /\ q[k] \in Int /\ q[k - 1] \in Int
             /\ list[k - 1].best \in Int
             /\ list[k - 1].best = invalid => u[k - 1].mode = "INTRA" /\ q[k] = q[k - 1]
             /\ list[k - 1].best # invalid =>
                  /\ u[k - 1].mode # "INTRA" /\ u[k - 1].refPatchIndex = list[k - 1].best - q[k - 1]
                  /\ q[k] = list[k - 1].best + 1
  <2>1. k - 1 \in 1 .. n /\ k \in 1 .. n + 1 /\ k - 1 \in 1 .. n + 1 /\ k # 1
    OBVIOUS
  <2>2. list[k - 1] \in PatchType
    BY <1>1, <2>1
  <2> QED BY <1>2, <1>3, <2>1, <2>2 DEF Running, CodedUnits, PatchType
<1> DEFINE Advanced(k, d) == IF u[k - 1].mode = "INTRA" THEN d ELSE d + u[k - 1].refPatchIndex + 1
<1>6. ASSUME NEW k \in 2 .. n + 1 PROVE q[k] = Advanced(k, q[k - 1])
  <2>1. PICK a \in Int, b \in Int : a = q[k - 1] /\ b = list[k - 1].best
    BY <1>5
  <2>2. CASE b = invalid
    BY <1>5, <2>1, <2>2
  <2>3. CASE b # invalid
    <3>1. u[k - 1].mode # "INTRA" /\ u[k - 1].refPatchIndex = b - a /\ q[k] = b + 1
      BY <1>5, <2>1, <2>3
    <3> QED BY <2>1, <3>1
  <2> QED BY <2>2, <2>3
<1>7. q[1] = 0
  <2>1. 1 \in 1 .. n + 1
    OBVIOUS
  <2> QED BY <1>2, <2>1 DEF Running
<1>8. PICK p : p = [i \in 1 .. n + 1 |-> q[i]]
  OBVIOUS
<1>9. p = [i \in 1 .. Len(u) + 1 |-> IF i = 1 THEN 0
                                      ELSE IF u[i - 1].mode = "INTRA" THEN p[i - 1]
                                      ELSE p[i - 1] + u[i - 1].refPatchIndex + 1]
  <2>1. ASSUME NEW i \in 1 .. n + 1
        PROVE  p[i] = IF i = 1 THEN 0
                      ELSE IF u[i - 1].mode = "INTRA" THEN p[i - 1]
                      ELSE p[i - 1] + u[i - 1].refPatchIndex + 1
    <3>1. CASE i = 1
      BY <1>7, <1>8, <3>1
    <3>2. CASE i # 1
      <4>1. i \in 2 .. n + 1 /\ i - 1 \in 1 .. n + 1
        BY <3>2
      <4>2. p[i] = q[i] /\ p[i - 1] = q[i - 1]
        BY <1>8, <4>1
      <4> QED BY <1>6, <3>2, <4>1, <4>2
    <3> QED BY <3>1, <3>2
  <2> QED BY <1>4, <1>8, <2>1
<1>10. PICK d : d = DecoderPredIndex(u)
  OBVIOUS
<1>11. d = [i \in 1 .. Len(u) + 1 |-> IF i = 1 THEN 0
                                       ELSE IF u[i - 1].mode = "INTRA" THEN d[i - 1]
                                       ELSE d[i - 1] + u[i - 1].refPatchIndex + 1]
  BY <1>9, <1>10 DEF DecoderPredIndex
<1>12. \A i \in 1 .. n + 1 : d[i] = IF i = 1 THEN 0
                                    ELSE IF u[i - 1].mode = "INTRA" THEN d[i - 1]
                                    ELSE d[i - 1] + u[i - 1].refPatchIndex + 1
  BY <1>4, <1>11
<1>13. \A i \in 1 .. n + 1 : d[i] = q[i]
  <2>1. d[1] = q[1]
    BY <1>7, <1>12
  <2>2. ASSUME NEW k \in 2 .. n + 1, d[k - 1] = q[k - 1] PROVE d[k] = q[k]
    <3>1. d[k] = Advanced(k, d[k - 1])
      BY <1>5, <1>12
    <3> HIDE DEF Advanced
    <3> QED BY <1>6, <2>2, <3>1
  <2>3. PICK top \in Nat : top = n + 1
    OBVIOUS
  <2>4. Follows(d, q, top)
    BY <2>2, <2>3 DEF Follows
  <2>5. \A k \in 1 .. top : d[k] = q[k]
    BY <2>1, <2>4, SameThroughout
  <2> QED BY <2>3, <2>5
<1> QED BY <1>1, <1>2, <1>10, <1>13


-----------------------------------------------------------------------------
(***************************************************************************)
(* Decoding.                                                               *)
(***************************************************************************)
DecodedTile(f, t) == [i \in DOMAIN units[f][t].patches |-> DecodeUnit(f, t, i)]

(* where the positions of two lists agree, and those of the patches found at *)
(* any index                                                                 *)
LEMMA SameFound ==
  ASSUME NEW got, NEW list \in Seq(PatchType), SamePositions(got, list), NEW k \in Int
  PROVE  At(got, k).pos = At(list, k).pos /\ At(list, k).pos \in Int
<1>1. CASE k + 1 \in DOMAIN list
  <2>1. PICK p \in PatchType : p = list[k + 1]
    BY <1>1
  <2>2. got[k + 1].pos = p.pos /\ k + 1 \in DOMAIN got
    BY <1>1, <2>1 DEF SamePositions
  <2> QED BY <1>1, <2>1, <2>2 DEF At, PatchType
<1>2. CASE k + 1 \notin DOMAIN list
  <2>1. At(got, k) = NoPatch /\ At(list, k) = NoPatch
    BY <1>2 DEF At, SamePositions
  <2> QED BY <2>1 DEF NoPatch, invalid
<1> QED BY <1>1, <1>2

(* A decoded tile has the encoder's positions, and its kinds where the
   indices name their patches. *)
LEMMA DecodedTileIs ==
  ASSUME Inv, phase = "decode", NEW t \in Tiles
  PROVE  /\ SamePositions(DecodedTile(frame, t), tiles[frame][t])
         /\ NothingMoved => SameKind(DecodedTile(frame, t), tiles[frame][t])
<1>1. frame \in Frames /\ frame \in Nat
  BY DEF Inv, Types, PhaseInv
<1>2. PICK list \in Seq(PatchType) : list = tiles[frame][t]
  BY <1>1 DEF Inv, Types
<1>3. PICK n \in Nat : n = Len(list) /\ DOMAIN list = 1 .. n
  OBVIOUS
<1>4. PICK q : q = PredIndex(list) /\ Running(q, list, n)
  BY <1>3, PredIndexRuns
<1>5. PICK u : u = units[frame][t].patches
  OBVIOUS
<1>6. u = [i \in 1 .. n |-> IF list[i].best # invalid THEN InterUnit(frame, t, i) ELSE IntraUnit(list[i])]
  <2>1. units[frame][t] = CodeTile(frame, t)
    BY <1>1 DEF Inv, UnitsInv, Sent
  <2> QED BY <1>2, <1>3, <1>5, <2>1 DEF CodeTile
<1>7. ASSUME NEW i \in 1 .. n
      PROVE  list[i].best # invalid =>
               u[i] = [mode          |-> "INTER",
                       refIndex      |-> list[i].ref,
                       refPatchIndex |-> list[i].best - q[i],
                       delta         |-> list[i].pos - At(tiles[RefAfoc(frame, list[i].ref)][t], list[i].best).pos]
  BY <1>2, <1>4, <1>6 DEF InterUnit, RefPatchIndex
<1>8. ASSUME NEW i \in 1 .. n
      PROVE  list[i].best = invalid =>
               u[i] = [mode |-> "INTRA", pos |-> list[i].pos, view |-> list[i].view, orient |-> list[i].orient]
  BY <1>6 DEF IntraUnit
<1>9. CodedUnits(u, list, n, q)
  <2>1. u = [i \in 1 .. n |-> u[i]]
    BY <1>6
  <2> QED BY <1>7, <1>8, <2>1 DEF CodedUnits
<1>10. \A i \in 1 .. n : DecoderPredIndex(u)[i] = q[i] /\ q[i] \in Int
  <2>1. \A i \in 1 .. n : i \in 1 .. n + 1
    OBVIOUS
  <2> QED BY <1>3, <1>4, <1>9, <2>1, DecoderPredIndexRuns DEF Running
<1>11. PICK d : d = DecodedTile(frame, t)
  OBVIOUS
<1>12. d = [i \in 1 .. n |-> DecodeUnit(frame, t, i)]
  BY <1>5, <1>6, <1>11 DEF DecodedTile
<1>13. ASSUME NEW i \in 1 .. n
       PROVE  /\ d[i] = [pos |-> list[i].pos, view |-> d[i].view, orient |-> d[i].orient]
              /\ NothingMoved => d[i].view = list[i].view /\ d[i].orient = list[i].orient
  <2>1. d[i] = DecodeUnit(frame, t, i)
    BY <1>12
  <2>2. PICK p \in PatchType : p = list[i]
    BY <1>3
  <2>3. CASE p.best = invalid
    <3>1. u[i] = [mode |-> "INTRA", pos |-> p.pos, view |-> p.view, orient |-> p.orient]
      BY <1>8, <2>2, <2>3
    <3>2. d[i] = [pos |-> u[i].pos, view |-> u[i].view, orient |-> u[i].orient]
      BY <1>5, <2>1, <3>1 DEF DecodeUnit
    <3> QED BY <2>2, <3>1, <3>2
  <2>4. CASE p.best # invalid
    <3>1. PICK r : r = RefAfoc(frame, p.ref)
      OBVIOUS
    <3>2. r >= 0 /\ r < frame /\ r \in Frames
      <4>1. RefersBack(p, frame)
        BY <1>1, <1>2, <1>3, <2>2 DEF Inv, RangeInv
      <4>2. r >= 0
        BY <2>4, <3>1, <4>1 DEF RefersBack
      <4> QED BY <1>1, <3>1, <4>2, FrameAssumption DEF RefAfoc, PatchType, Frames
    <3>3. PICK before \in Seq(PatchType) : before = tiles[r][t]
      BY <3>2 DEF Inv, Types
    <3>4. PICK got : got = decoded[r][t] /\ SamePositions(got, before) /\ (NothingMoved => SameKind(got, before))
      BY <3>2, <3>3 DEF Inv, DecodedInv
    <3>5. PICK b \in Int : b = p.best
      BY DEF PatchType
    <3>6. PICK x \in Int : x = At(before, b).pos /\ x = At(got, b).pos
      BY <3>4, SameFound
    <3>7. u[i] = [mode |-> "INTER", refIndex |-> p.ref, refPatchIndex |-> b - q[i], delta |-> p.pos - x]
      BY <1>7, <2>2, <2>4, <3>1, <3>3, <3>5, <3>6
    <3>8. (b - q[i]) + DecoderPredIndex(u)[i] = b
      BY <1>10
    <3>9. d[i] = [pos |-> (p.pos - x) + At(got, b).pos, view |-> At(got, b).view, orient |-> At(got, b).orient]
      BY <1>5, <2>1, <3>1, <3>4, <3>7, <3>8 DEF DecodeUnit
    <3>10. (p.pos - x) + At(got, b).pos = p.pos
      <4>1. p.pos \in Int
        BY DEF PatchType
      <4> QED BY <3>6, <4>1
    <3>11. ASSUME NothingMoved PROVE At(got, b).view = p.view /\ At(got, b).orient = p.orient
      <4>1. Names(p, tiles, frame, t)
        <5>1. ~IndexMoved(frame, t, p)
          BY <1>1, <1>2, <1>3, <2>2, <3>11 DEF NothingMoved
        <5>2. phase # "adjust"
          OBVIOUS
        <5> QED BY <1>1, <1>2, <1>3, <2>2, <5>1, <5>2 DEF Inv, NamesInv
      <4>2. b + 1 \in DOMAIN before /\ Matches(p, before[b + 1])
        BY <2>4, <3>1, <3>3, <3>5, <4>1 DEF Names
      <4>3. b + 1 \in DOMAIN got /\ got[b + 1].view = before[b + 1].view /\ got[b + 1].orient = before[b + 1].orient
        BY <3>4, <3>11, <4>2 DEF SamePositions, SameKind
      <4> QED BY <4>2, <4>3 DEF At, Matches
    <3> QED BY <2>2, <3>9, <3>10, <3>11
  <2> QED BY <2>3, <2>4
<1>14. DOMAIN d = 1 .. n
  BY <1>12
<1>15. d = [i \in 1 .. n |-> [pos |-> list[i].pos, view |-> d[i].view, orient |-> d[i].orient]]
  <2>1. d = [i \in 1 .. n |-> d[i]]
    BY <1>12
  <2>2. \A i \in 1 .. n : d[i] = [pos |-> list[i].pos, view |-> d[i].view, orient |-> d[i].orient]
    BY <1>13
  <2> QED BY <2>1, <2>2
<1>16. NothingMoved => SameKind(d, list)
  BY <1>3, <1>13 DEF SameKind
<1> QED BY <1>2, <1>3, <1>11, <1>14, <1>15, <1>16 DEF SamePositions

(* the EOM points of a tile that was not emptied *)
DecodedEom(list, m) == [j \in DOMAIN m |-> At(list, MemberPatchIdx(m[j], Len(list))).pos]

(* The decoder's count from the end finds the patches the encoder's list
   names. *)
LEMMA DecodedEomIs ==
  ASSUME Inv, phase = "decode", mode.eom, NEW t \in Tiles, ~Emptied(frame, t)
  PROVE  DecodedEom(DecodedTile(frame, t), members[frame][t]) = OwnEom(frame, t)
<1>1. frame \in Frames /\ Reversed /\ phase # "place"
  BY DEF Inv, PhaseInv, Reversed
<1>2. PICK list \in Seq(PatchType) : list = tiles[frame][t]
  BY <1>1 DEF Inv, Types
<1>3. title[frame] \in Seq(PatchType)
  BY <1>1 DEF Inv, Types
<1>4. PICK own \in Seq(PatchType) : own = Own(frame, t) /\ own = TilePatches(title[frame], t)
  BY <1>3, TilePatchesAt DEF Own
<1>5. PICK n \in Nat : n = Len(own) /\ DOMAIN own = 1 .. n
  OBVIOUS
<1>6. PICK m : m = members[frame][t] /\ m = EomMembers(own)
  BY <1>1, <1>4 DEF Inv, MembersInv
<1>7. /\ m \in Seq(Nat)
      /\ \A j \in DOMAIN m : m[j] + 1 \in 1 .. n
      /\ [j \in DOMAIN m |-> own[m[j] + 1].pos] = OwnEom(frame, t)
  <2>3. m \in Seq(Nat)
    BY <1>3, <1>4, <1>6, EomMembersAre
  <2>4. PICK all \in Seq(PatchType) : all = title[frame]
    BY <1>3
  <2>5. PICK found : found = Positions(Chosen(all, EomPlaces(all, t)))
    OBVIOUS
  <2>6. own = TilePatches(all, t) /\ m = EomMembers(TilePatches(all, t))
    BY <1>4, <1>6, <2>4
  <2>7. [j \in DOMAIN m |-> own[m[j] + 1].pos] = found
    BY <2>5, <2>6, EomMembersAre
  <2>1. [j \in DOMAIN m |-> own[m[j] + 1].pos] = OwnEom(frame, t)
    BY <2>4, <2>5, <2>7 DEF OwnEom
  <2>2. \A j \in DOMAIN m : m[j] + 1 \in DOMAIN own
    BY <1>3, <1>4, <1>6, EomMembersAre
  <2> QED BY <1>5, <2>1, <2>2, <2>3
<1>8. PICK placed : placed = (IF mode.reverse THEN Reverse(own) ELSE own) /\ AlikeLists(list, placed)
  BY <1>1, <1>2, <1>4 DEF Inv, KeptInv, Lists
<1>9. DOMAIN placed = 1 .. n /\ \A i \in 1 .. n : placed[i] = IF mode.reverse THEN own[n - i + 1] ELSE own[i]
  BY <1>5, <1>8, ReverseIs
<1>10. PICK d : d = DecodedTile(frame, t) /\ SamePositions(d, list)
  BY <1>2, DecodedTileIs
<1>11. DOMAIN d = 1 .. n /\ \A i \in 1 .. n : d[i].pos = placed[i].pos
  BY <1>8, <1>9, <1>10 DEF SamePositions, AlikeLists, Alike
<1>12. Len(d) = n
  <2>1. PICK S : S = {d[i] : i \in 1 .. n}
    OBVIOUS
  <2>2. \A i \in 1 .. n : d[i] \in S
    BY <2>1
  <2>3. d = [i \in 1 .. n |-> d[i]]
    BY <1>10, <1>11 DEF SamePositions
  <2> QED BY <2>2, <2>3, IsSeq
<1>13. ASSUME NEW j \in DOMAIN m PROVE At(d, MemberPatchIdx(m[j], n)).pos = own[m[j] + 1].pos
  <2>1. PICK k \in Nat : k = m[j] /\ k + 1 \in 1 .. n
    BY <1>7
  <2>2. CASE mode.reverse
    <3>1. MemberPatchIdx(k, n) = n - k - 1
      BY <2>2 DEF MemberPatchIdx
    <3>2. (n - k - 1) + 1 = n - k /\ n - k \in 1 .. n /\ n - (n - k) + 1 = k + 1
      BY <2>1
    <3>3. d[n - k].pos = own[k + 1].pos
      BY <1>9, <1>11, <2>2, <3>2
    <3> QED BY <1>11, <2>1, <3>1, <3>2, <3>3 DEF At
  <2>3. CASE ~mode.reverse
    <3>1. MemberPatchIdx(k, n) = k
      BY <2>3 DEF MemberPatchIdx
    <3> QED BY <1>9, <1>11, <2>1, <2>3, <3>1 DEF At
  <2> QED BY <2>2, <2>3
<1> QED BY <1>6, <1>7, <1>10, <1>12, <1>13 DEF DecodedEom

(* Decoding a frame keeps the invariant: what its patches inherit comes
   from frames that are decoded. *)
LEMMA DecodeFrameInv ==
  ASSUME Inv, DecodeFrame
  PROVE  Inv'
<1>1. /\ phase = "decode" /\ frame \in Frames
      /\ UNCHANGED <<mode, title, tiles, members, eomAdded, units>>
      /\ \/ frame + 1 < NumFrames /\ frame' = frame + 1 /\ phase' = "decode"
         \/ frame + 1 = NumFrames /\ frame' = frame /\ phase' = "done"
  BY DEF Inv, PhaseInv, DecodeFrame
<1>2. PICK list : list = [t \in Tiles |-> DecodedTile(frame, t)]
  OBVIOUS
<1>3. /\ decoded' = [decoded EXCEPT ![frame] = list]
      /\ eomFound' = [eomFound EXCEPT ![frame] = [t \in Tiles |-> DecodedEom(list[t], units[frame][t].eom)]]
  BY <1>2 DEF DecodeFrame, DecodedTile, DecodedEom, Mapped
<1>4. /\ \A f \in Frames : decoded'[f] = IF f = frame THEN list ELSE decoded[f]
      /\ \A f \in Frames, t \in Tiles :
           eomFound'[f][t] = IF f = frame THEN DecodedEom(list[t], units[frame][t].eom) ELSE eomFound[f][t]
  BY <1>3 DEF Inv, Types
<1>5. Reversed /\ Reversed' /\ phase # "place" /\ phase' # "place" /\ Sent
  BY <1>1 DEF Reversed, Sent
<1>6. \A f \in Frames, t \in Tiles :
        /\ Own(f, t)' = Own(f, t) /\ Emptied(f, t)' = Emptied(f, t) /\ OwnEom(f, t)' = OwnEom(f, t)
        /\ Lists(f, t)' = Lists(f, t)
  BY <1>1, <1>5 DEF Own, Emptied, OwnEom, Lists
<1>7. Types' /\ PhaseInv'
  <2>1. frame' \in Frames /\ frame' \in Nat
    BY <1>1, FrameAssumption DEF Frames
  <2> QED BY <1>1, <1>3, <2>1 DEF Inv, Types, Phases, PhaseInv
<1>8. NumberedInv' /\ UnplacedInv' /\ RangeInv'
  BY <1>1, <1>5 DEF Inv, NumberedInv, UnplacedInv, RangeInv
<1>9. KeptInv' /\ MembersInv'
  BY <1>1, <1>5, <1>6 DEF Inv, KeptInv, MembersInv
<1>10. NamesInv'
  BY <1>1, <1>5 DEF Inv, NamesInv, IndexMoved
<1>11. UnitsInv'
  <2>1. \A f \in Frames, t \in Tiles : CodeTile(f, t)' = CodeTile(f, t)
    BY <1>1, CodeTileFixed
  <2> QED BY <1>1, <1>5, <2>1 DEF Inv, UnitsInv
<1>12. \A f \in Frames : phase' = "done" \/ (phase' = "decode" /\ f < frame') => f < frame \/ f = frame
  BY <1>1, FrameAssumption DEF Frames
<1>13. NothingMoved' <=> NothingMoved
  BY <1>1 DEF NothingMoved, IndexMoved
<1>14. DecodedInv'
  <2>1. ASSUME NEW f \in Frames, NEW t \in Tiles, f < frame \/ f = frame
        PROVE  /\ SamePositions(decoded'[f][t], tiles[f][t])
               /\ NothingMoved => SameKind(decoded'[f][t], tiles[f][t])
    <3>1. CASE f = frame
      <4>1. decoded'[f][t] = DecodedTile(frame, t)
        BY <1>2, <1>4, <3>1
      <4> QED BY <1>1, <3>1, <4>1, DecodedTileIs
    <3>2. CASE f # frame
      <4>1. decoded'[f][t] = decoded[f][t] /\ f < frame
        BY <1>4, <2>1, <3>2
      <4> QED BY <1>1, <4>1 DEF Inv, DecodedInv
    <3> QED BY <3>1, <3>2
  <2> QED BY <1>1, <1>12, <1>13, <2>1 DEF DecodedInv
<1>15. EomInv'
  <2>1. ASSUME mode.eom, NEW f \in Frames, NEW t \in Tiles, f < frame \/ f = frame
        PROVE  eomFound'[f][t] = OwnEom(f, t) \/ Emptied(f, t)
    <3>1. CASE f = frame
      <4>1. units[frame][t].eom = members[frame][t]
        BY <1>1, <1>5 DEF Inv, UnitsInv, CodeTile
      <4>2. eomFound'[f][t] = DecodedEom(DecodedTile(frame, t), members[frame][t])
        BY <1>2, <1>4, <3>1, <4>1
      <4> QED BY <1>1, <2>1, <3>1, <4>2, DecodedEomIs
    <3>2. CASE f # frame
      <4>1. eomFound'[f][t] = eomFound[f][t] /\ f < frame
        BY <1>4, <2>1, <3>2
      <4> QED BY <1>1, <2>1, <4>1 DEF Inv, EomInv
    <3> QED BY <3>1, <3>2
  <2>2. ASSUME mode.eom, NEW f \in Frames, NEW t \in Tiles
        PROVE  eomAdded[f][t] = OwnEom(f, t) \/ Emptied(f, t)
    BY <1>5, <2>2 DEF Inv, EomInv
  <2> QED BY <1>1, <1>6, <1>12, <2>1, <2>2 DEF EomInv
<1> QED BY <1>7, <1>8, <1>9, <1>10, <1>11, <1>14, <1>15 DEF Inv

(* The invariant speaks of the variables only. *)
LEMMA StutterInv ==
  ASSUME Inv, UNCHANGED vars
  PROVE  Inv'
<1>1. UNCHANGED <<mode, phase, frame, title, tiles, members, eomAdded, units, decoded, eomFound>>
  BY DEF vars
<1>2. \A f \in Frames, t \in Tiles :
        /\ Own(f, t)' = Own(f, t) /\ Emptied(f, t)' = Emptied(f, t) /\ OwnEom(f, t)' = OwnEom(f, t)
        /\ Lists(f, t)' = Lists(f, t) /\ CodeTile(f, t)' = CodeTile(f, t)
  BY <1>1, CodeTileFixed DEF Own, Emptied, OwnEom, Lists, Reversed
<1>3. Types' /\ PhaseInv' /\ NumberedInv' /\ UnplacedInv' /\ RangeInv'
  BY <1>1 DEF Inv, Types, PhaseInv, NumberedInv, UnplacedInv, RangeInv
<1>4. KeptInv' /\ MembersInv'
  BY <1>1, <1>2 DEF Inv, KeptInv, MembersInv
<1>5. NamesInv'
  BY <1>1 DEF Inv, NamesInv, IndexMoved, Reversed
<1>6. EomInv' /\ UnitsInv'
  BY <1>1, <1>2 DEF Inv, EomInv, UnitsInv, Reversed, Sent
<1>7. DecodedInv'
  BY <1>1 DEF Inv, DecodedInv, NothingMoved, IndexMoved
<1> QED BY <1>3, <1>4, <1>5, <1>6, <1>7 DEF Inv


-----------------------------------------------------------------------------
(***************************************************************************)
(* The theorems.                                                           *)
(***************************************************************************)
LEMMA NextInv == Inv /\ [Next]_vars => Inv'
<1> SUFFICES ASSUME Inv, [Next]_vars PROVE Inv'
  OBVIOUS
<1>1. ASSUME NEW new \in Segmentations[mode], NEW matched \in SUBSET (1 .. MaxPatches), PlaceFrame(new, matched)
      PROVE  Inv'
  BY <1>1, PlaceFrameInv
<1>2. CASE adjustReferenceAtlasFrames
  BY <1>2, AdjustInv
<1>3. CASE EndAdjust
  BY <1>3, EndAdjustInv
<1>4. CASE generatePointCloud
  BY <1>4, ReconstructInv
<1>5. CASE ReverseOrder
  BY <1>5, ReverseInv
<1>6. CASE CodeEmptyEom
  BY <1>6, CodeEmptyEomInv
<1>7. CASE CodeGroup
  BY <1>7, CodeGroupInv
<1>8. CASE DecodeFrame
  BY <1>8, DecodeFrameInv
<1>9. CASE UNCHANGED vars
  BY <1>9, StutterInv
<1> QED BY <1>1, <1>2, <1>3, <1>4, <1>5, <1>6, <1>7, <1>8, <1>9 DEF Next

(* The invariant holds in every reachable state. *)
LEMMA Invariance == Spec => []Inv
  BY InitInv, NextInv, PTL DEF Spec

(* When the lists are settled they have been reversed, if they are to be. *)
LEMMA SettledMeans == Settled => Reversed /\ phase # "place" /\ phase # "adjust"
  BY DEF Settled, Reversed

(* The index of an inter patch names the patch that was matched with it,   *)
(* after all matching, splitting, removing and reversing, wherever the     *)
(* reversal did not count from the end of another frame's list             *)
(* (PCCEncoder.cpp: spatialConsistencyPack*, generateTilesFromImage,       *)
(* adjustReferenceAtlasFrames, createPatchFrameDataStructure).             *)
THEOREM IndicesFindTheirPatch == Spec => []IndicesNameTheirPatch
<1>1. Inv => IndicesNameTheirPatch
  <2> SUFFICES ASSUME Inv, Settled, NEW f \in Frames, NEW t \in Tiles, NEW i \in DOMAIN tiles[f][t],
                      tiles[f][t][i].best # invalid, ~IndexMoved(f, t, tiles[f][t][i])
               PROVE  /\ RefAfoc(f, tiles[f][t][i].ref) >= 0
                      /\ tiles[f][t][i].best + 1 \in DOMAIN tiles[RefAfoc(f, tiles[f][t][i].ref)][t]
                      /\ At(tiles[RefAfoc(f, tiles[f][t][i].ref)][t], tiles[f][t][i].best).pos = tiles[f][t][i].match
    BY DEF IndicesNameTheirPatch
  <2>1. PICK p : p = tiles[f][t][i]
    OBVIOUS
  <2>2. Names(p, tiles, f, t)
    BY <2>1, SettledMeans DEF Inv, NamesInv
  <2> QED BY <2>1, <2>2 DEF Names, Matches, At
<1> QED BY <1>1, Invariance, PTL

(* The decoder rebuilds the patches of every tile - what it is sent, what   *)
(* it adds up and what it inherits - wherever no index was moved to another*)
(* patch (the two createPatchFrameDataStructure).                          *)
THEOREM PatchesAreDecoded == Spec => []PatchesDecoded
<1>1. Inv => PatchesDecoded
  <2> SUFFICES ASSUME Inv, phase = "done", NothingMoved, NEW f \in Frames, NEW t \in Tiles
               PROVE  decoded[f][t] = Mapped(tiles[f][t], LAMBDA p : [pos |-> p.pos, view |-> p.view, orient |-> p.orient])
    BY DEF PatchesDecoded, NothingMoved
  <2>1. PICK list, got : list = tiles[f][t] /\ got = decoded[f][t]
    OBVIOUS
  <2>2. SamePositions(got, list) /\ SameKind(got, list)
    BY <2>1 DEF Inv, DecodedInv
  <2>3. \A i \in DOMAIN list : got[i].view = list[i].view /\ got[i].orient = list[i].orient
    BY <2>2 DEF SameKind
  <2>4. got = [i \in DOMAIN list |-> [pos |-> list[i].pos, view |-> list[i].view, orient |-> list[i].orient]]
    BY <2>2, <2>3 DEF SamePositions
  <2> QED BY <2>1, <2>4 DEF Mapped
<1> QED BY <1>1, Invariance, PTL

(* The decoder adds the EOM points of the patches the encoder added them   *)
(* for, in the same order, and those of every patch that has some: all but *)
(* a tile that was emptied (the two generatePointCloud).                   *)
THEOREM EomPointsFindTheirPatches == Spec => []EomOfItsPatches
<1>1. Inv => EomOfItsPatches
  <2> SUFFICES ASSUME Inv, phase = "done", mode.eom, NEW f \in Frames, NEW t \in Tiles, ~Emptied(f, t)
               PROVE  eomFound[f][t] = eomAdded[f][t] /\ eomAdded[f][t] = OwnEom(f, t)
    BY DEF EomOfItsPatches, OwnEom, EomPlaces
  <2>1. Reversed
    BY DEF Reversed
  <2> QED BY <2>1 DEF Inv, EomInv
<1> QED BY <1>1, Invariance, PTL

(* The positions of a reversed list are the reversed positions. *)
LEMMA ReversedPositions ==
  ASSUME NEW own \in Seq(PatchType)
  PROVE  Reverse(Positions(own)) = Positions(Reverse(own))
<1>1. PICK n \in Nat : n = Len(own) /\ DOMAIN own = 1 .. n
  OBVIOUS
<1>2. PICK ps : ps = Positions(own) /\ ps = [i \in 1 .. n |-> own[i].pos]
  BY <1>1 DEF Positions, Mapped
<1>3. Len(ps) = n
  <2>1. ASSUME NEW i \in 1 .. n PROVE ps[i] \in Int
    <3>1. own[i] \in PatchType
      BY <1>1
    <3> QED BY <1>2, <3>1 DEF PatchType
  <2>2. ps = [i \in 1 .. n |-> ps[i]]
    BY <1>2
  <2> QED BY <2>1, <2>2, IsSeq
<1>4. Reverse(ps) = [i \in 1 .. n |-> ps[n - i + 1]]
  BY <1>3 DEF Reverse
<1>5. PICK turned : turned = Reverse(own) /\ turned = [i \in 1 .. n |-> own[n - i + 1]]
  BY <1>1 DEF Reverse
<1>6. Positions(turned) = [i \in 1 .. n |-> turned[i].pos]
  BY <1>5 DEF Positions, Mapped
<1>7. \A i \in 1 .. n : n - i + 1 \in 1 .. n /\ ps[n - i + 1] = turned[i].pos
  BY <1>2, <1>5
<1> QED BY <1>2, <1>4, <1>5, <1>6, <1>7

(* No patch is lost, repeated or moved to another tile between its placing *)
(* and its coding, but for the tiles that are emptied                      *)
(* (generateTilesFromImage, adjustReferenceAtlasFrames and the reversal in *)
(* createPatchFrameDataStructure).                                         *)
THEOREM PatchesAreKept == Spec => []PatchesKept
<1>1. Inv => PatchesKept
  <2> SUFFICES ASSUME Inv, Settled, NEW f \in Frames, NEW t \in Tiles, ~Emptied(f, t)
               PROVE  Positions(tiles[f][t]) = IF mode.reverse THEN Reverse(Positions(Own(f, t))) ELSE Positions(Own(f, t))
    BY DEF PatchesKept, Own, TilePatches
  <2>1. PICK own \in Seq(PatchType) : own = Own(f, t)
    BY TilePatchesAt DEF Inv, Types, Own
  <2>2. PICK placed : placed = (IF mode.reverse THEN Reverse(own) ELSE own) /\ AlikeLists(tiles[f][t], placed)
    BY <2>1, SettledMeans DEF Inv, KeptInv, Lists
  <2>3. Positions(tiles[f][t]) = Positions(placed)
    BY <2>2 DEF Positions, Mapped, AlikeLists, Alike
  <2> QED BY <2>1, <2>2, <2>3, ReversedPositions
<1> QED BY <1>1, Invariance, PTL

=============================================================================
