------------------------- MODULE SampleStreams_proofs -------------------------
(***************************************************************************)
(* Proofs about the sample streams: the V3C units of the file, the NAL     *)
(* units of an atlas sub-stream, and those of a video, which are samples   *)
(* on their way from one byte stream to another.                           *)
(*                                                                         *)
(* 1. Digits: Number takes back what Digit writes, as far as there are     *)
(*    digits enough.                                                       *)
(* 2. Streams: a stream is the header byte and, one after the other, the   *)
(*    chunks of the units, each a size field and the unit's bytes; what a  *)
(*    reader at the start of a chunk finds.                                *)
(* 3. The file.                                                            *)
(* 4. The atlas sub-stream.                                                *)
(* 5. The video streams: where the start codes are found, what the turns   *)
(*    of the two conversions make, and what a decoder finds.               *)
(***************************************************************************)
EXTENDS V3CSampleStream, AtlasSubStream, VideoByteStream, InductionLemmas, SequenceTheorems, FiniteSetTheorems, TLAPS

(***************************************************************************)
(* Powers and digits.                                                      *)
(***************************************************************************)
(* p holds the powers of b up to the n-th *)
Powers(p, b, n) ==
  /\ p \in [0 .. n -> Nat \ {0}]
  /\ \A k \in 0 .. n : p[k] = IF k = 0 THEN 1 ELSE b * p[k - 1]

LEMMA PowerSolves ==
  ASSUME NEW b \in Nat \ {0}, NEW n \in Nat
  PROVE  \E p : Powers(p, b, n) /\ Power(b, n) = p[n]
<1> DEFINE D == Nat \ {0}
           step == [k \in 1 .. n |-> [d \in D |-> b * d]]
<1>1. \A k \in 1 .. n, d \in D : step[k][d] = b * d
  OBVIOUS
<1>2. \A d \in D : b * d \in D
  OBVIOUS
<1> HIDE DEF step, D
<1>3. StepsIn(step, 1 .. n, D)
  BY <1>1, <1>2 DEF StepsIn
<1>4. 1 \in D
  BY DEF D
<1>5. PICK p : Recursion(p, 0, n, D, 1, step)
  BY <1>3, <1>4, PrefixRecursion
<1>6. ASSUME NEW k \in 0 .. n PROVE p[k] = IF k = 0 THEN 1 ELSE b * p[k - 1]
  <2>1. k # 0 => k \in 1 .. n /\ k - 1 \in 0 .. n
    OBVIOUS
  <2>2. k # 0 => p[k - 1] \in D
    BY <1>5, <2>1 DEF Recursion
  <2> QED BY <1>1, <1>5, <2>1, <2>2 DEF Recursion
<1>7. p = [k \in 0 .. n |-> IF k = 0 THEN 1 ELSE b * p[k - 1]]
  BY <1>5, <1>6 DEF Recursion
<1>8. PICK q : Power(b, n) = q[n] /\ q = [k \in 0 .. n |-> IF k = 0 THEN 1 ELSE b * q[k - 1]]
  BY <1>7 DEF Power
<1>9. \A k \in 0 .. n : q[k] = IF k = 0 THEN 1 ELSE b * q[k - 1]
  BY <1>8
<1>10. \A k \in 0 .. n : q[k] \in D
  <2> DEFINE T == {k \in 0 .. n : q[k] \in D}
  <2>1. 0 \in T
    BY <1>4, <1>9
  <2>2. \A k \in 1 .. n : k - 1 \in T => k \in T
    BY <1>2, <1>9
  <2> HIDE DEF T
  <2>3. \A k \in 0 .. n : k \in T
    BY <2>1, <2>2, PrefixInduction
  <2> QED BY <2>3 DEF T
<1>11. q \in [0 .. n -> Nat \ {0}]
  <2>1. \A k \in 0 .. n : q[k] \in Nat \ {0}
    BY <1>10 DEF D
  <2> QED BY <1>8, <2>1
<1>12. Powers(q, b, n)
  BY <1>9, <1>11 DEF Powers
<1> QED BY <1>8, <1>12

(* the powers do not depend on how far they are taken *)
LEMMA PowersAgree ==
  ASSUME NEW b \in Nat \ {0}, NEW n \in Nat, NEW m \in Nat, NEW p, NEW q, Powers(p, b, n), Powers(q, b, m),
         NEW k \in Nat, k <= n, k <= m
  PROVE  p[k] = q[k]
<1> DEFINE T == {i \in 0 .. k : p[i] = q[i]}
<1>1. 0 \in T
  BY DEF Powers
<1>2. ASSUME NEW i \in 1 .. k, i - 1 \in T PROVE i \in T
  <2>1. i \in 0 .. n /\ i \in 0 .. m /\ i # 0 /\ p[i - 1] = q[i - 1]
    BY <1>2
  <2> QED BY <2>1 DEF Powers
<1> HIDE DEF T
<1>3. \A i \in 0 .. k : i \in T
  BY <1>1, <1>2, PrefixInduction
<1> QED BY <1>3 DEF T

(* A power is what one expects of it. *)
LEMMA PowerIs ==
  ASSUME NEW b \in Nat \ {0}
  PROVE  /\ Power(b, 0) = 1
         /\ \A n \in Nat : Power(b, n) \in Nat \ {0} /\ Power(b, n + 1) = b * Power(b, n)
<1>1. ASSUME NEW n \in Nat PROVE Power(b, n) \in Nat \ {0} /\ (n = 0 => Power(b, n) = 1)
  <2>1. PICK p : Powers(p, b, n) /\ Power(b, n) = p[n]
    BY PowerSolves
  <2>2. n \in 0 .. n
    OBVIOUS
  <2> QED BY <2>1, <2>2 DEF Powers
<1>2. ASSUME NEW n \in Nat PROVE Power(b, n + 1) = b * Power(b, n)
  <2>1. PICK p : Powers(p, b, n) /\ Power(b, n) = p[n]
    BY PowerSolves
  <2>2. PICK m \in Nat : m = n + 1
    OBVIOUS
  <2>3. PICK q : Powers(q, b, m) /\ Power(b, m) = q[m]
    BY PowerSolves
  <2>4. n <= n /\ n <= m
    BY <2>2
  <2>5. p[n] = q[n]
    BY <2>1, <2>3, <2>4, PowersAgree
  <2>6. m \in 0 .. m /\ m # 0 /\ m - 1 = n
    BY <2>2
  <2>7. q[m] = b * q[n]
    BY <2>3, <2>6 DEF Powers
  <2> QED BY <2>1, <2>2, <2>3, <2>5, <2>7
<1> QED BY <1>1, <1>2

(* The powers of a sum are products, and a power of a power is a power. *)
LEMMA PowerOfSum ==
  ASSUME NEW b \in Nat \ {0}, NEW m \in Nat, NEW n \in Nat
  PROVE  Power(b, m + n) = Power(b, m) * Power(b, n)
<1> DEFINE T == {i \in 0 .. n : Power(b, m + i) = Power(b, m) * Power(b, i)}
<1>1. 0 \in T
  BY PowerIs
<1>2. ASSUME NEW i \in 1 .. n, i - 1 \in T PROVE i \in T
  <2>1. PICK j \in Nat : j = i - 1
    OBVIOUS
  <2>2. PICK x \in Nat, y \in Nat, z \in Nat : x = Power(b, m) /\ y = Power(b, j) /\ z = Power(b, m + j)
    <3>1. m + j \in Nat
      OBVIOUS
    <3> QED BY <3>1, PowerIs
  <2>3. Power(b, j + 1) = b * y /\ Power(b, (m + j) + 1) = b * z
    BY <2>2, PowerIs
  <2>4. z = x * y
    BY <1>2, <2>1, <2>2
  <2>5. i = j + 1 /\ m + i = (m + j) + 1
    BY <2>1
  <2>6. b * (x * y) = x * (b * y)
    OBVIOUS
  <2> QED BY <2>2, <2>3, <2>4, <2>5, <2>6
<1> HIDE DEF T
<1>3. \A i \in 0 .. n : i \in T
  BY <1>1, <1>2, PrefixInduction
<1> QED BY <1>3 DEF T

LEMMA PowerOfPower ==
  ASSUME NEW b \in Nat \ {0}, NEW m \in Nat, NEW n \in Nat
  PROVE  Power(Power(b, m), n) = Power(b, m * n)
<1>1. PICK c \in Nat \ {0} : c = Power(b, m)
  BY PowerIs
<1> DEFINE T == {i \in 0 .. n : Power(c, i) = Power(b, m * i)}
<1>2. 0 \in T
  <2>1. m * 0 = 0
    OBVIOUS
  <2> QED BY <2>1, PowerIs
<1>3. ASSUME NEW i \in 1 .. n, i - 1 \in T PROVE i \in T
  <2>1. PICK j \in Nat : j = i - 1 /\ i = j + 1
    OBVIOUS
  <2>2. PICK k \in Nat : k = m * j /\ m * i = m + k
    BY <2>1
  <2>3. Power(c, j + 1) = c * Power(c, j)
    BY PowerIs
  <2>4. Power(b, m + k) = c * Power(b, k)
    BY <1>1, PowerOfSum
  <2>5. Power(c, j) = Power(b, k)
    BY <1>3, <2>1, <2>2
  <2> QED BY <2>1, <2>2, <2>3, <2>4, <2>5
<1> HIDE DEF T
<1>4. \A i \in 0 .. n : i \in T
  BY <1>2, <1>3, PrefixInduction
<1> QED BY <1>1, <1>4 DEF T

(* Powers grow with their exponent. *)
LEMMA PowerGrows ==
  ASSUME NEW b \in Nat \ {0}, NEW m \in Nat, NEW n \in Nat, m <= n
  PROVE  Power(b, m) <= Power(b, n)
<1>1. PICK k \in Nat : k = n - m /\ m + k = n
  OBVIOUS
<1>2. PICK x \in Nat \ {0}, y \in Nat \ {0} : x = Power(b, m) /\ y = Power(b, k)
  BY PowerIs
<1>3. Power(b, n) = x * y
  BY <1>1, <1>2, PowerOfSum
<1>4. PICK z \in Nat : y = z + 1
  <2>1. y - 1 \in Nat /\ y = (y - 1) + 1
    OBVIOUS
  <2> QED BY <2>1
<1>5. x * y = x * z + x /\ x * z >= 0
  BY <1>4
<1> QED BY <1>2, <1>3, <1>5

(* A number is smaller than its power of two. *)
LEMMA PowerExceeds ==
  ASSUME NEW n \in Nat
  PROVE  n < Power(2, n)
<1> DEFINE T == {i \in 0 .. n : i < Power(2, i)}
<1>1. 0 \in T
  BY PowerIs
<1>2. ASSUME NEW i \in 1 .. n, i - 1 \in T PROVE i \in T
  <2>1. PICK j \in Nat : j = i - 1 /\ i = j + 1
    OBVIOUS
  <2>2. Power(2, j) \in Nat /\ Power(2, j + 1) = 2 * Power(2, j)
    BY PowerIs
  <2>3. j < Power(2, j)
    BY <1>2, <2>1
  <2> QED BY <2>1, <2>2, <2>3
<1> HIDE DEF T
<1>3. \A i \in 0 .. n : i \in T
  BY <1>1, <1>2, PrefixInduction
<1> QED BY <1>3 DEF T

LEMMA PowersOfTwo ==
  \A n \in Nat : Power(2, n) \in Nat
<1>1. 2 \in Nat \ {0}
  OBVIOUS
<1> QED BY <1>1, PowerIs

-----------------------------------------------------------------------------
(***************************************************************************)
(* The width of a size field.                                              *)
(***************************************************************************)
LEMMA floorLog2Is ==
  ASSUME NEW x \in Nat \ {0}
  PROVE  /\ floorLog2(x) \in Nat
         /\ Power(2, floorLog2(x)) <= x /\ x < Power(2, floorLog2(x) + 1)
<1> DEFINE Above == {n \in Nat : x < Power(2, n)}
<1>1. x \in Above
  BY PowerExceeds
<1>2. PICK m \in Above : \A n \in Above : m <= n
  <2>1. Above \subseteq Nat /\ Above # {}
    BY <1>1
  <2> HIDE DEF Above
  <2> QED BY <2>1, LeastNumber
<1>3. m \in Nat /\ x < Power(2, m) /\ m # 0
  BY <1>2, PowerIs
<1>4. PICK k \in Nat : k = m - 1 /\ m = k + 1
  BY <1>3
<1>5. k \notin Above
  BY <1>2, <1>4
<1>6. Power(2, k) <= x
  BY <1>5, PowerIs
<1>7. k \in 0 .. x
  BY <1>6, PowerExceeds, PowerIs
<1>8. \E n \in 0 .. x : Power(2, n) <= x /\ x < Power(2, n + 1)
  BY <1>3, <1>4, <1>6, <1>7
<1>9. floorLog2(x) = CHOOSE n \in 0 .. x : Power(2, n) <= x /\ x < Power(2, n + 1)
  BY DEF floorLog2
<1> QED BY <1>8, <1>9

LEMMA ceilLog2Is ==
  ASSUME NEW x \in Nat \ {0}
  PROVE  /\ ceilLog2(x) \in Nat /\ x <= Power(2, ceilLog2(x))
         /\ \A m \in Nat : x <= Power(2, m) => ceilLog2(x) <= m
<1>1. CASE x = 1
  <2>1. x - 1 = 0 /\ floorLog2(x - 1) = -1
    BY <1>1 DEF floorLog2
  <2>2. ceilLog2(x) = 0
    BY <1>1, <2>1 DEF ceilLog2
  <2>3. Power(2, 0) = 1
    BY PowerIs
  <2> QED BY <1>1, <2>2, <2>3
<1>2. CASE x # 1
  <2>1. PICK y \in Nat \ {0} : y = x - 1
    BY <1>2
  <2>2. PICK n \in Nat : n = floorLog2(y) /\ y < Power(2, n + 1) /\ Power(2, n) <= y
    BY <2>1, floorLog2Is
  <2>3. ceilLog2(x) = n + 1
    BY <2>1, <2>2 DEF ceilLog2
  <2>4. PICK p \in Nat : p = Power(2, n + 1)
    BY PowerIs
  <2>5. x <= p
    BY <2>1, <2>2, <2>4
  <2>6. n + 1 \in Nat
    OBVIOUS
  <2>7. ASSUME NEW m \in Nat, x <= Power(2, m) PROVE n + 1 <= m
    <3>1. PICK u \in Nat, v \in Nat : u = Power(2, m) /\ v = Power(2, n)
      BY PowersOfTwo
    <3>2. v < u
      BY <2>1, <2>2, <2>7, <3>1
    <3>3. m <= n => u <= v
      BY <3>1, PowerGrows
    <3> QED BY <3>1, <3>2, <3>3
  <2> QED BY <2>3, <2>4, <2>5, <2>6, <2>7
<1> QED BY <1>1, <1>2

LEMMA BaseIs ==
  Base \in Nat /\ Base >= 2
<1>1. ByteBits \in Nat /\ 1 <= ByteBits
  BY ByteBitsAssumption
<1>2. Power(2, 1) = 2
  <2>1. Power(2, 0 + 1) = 2 * Power(2, 0) /\ Power(2, 0) = 1
    BY PowerIs
  <2> QED BY <2>1
<1>3. Power(2, 1) <= Power(2, ByteBits)
  BY <1>1, PowerGrows
<1>4. Power(2, ByteBits) \in Nat
  BY <1>1, PowerIs
<1> QED BY <1>2, <1>3, <1>4 DEF Base

(* A uint32_t holds more than the sizes of the messages. *)
LEMMA UnsignedLimitIs ==
  UnsignedLimit \in Nat /\ UnsignedLimit > 8 /\ UnsignedLimit = Power(2, ByteBits * 4)
<1>1. PICK m \in Nat \ {0} : m = ByteBits
  BY ByteBitsAssumption
<1>2. 2 \in Nat \ {0} /\ 4 \in Nat /\ 4 <= m * 4 /\ m * 4 \in Nat
  OBVIOUS
<1>3. UnsignedLimit = Power(2, m * 4)
  BY <1>1, <1>2, PowerOfPower DEF Base, UnsignedLimit
<1>4. Power(2, 4) <= Power(2, m * 4)
  BY <1>2, PowerGrows
<1>5. Power(2, 4) = 16
  <2>1. Power(2, 0) = 1 /\ \A n \in Nat : Power(2, n + 1) = 2 * Power(2, n)
    BY PowerIs
  <2>2. Power(2, 0 + 1) = 2
    BY <2>1
  <2>3. Power(2, 1 + 1) = 4
    BY <2>1, <2>2
  <2>4. Power(2, 2 + 1) = 8
    BY <2>1, <2>3
  <2> QED BY <2>1, <2>4
<1>6. Power(2, m * 4) \in Nat
  BY <1>2, PowersOfTwo
<1> QED BY <1>1, <1>3, <1>4, <1>5, <1>6

(* The bytes chosen for a number can tell apart as many numbers as that; four of them
   are enough for one that a uint32_t holds, and for the limit itself. *)
LEMMA BytesForIs ==
  ASSUME NEW x \in Nat \ {0}, x <= UnsignedLimit
  PROVE  BytesFor(x) \in 1 .. 4 /\ x <= Power(Base, BytesFor(x))
<1>1. PICK c \in Nat : c = ceilLog2(x) /\ x <= Power(2, c)
  BY ceilLog2Is
<1>2. PICK B \in Nat \ {0} : B = ByteBits
  BY ByteBitsAssumption
<1>3. c <= B * 4
  <2>1. x <= Power(2, B * 4) /\ B * 4 \in Nat
    BY <1>2, UnsignedLimitIs
  <2> QED BY <1>1, <2>1, ceilLog2Is
<1>4. PICK n \in 0 .. 4 : n = (c + B - 1) \div B /\ c <= B * n
  <2>1. PICK t \in Nat : t = c + B - 1 /\ t < B * 5
    BY <1>3
  <2>2. PICK q \in Nat, r \in 0 .. B - 1 : q = t \div B /\ t = B * q + r
    BY <2>1
  <2>3. PICK p \in Nat : p = B * q
    OBVIOUS
  <2>4. c <= p
    BY <2>1, <2>2, <2>3
  <2>5. q <= 4
    <3>1. q > 4 => q = 5 + (q - 5) /\ q - 5 \in Nat
      OBVIOUS
    <3>2. \A d \in Nat : B * (5 + d) = B * 5 + B * d /\ B * d >= 0
      OBVIOUS
    <3>3. q > 4 => p >= B * 5
      BY <2>3, <3>1, <3>2
    <3>4. p <= t
      BY <2>2, <2>3
    <3> QED BY <2>1, <3>3, <3>4
  <2> QED BY <2>1, <2>2, <2>3, <2>4, <2>5
<1>5. PICK k \in Nat : k = B * n
  OBVIOUS
<1>6. x <= Power(Base, n)
  <2>1. Power(Base, n) = Power(2, k)
    BY <1>2, <1>5, PowerOfPower DEF Base
  <2>2. c <= k
    BY <1>4, <1>5
  <2>3. Power(2, c) <= Power(2, k)
    BY <2>2, PowerGrows
  <2>4. Power(2, c) \in Nat
    BY PowersOfTwo
  <2>5. Power(2, k) \in Nat
    BY PowersOfTwo
  <2> QED BY <1>1, <2>1, <2>3, <2>4, <2>5
<1>7. BytesFor(x) = IF n < 1 THEN 1 ELSE n
  BY <1>1, <1>2, <1>4 DEF BytesFor
<1>8. CASE n < 1
  <2>1. n = 0
    BY <1>8
  <2>2. Base \in Nat \ {0} /\ 0 <= 1
    BY BaseIs
  <2>3. Power(Base, 0) <= Power(Base, 1)
    BY <2>2, PowerGrows
  <2>4. Power(Base, 0) \in Nat /\ Power(Base, 1) \in Nat
    BY <2>2, PowerIs
  <2> QED BY <1>6, <1>7, <2>1, <2>3, <2>4
<1>9. CASE n \in 1 .. 4
  BY <1>6, <1>7, <1>9
<1> QED BY <1>8, <1>9

-----------------------------------------------------------------------------
(***************************************************************************)
(* Numbers in digits.                                                      *)
(***************************************************************************)
(* v holds the values of the first digits *)
Values(v, d, n, b) ==
  /\ v \in [0 .. n -> Nat]
  /\ \A k \in 0 .. n : v[k] = IF k = 0 THEN 0 ELSE v[k - 1] * b + d[k]

LEMMA NumberSolves ==
  ASSUME NEW b \in Nat \ {0}, NEW d \in Seq(Nat), NEW n \in Nat, Len(d) = n
  PROVE  \E v : Values(v, d, n, b) /\ Number(d, b) = v[n]
<1>1. \A k \in 1 .. n : d[k] \in Nat
  OBVIOUS
<1> DEFINE step == [k \in 1 .. n |-> [x \in Nat |-> x * b + d[k]]]
<1>2. \A k \in 1 .. n, x \in Nat : step[k][x] = x * b + d[k]
  OBVIOUS
<1>3. \A k \in 1 .. n, x \in Nat : x * b + d[k] \in Nat
  <2>1. ASSUME NEW k \in 1 .. n, NEW x \in Nat PROVE x * b + d[k] \in Nat
    <3>1. PICK y \in Nat : y = x * b
      OBVIOUS
    <3> QED BY <1>1, <3>1
  <2> QED BY <2>1
<1> HIDE DEF step
<1>4. StepsIn(step, 1 .. n, Nat)
  BY <1>2, <1>3 DEF StepsIn
<1>5. PICK v : Recursion(v, 0, n, Nat, 0, step)
  <2>1. 0 \in Nat
    OBVIOUS
  <2> QED BY <1>4, <2>1, PrefixRecursion
<1>6. ASSUME NEW k \in 0 .. n PROVE v[k] = IF k = 0 THEN 0 ELSE v[k - 1] * b + d[k]
  <2>1. k # 0 => k \in 1 .. n /\ k - 1 \in 0 .. n
    OBVIOUS
  <2>2. k # 0 => v[k - 1] \in Nat
    BY <1>5, <2>1 DEF Recursion
  <2> QED BY <1>2, <1>5, <2>1, <2>2 DEF Recursion
<1>7. v = [k \in 0 .. Len(d) |-> IF k = 0 THEN 0 ELSE v[k - 1] * b + d[k]]
  BY <1>5, <1>6 DEF Recursion
<1>8. PICK w : /\ Number(d, b) = w[Len(d)]
               /\ w = [k \in 0 .. Len(d) |-> IF k = 0 THEN 0 ELSE w[k - 1] * b + d[k]]
  <2> DEFINE Solves(w) == w = [k \in 0 .. Len(d) |-> IF k = 0 THEN 0 ELSE w[k - 1] * b + d[k]]
  <2>1. Number(d, b) = (CHOOSE w : Solves(w))[Len(d)]
    BY Zenon DEF Number
  <2>2. Solves(v)
    BY <1>7
  <2> HIDE DEF Solves
  <2>3. Solves(CHOOSE w : Solves(w))
    BY <2>2, Zenon
  <2>4. PICK w : Number(d, b) = w[Len(d)] /\ Solves(w)
    BY <2>1, <2>3, Zenon
  <2> QED BY <2>4 DEF Solves
<1>9. \A k \in 0 .. n : w[k] = IF k = 0 THEN 0 ELSE w[k - 1] * b + d[k]
  BY <1>8
<1>10. \A k \in 0 .. n : w[k] \in Nat
  <2> DEFINE T == {k \in 0 .. n : w[k] \in Nat}
  <2>1. 0 \in T
    BY <1>9
  <2>2. ASSUME NEW k \in 1 .. n, k - 1 \in T PROVE k \in T
    <3>1. w[k - 1] \in Nat /\ w[k] = w[k - 1] * b + d[k]
      BY <1>9, <2>2
    <3>2. w[k] \in Nat
      BY <1>3, <3>1
    <3> QED BY <3>2
  <2> HIDE DEF T
  <2>3. \A k \in 0 .. n : k \in T
    BY <2>1, <2>2, PrefixInduction
  <2> QED BY <2>3 DEF T
<1>11. Values(w, d, n, b)
  BY <1>8, <1>9, <1>10 DEF Values
<1> QED BY <1>8, <1>11

(* Dividing twice is dividing by the product. *)
LEMMA DivideTwice ==
  ASSUME NEW v \in Nat, NEW x \in Nat \ {0}, NEW b \in Nat \ {0}
  PROVE  (v \div x) \div b = v \div (b * x)
<1>1. PICK q \in Nat, r \in 0 .. x - 1 : q = v \div x /\ v = x * q + r
  OBVIOUS
<1>2. PICK p \in Nat, s \in 0 .. b - 1 : p = q \div b /\ q = b * p + s
  OBVIOUS
<1>3. PICK M \in Nat \ {0} : M = b * x
  OBVIOUS
<1>4. PICK a \in Nat : a = x * s
  OBVIOUS
<1>5. a + r \in 0 .. M - 1
  <2>1. x * (b - s) >= x
    <3>1. PICK t \in Nat : b - s = t + 1
      <4>1. b - s - 1 \in Nat /\ b - s = (b - s - 1) + 1
        OBVIOUS
      <4> QED BY <4>1
    <3>2. x * (t + 1) = x * t + x /\ x * t \in Nat
      OBVIOUS
    <3> QED BY <3>1, <3>2
  <2>2. x * (b - s) = M - a
    BY <1>3, <1>4
  <2> QED BY <1>4, <2>1, <2>2
<1>6. v = M * p + (a + r)
  <2>1. x * (b * p + s) = M * p + a
    BY <1>3, <1>4
  <2>2. x * q = M * p + a
    BY <1>2, <2>1
  <2>3. PICK y \in Nat, z \in Nat : y = x * q /\ z = M * p
    OBVIOUS
  <2> QED BY <1>1, <1>4, <2>2, <2>3
<1>7. (M * p + (a + r)) \div M = p
  BY <1>5, DivisionIs
<1> QED BY <1>1, <1>2, <1>3, <1>6, <1>7


(* One digit of a number is what the digits before it leave. *)
LEMMA DigitIs ==
  ASSUME NEW v \in Nat, NEW b \in Nat \ {0}, NEW n \in Nat, NEW k \in 1 .. n
  PROVE  /\ Digit(v, b, n, k) \in Nat
         /\ v \div Power(b, n - k) = b * (v \div Power(b, n - (k - 1))) + Digit(v, b, n, k)
<1>1. PICK m \in Nat : m = n - k /\ n - (k - 1) = m + 1
  OBVIOUS
<1>2. PICK x \in Nat \ {0} : x = Power(b, m) /\ Power(b, m + 1) = b * x
  BY PowerIs
<1>3. PICK q \in Nat : q = v \div x
  OBVIOUS
<1>4. PICK p \in Nat, r \in 0 .. b - 1 : p = q \div b /\ r = q % b /\ q = b * p + r
  OBVIOUS
<1>5. p = v \div (b * x)
  BY <1>3, <1>4, DivideTwice
<1>6. Digit(v, b, n, k) = r
  BY <1>1, <1>2, <1>3, <1>4 DEF Digit
<1> QED BY <1>1, <1>2, <1>3, <1>4, <1>5, <1>6

IsDigits(d, v, b, n) == d \in Seq(Nat) /\ Len(d) = n /\ \A k \in 1 .. n : d[k] = Digit(v, b, n, k)

(* What n digits hold of a number: all of it when it is smaller than the n-th power of
   the base, nothing when it is that power. *)
LEMMA DigitsHold ==
  ASSUME NEW v \in Nat, NEW b \in Nat \ {0}, NEW n \in Nat, NEW d, IsDigits(d, v, b, n)
  PROVE  /\ v < Power(b, n) => Number(d, b) = v
         /\ v = Power(b, n) => Number(d, b) = 0
<1>1. PICK w : Values(w, d, n, b) /\ Number(d, b) = w[n]
  BY NumberSolves DEF IsDigits
<1>2. PICK P \in Nat \ {0} : P = Power(b, n)
  BY PowerIs
<1>3. PICK top \in Nat : top = v \div P
  OBVIOUS
<1> DEFINE Left(k) == v \div Power(b, n - k)
           T == {k \in 0 .. n : w[k] = Left(k) - top * Power(b, k)}
<1>4. 0 \in T
  <2>1. Power(b, 0) = 1 /\ n - 0 = n
    BY PowerIs
  <2>2. w[0] = 0 /\ Left(0) = top
    BY <1>1, <1>2, <1>3, <2>1 DEF Values
  <2> QED BY <2>1, <2>2
<1>5. ASSUME NEW k \in 1 .. n, k - 1 \in T PROVE k \in T
  <2>1. PICK j \in Nat : j = k - 1 /\ k = j + 1 /\ j \in 0 .. n /\ n - k \in Nat /\ n - j \in Nat
    OBVIOUS
  <2>2. PICK x \in Nat \ {0} : x = Power(b, j) /\ Power(b, k) = b * x
    <3>1. Power(b, j) \in Nat \ {0} /\ Power(b, j + 1) = b * Power(b, j)
      BY PowerIs
    <3> QED BY <2>1, <3>1
  <2>3. PICK l \in Nat : l = Left(j)
    <3>1. Power(b, n - j) \in Nat \ {0}
      BY <2>1, PowerIs
    <3> QED BY <3>1
  <2>4. PICK c \in Nat : c = Digit(v, b, n, k) /\ Left(k) = b * l + c
    <3>1. /\ Digit(v, b, n, k) \in Nat
          /\ v \div Power(b, n - k) = b * (v \div Power(b, n - (k - 1))) + Digit(v, b, n, k)
      BY DigitIs
    <3>2. v \div Power(b, n - (k - 1)) = l
      BY <2>1, <2>3
    <3> QED BY <3>1, <3>2
  <2>5. w[k] = w[j] * b + c
    <3>1. k \in 0 .. n /\ k # 0
      OBVIOUS
    <3> QED BY <1>1, <2>1, <2>4, <3>1 DEF Values, IsDigits
  <2>6. w[j] = l - top * x
    BY <1>5, <2>1, <2>2, <2>3
  <2>7. (l - top * x) * b + c = (b * l + c) - top * (b * x)
    OBVIOUS
  <2> QED BY <2>2, <2>4, <2>5, <2>6, <2>7
<1>6. n \in T
  <2> HIDE DEF T
  <2>1. \A k \in 0 .. n : k \in T
    BY <1>4, <1>5, PrefixInduction
  <2> QED BY <2>1
<1>7. Left(n) = v
  <2>1. n - n = 0 /\ Power(b, 0) = 1
    BY PowerIs
  <2> QED BY <2>1
<1>8. w[n] = v - top * P
  BY <1>2, <1>6, <1>7
<1>9. ASSUME v < P PROVE top = 0
  BY <1>3, <1>9
<1>10. ASSUME v = P PROVE top = 1
  BY <1>3, <1>10
<1>11. 0 * P = 0 /\ 1 * P = P
  OBVIOUS
<1> HIDE DEF Left, T
<1> QED BY <1>1, <1>2, <1>8, <1>9, <1>10, <1>11


-----------------------------------------------------------------------------
(***************************************************************************)
(* Streams that are laid out chunk by chunk.                               *)
(***************************************************************************)
(* s begins with something of the given length, after which the first n of the chunks
   C follow one another; P[k] is where the k-th ends *)
Laid(s, C, n, P, begin) ==
  /\ P \in [0 .. n -> Nat] /\ P[0] = begin /\ Len(s) = P[n]
  /\ \A k \in 1 .. n : P[k] = P[k - 1] + Len(C[k])
  /\ \A k \in 1 .. n : \A j \in 1 .. Len(C[k]) : s[P[k - 1] + j] = C[k][j]

LEMMA ConcatIs ==
  ASSUME NEW D, NEW s \in Seq(D), NEW t \in Seq(D)
  PROVE  /\ s \o t \in Seq(D) /\ Len(s \o t) = Len(s) + Len(t)
         /\ \A i \in 1 .. Len(s) : (s \o t)[i] = s[i]
         /\ \A i \in 1 .. Len(t) : (s \o t)[Len(s) + i] = t[i]
OBVIOUS

(* A function on 1 .. n with values in D is a sequence. *)
LEMMA IsSeq ==
  ASSUME NEW D, NEW n \in Nat, NEW c, c = [i \in 1 .. n |-> c[i]], \A i \in 1 .. n : c[i] \in D
  PROVE  c \in Seq(D) /\ Len(c) = n /\ DOMAIN c = 1 .. n
OBVIOUS

(* Sequences of one length with the same elements are equal. *)
LEMMA SameSeq ==
  ASSUME NEW D, NEW s \in Seq(D), NEW E, NEW t \in Seq(E), Len(s) = Len(t),
         \A i \in 1 .. Len(s) : s[i] = t[i]
  PROVE  s = t
OBVIOUS

(* s, a and b, put together in either way *)
InEitherWay(s, a, b) == (s \o a) \o b = s \o (a \o b)

LEMMA EitherWay ==
  ASSUME NEW D, NEW s \in Seq(D), NEW a \in Seq(D), NEW b \in Seq(D)
  PROVE  InEitherWay(s, a, b)
<1>1. (s \o a) \o b = s \o (a \o b)
  BY ConcatAssociative
<1> QED BY <1>1 DEF InEitherWay

(* Places do not go back. *)
LEMMA PlacesGrow ==
  ASSUME NEW D, NEW C \in Seq(Seq(D)), NEW n \in Nat, n <= Len(C), NEW s, NEW P, NEW begin, Laid(s, C, n, P, begin),
         NEW i \in 0 .. n, NEW j \in i .. n
  PROVE  P[i] <= P[j]
<1> DEFINE T == {k \in 0 .. j - i : P[i] <= P[i + k]}
<1>1. PICK d \in Nat : d = j - i
  OBVIOUS
<1>2. 0 \in T
  <2>1. P[i] \in Nat /\ i + 0 = i
    BY DEF Laid
  <2> QED BY <2>1
<1>3. ASSUME NEW k \in 1 .. d, k - 1 \in T PROVE k \in T
  <2>1. PICK m \in 1 .. n : m = i + k /\ m - 1 = i + (k - 1)
    BY <1>1
  <2>2. P[m] = P[m - 1] + Len(C[m]) /\ P[m - 1] \in Nat /\ P[i] \in Nat
    BY <2>1 DEF Laid
  <2>3. Len(C[m]) \in Nat
    <3>1. C[m] \in Seq(D)
      BY <2>1
    <3> QED BY <3>1
  <2>4. P[i] <= P[m - 1]
    BY <1>3, <2>1
  <2> QED BY <1>1, <2>1, <2>2, <2>3, <2>4
<1>4. d \in T
  <2> HIDE DEF T
  <2>1. \A k \in 0 .. d : k \in T
    BY <1>1, <1>2, <1>3, PrefixInduction
  <2> QED BY <2>1
<1> QED BY <1>1, <1>4

(* The next chunk is laid behind the others. *)
LEMMA LaidGrows ==
  ASSUME NEW D, NEW C \in Seq(Seq(D)), NEW n \in Nat, n < Len(C), NEW s \in Seq(D), NEW P, NEW begin,
         Laid(s, C, n, P, begin)
  PROVE  /\ s \o C[n + 1] \in Seq(D)
         /\ \E Q : Laid(s \o C[n + 1], C, n + 1, Q, begin)
<1>1. PICK m \in 1 .. Len(C) : m = n + 1 /\ m - 1 = n
  OBVIOUS
<1>2. PICK c \in Seq(D) : c = C[m]
  BY <1>1
<1>3. PICK l \in Nat : l = Len(c)
  BY <1>2
<1> DEFINE Q == [k \in 0 .. m |-> IF k = m THEN P[n] + l ELSE P[k]]
<1>4. P[n] \in Nat /\ P[n] = Len(s)
  BY DEF Laid
<1>5. Q \in [0 .. m -> Nat]
  <2>1. \A k \in 0 .. m : k # m => P[k] \in Nat
    BY <1>1 DEF Laid
  <2> QED BY <1>3, <1>4, <2>1
<1>6. Q[m] = P[n] + l /\ \A k \in 0 .. n : Q[k] = P[k]
  BY <1>1
<1> HIDE DEF Q
<1>7. /\ s \o c \in Seq(D) /\ Len(s \o c) = Len(s) + l
      /\ \A i \in 1 .. Len(s) : (s \o c)[i] = s[i]
      /\ \A i \in 1 .. l : (s \o c)[P[n] + i] = c[i]
  BY <1>2, <1>3, <1>4, ConcatIs
<1>8. ASSUME NEW k \in 1 .. m PROVE Q[k] = Q[k - 1] + Len(C[k])
  <2>1. CASE k = m
    <3>1. Q[k - 1] = P[n]
      BY <1>1, <1>6, <2>1
    <3> QED BY <1>2, <1>3, <1>6, <2>1, <3>1
  <2>2. CASE k # m
    <3>1. k \in 1 .. n /\ k - 1 \in 0 .. n /\ k \in 0 .. n
      BY <1>1, <2>2
    <3>2. P[k] = P[k - 1] + Len(C[k])
      BY <3>1 DEF Laid
    <3> QED BY <1>6, <3>1, <3>2
  <2> QED BY <2>1, <2>2
<1>9. ASSUME NEW k \in 1 .. m, NEW j \in 1 .. Len(C[k]) PROVE (s \o c)[Q[k - 1] + j] = C[k][j]
  <2>1. CASE k = m
    <3>1. Q[k - 1] = P[n]
      BY <1>1, <1>6, <2>1
    <3> QED BY <1>2, <1>3, <1>7, <2>1, <3>1
  <2>2. CASE k # m
    <3>1. k \in 1 .. n /\ k - 1 \in 0 .. n /\ k \in 0 .. n /\ n \in k .. n
      BY <1>1, <2>2
    <3>2. s[P[k - 1] + j] = C[k][j] /\ P[k] = P[k - 1] + Len(C[k])
      BY <3>1 DEF Laid
    <3>3. P[k] <= P[n]
      <4>1. n <= Len(C) /\ n \in Nat
        OBVIOUS
      <4> QED BY <3>1, <4>1, PlacesGrow
    <3>4. PICK x \in Nat, y \in Nat : x = P[k - 1] /\ y = P[k]
      BY <3>1 DEF Laid
    <3>5. Len(C[k]) \in Nat
      <4>1. C[k] \in Seq(D)
        BY <3>1
      <4> QED BY <4>1
    <3>6. j \in Nat /\ j >= 1 /\ x + j <= y
      BY <3>2, <3>4, <3>5
    <3>7. x + j \in 1 .. Len(s)
      <4>1. PICK z \in Nat, i \in Nat : z = Len(s) /\ i = j
        BY <1>4, <3>6
      <4>2. y <= z
        BY <1>4, <3>3, <3>4, <4>1
      <4>3. x + i \in 1 .. z
        BY <3>6, <4>1, <4>2
      <4> QED BY <4>1, <4>3
    <3> QED BY <1>6, <1>7, <3>1, <3>2, <3>4, <3>7
  <2> QED BY <2>1, <2>2
<1>10. Q[0] = begin
  <2>1. 0 \in 0 .. n
    OBVIOUS
  <2> QED BY <1>6, <2>1 DEF Laid
<1>11. Laid(s \o c, C, m, Q, begin)
  BY <1>4, <1>5, <1>6, <1>7, <1>8, <1>9, <1>10 DEF Laid
<1> QED BY <1>1, <1>2, <1>7, <1>11

(* t is found in s behind the place a *)
Holds(s, a, t) == a + Len(t) <= Len(s) /\ \A j \in 1 .. Len(t) : s[a + j] = t[j]

(* A chunk is found where it has been laid. *)
LEMMA ChunkIsHeld ==
  ASSUME NEW D, NEW C \in Seq(Seq(D)), NEW n \in Nat, n <= Len(C), NEW s, NEW P, NEW begin, Laid(s, C, n, P, begin),
         NEW k \in 1 .. n
  PROVE  P[k - 1] \in Nat /\ P[k] = P[k - 1] + Len(C[k]) /\ Holds(s, P[k - 1], C[k])
<1>1. k \in 0 .. n /\ n \in k .. n /\ k - 1 \in 0 .. n
  OBVIOUS
<1>2. P[k] <= P[n]
  BY <1>1, PlacesGrow
<1>3. P[k - 1] \in Nat /\ P[k] = P[k - 1] + Len(C[k]) /\ Len(s) = P[n]
  BY <1>1 DEF Laid
<1>4. \A j \in 1 .. Len(C[k]) : s[P[k - 1] + j] = C[k][j]
  BY DEF Laid
<1> QED BY <1>2, <1>3, <1>4 DEF Holds

(* The parts of what is held are held. *)
LEMMA PartsAreHeld ==
  ASSUME NEW D, NEW s, NEW a \in Nat, NEW t \in Seq(D), NEW u \in Seq(D), Holds(s, a, t \o u)
  PROVE  Len(s) \in Nat => Holds(s, a, t) /\ Holds(s, a + Len(t), u)
<1>1. PICK l \in Nat, m \in Nat : l = Len(t) /\ m = Len(u)
  OBVIOUS
<1>2. PICK r : r = t \o u
  OBVIOUS
<1>3. /\ Len(r) = l + m
      /\ \A i \in 1 .. l : r[i] = t[i]
      /\ \A i \in 1 .. m : r[l + i] = u[i]
  BY <1>1, <1>2
<1>4. a + (l + m) <= Len(s) /\ \A j \in 1 .. l + m : s[a + j] = r[j]
  BY <1>2, <1>3 DEF Holds
<1>5. ASSUME NEW i \in 1 .. l PROVE s[a + i] = t[i]
  BY <1>3, <1>4
<1>6. ASSUME NEW i \in 1 .. m PROVE s[(a + l) + i] = u[i]
  <2>1. l + i \in 1 .. l + m /\ a + (l + i) = (a + l) + i
    OBVIOUS
  <2>2. s[a + (l + i)] = r[l + i]
    BY <1>4, <2>1
  <2> QED BY <1>3, <2>1, <2>2
<1>7. ASSUME NEW x \in Nat, x = Len(s) PROVE a + l <= Len(s) /\ (a + l) + m <= Len(s)
  <2>1. a + (l + m) <= x
    BY <1>4, <1>7
  <2>2. a + l <= x /\ (a + l) + m <= x
    BY <2>1
  <2> QED BY <1>7, <2>2
<1> QED BY <1>1, <1>5, <1>6, <1>7 DEF Holds

(* A slice of a stream is what the stream holds there. *)
LEMMA SliceIs ==
  ASSUME NEW D, NEW s \in Seq(D), NEW E, NEW t \in Seq(E), NEW a \in Nat, NEW m \in Nat, m = Len(t), Holds(s, a, t)
  PROVE  Slice(s, a + 1, a + m) = t
<1>1. PICK b \in Nat : b = a + m /\ b <= Len(s)
  BY DEF Holds
<1>2. Min({b, Len(s)}) = b
  BY <1>1 DEF Min
<1>3. PICK u : u = SubSeq(s, a + 1, b)
  OBVIOUS
<1>4. u \in Seq(D) /\ Len(u) = m /\ \A j \in 1 .. m : u[j] = s[a + j]
  BY <1>1, <1>3
<1>5. \A j \in 1 .. m : u[j] = t[j]
  BY <1>4 DEF Holds
<1>6. u = t
  BY <1>4, <1>5, SameSeq
<1> QED BY <1>1, <1>2, <1>3, <1>6 DEF Slice

-----------------------------------------------------------------------------
(***************************************************************************)
(* A unit behind its size field.                                           *)
(***************************************************************************)
(* the bytes of a stream whose units have the names U *)
StreamBytes(U) == ({"precision", "size"} \X Nat \X Nat) \cup ({"unit"} \X U \X Nat)

LEMMA FieldIs ==
  ASSUME NEW U, NEW v \in Nat, NEW n \in Nat
  PROVE  /\ SizeField(v, n) \in Seq(StreamBytes(U)) /\ Len(SizeField(v, n)) = n
         /\ IsSizeField(SizeField(v, n), n)
         /\ v < Power(Base, n) => FieldValue(SizeField(v, n)) = v
         /\ v = Power(Base, n) => FieldValue(SizeField(v, n)) = 0
<1>1. Base \in Nat \ {0}
  BY BaseIs
<1>2. PICK f : f = SizeField(v, n)
  OBVIOUS
<1>3. \A k \in 1 .. n : Digit(v, Base, n, k) \in Nat
  BY <1>1, DigitIs
<1>4. \A k \in 1 .. n : f[k] = <<"size", Digit(v, Base, n, k), k>>
  BY <1>2 DEF SizeField
<1>5. \A k \in 1 .. n : f[k] \in StreamBytes(U)
  BY <1>3, <1>4 DEF StreamBytes
<1>6. DOMAIN f = 1 .. n /\ f = [k \in 1 .. n |-> f[k]]
  BY <1>2 DEF SizeField
<1>7. f \in Seq(StreamBytes(U)) /\ Len(f) = n
  BY <1>5, <1>6
<1>8. \A k \in 1 .. n : f[k][1] = "size" /\ f[k][2] = Digit(v, Base, n, k) /\ f[k][3] = k
  BY <1>4
<1>9. IsSizeField(f, n)
  BY <1>7, <1>8 DEF IsSizeField
<1>10. PICK d : d = [k \in DOMAIN f |-> f[k][2]]
  OBVIOUS
<1>11. IsDigits(d, v, Base, n)
  <2>1. \A k \in 1 .. n : d[k] = Digit(v, Base, n, k)
    BY <1>6, <1>8, <1>10
  <2>2. d \in Seq(Nat) /\ Len(d) = n
    BY <1>3, <1>6, <1>10, <2>1
  <2> QED BY <2>1, <2>2 DEF IsDigits
<1>12. FieldValue(f) = Number(d, Base)
  BY <1>10 DEF FieldValue
<1>13. /\ v < Power(Base, n) => Number(d, Base) = v
       /\ v = Power(Base, n) => Number(d, Base) = 0
  BY <1>1, <1>11, DigitsHold
<1> QED BY <1>2, <1>7, <1>9, <1>12, <1>13

LEMMA UnitBytesIs ==
  ASSUME NEW U, NEW u \in U, NEW w \in Nat
  PROVE  /\ UnitBytes(u, w) \in Seq(StreamBytes(U)) /\ Len(UnitBytes(u, w)) = w
         /\ \A j \in 1 .. w : UnitBytes(u, w)[j] = <<"unit", u, j>>
<1>1. PICK b : b = UnitBytes(u, w)
  OBVIOUS
<1>2. \A j \in 1 .. w : b[j] = <<"unit", u, j>>
  BY <1>1 DEF UnitBytes
<1>3. \A j \in 1 .. w : b[j] \in StreamBytes(U)
  BY <1>2 DEF StreamBytes
<1>4. b = [j \in 1 .. w |-> b[j]]
  BY <1>1 DEF UnitBytes
<1>5. b \in Seq(StreamBytes(U)) /\ Len(b) = w
  BY <1>3, <1>4
<1> QED BY <1>1, <1>2, <1>5

(* the chunk of a unit u of w bytes whose size field of p bytes says v *)
UnitChunk(v, p, u, w) == SizeField(v, p) \o UnitBytes(u, w)

LEMMA UnitChunkIs ==
  ASSUME NEW U, NEW u \in U, NEW w \in Nat, NEW v \in Nat, NEW p \in Nat
  PROVE  UnitChunk(v, p, u, w) \in Seq(StreamBytes(U)) /\ Len(UnitChunk(v, p, u, w)) = p + w
<1>1. PICK f \in Seq(StreamBytes(U)) : f = SizeField(v, p) /\ Len(f) = p
  BY FieldIs
<1>2. PICK b \in Seq(StreamBytes(U)) : b = UnitBytes(u, w) /\ Len(b) = w
  BY UnitBytesIs
<1>3. f \o b \in Seq(StreamBytes(U)) /\ Len(f \o b) = Len(f) + Len(b)
  BY ConcatIs
<1> QED BY <1>1, <1>2, <1>3 DEF UnitChunk

(* Where a stream holds the beginning of a unit it holds any shorter one. *)
LEMMA BeginningIsHeld ==
  ASSUME NEW U, NEW u \in U, NEW w \in Nat, NEW m \in Nat, m <= w, NEW s, Len(s) \in Nat, NEW a \in Nat,
         Holds(s, a, UnitBytes(u, w))
  PROVE  Holds(s, a, UnitBytes(u, m))
<1>1. PICK b : b = UnitBytes(u, w) /\ Len(b) = w /\ \A j \in 1 .. w : b[j] = <<"unit", u, j>>
  BY UnitBytesIs
<1>2. PICK c : c = UnitBytes(u, m) /\ Len(c) = m /\ \A j \in 1 .. m : c[j] = <<"unit", u, j>>
  BY UnitBytesIs
<1>3. a + w <= Len(s) /\ \A j \in 1 .. w : s[a + j] = b[j]
  BY <1>1 DEF Holds
<1>4. a + m <= Len(s)
  <2>1. PICK l \in Nat : l = Len(s)
    OBVIOUS
  <2>2. a + w <= l
    BY <1>3, <2>1
  <2>3. a + m <= l
    BY <2>2
  <2> QED BY <2>1, <2>3
<1>5. ASSUME NEW j \in 1 .. m PROVE s[a + j] = c[j]
  <2>1. j \in 1 .. w
    OBVIOUS
  <2> QED BY <1>1, <1>2, <1>3, <2>1
<1> QED BY <1>2, <1>4, <1>5 DEF Holds

(* At the place of a chunk a reader finds its size field, and behind it as many bytes
   of its unit as it takes. *)
LEMMA ChunkIsRead ==
  ASSUME NEW U, NEW s \in Seq(StreamBytes(U)), NEW u \in U, NEW w \in Nat, NEW v \in Nat, NEW p \in Nat,
         NEW a \in Nat, Holds(s, a, UnitChunk(v, p, u, w))
  PROVE  /\ Slice(s, a + 1, a + p) = SizeField(v, p)
         /\ \A m \in 0 .. w : Slice(s, a + p + 1, a + p + m) = UnitBytes(u, m)
<1>1. PICK f \in Seq(StreamBytes(U)) : f = SizeField(v, p) /\ Len(f) = p
  BY FieldIs
<1>2. PICK b \in Seq(StreamBytes(U)) : b = UnitBytes(u, w)
  BY UnitBytesIs
<1>3. Holds(s, a, f \o b)
  BY <1>1, <1>2 DEF UnitChunk
<1>4. Len(s) \in Nat
  OBVIOUS
<1>5. Holds(s, a, f) /\ Holds(s, a + Len(f), b)
  BY <1>3, <1>4, PartsAreHeld
<1>6. Slice(s, a + 1, a + p) = f
  BY <1>1, <1>5, SliceIs
<1>7. PICK x \in Nat : x = a + p
  OBVIOUS
<1>8. ASSUME NEW m \in 0 .. w PROVE Slice(s, x + 1, x + m) = UnitBytes(u, m)
  <2>1. m \in Nat /\ m <= w
    OBVIOUS
  <2>2. Holds(s, x, UnitBytes(u, w))
    BY <1>1, <1>2, <1>5, <1>7
  <2>3. Holds(s, x, UnitBytes(u, m))
    BY <1>4, <2>1, <2>2, BeginningIsHeld
  <2>4. PICK c \in Seq(StreamBytes(U)) : c = UnitBytes(u, m) /\ Len(c) = m
    BY <2>1, UnitBytesIs
  <2> QED BY <2>1, <2>3, <2>4, SliceIs
<1> QED BY <1>1, <1>6, <1>7, <1>8

-----------------------------------------------------------------------------
(* q is how the chunks come together *)
Flattening(q, C, n) == \A i \in 1 .. n : q[i] = IF i = 1 THEN C[i] ELSE q[i - 1] \o C[i]

LEMMA FlattenSolves ==
  ASSUME NEW D, NEW C \in Seq(Seq(D)), NEW n \in Nat \ {0}, n = Len(C)
  PROVE  \E q : Flattening(q, C, n) /\ FlattenSeq(C) = q[n]
<1>1. \A i \in 1 .. n : C[i] \in Seq(D)
  OBVIOUS
<1> DEFINE step == [i \in 1 .. n |-> [d \in Seq(D) |-> d \o C[i]]]
<1>2. \A i \in 1 .. n, d \in Seq(D) : step[i][d] = d \o C[i]
  OBVIOUS
<1>3. \A i \in 1 .. n, d \in Seq(D) : d \o C[i] \in Seq(D)
  BY <1>1, ConcatIs
<1> HIDE DEF step
<1>4. StepsIn(step, 2 .. n, Seq(D))
  <2>1. \A i \in 2 .. n : i \in 1 .. n
    OBVIOUS
  <2> QED BY <1>2, <1>3, <2>1 DEF StepsIn
<1>5. PICK p : Recursion(p, 1, n, Seq(D), C[1], step)
  <2>1. C[1] \in Seq(D) /\ n \in Nat
    BY <1>1
  <2> QED BY <1>4, <2>1, RecursionFromOne
<1>6. ASSUME NEW i \in 1 .. n PROVE p[i] = IF i = 1 THEN C[i] ELSE p[i - 1] \o C[i]
  <2>1. i # 1 => i - 1 \in 1 .. n
    OBVIOUS
  <2>2. i # 1 => p[i - 1] \in Seq(D)
    BY <1>5, <2>1 DEF Recursion
  <2>3. i # 1 => step[i][p[i - 1]] = p[i - 1] \o C[i]
    BY <1>2, <2>2
  <2> QED BY <1>5, <2>3 DEF Recursion
<1>7. p = [i \in 1 .. Len(C) |-> IF i = 1 THEN C[i] ELSE p[i - 1] \o C[i]]
  <2>1. p = [i \in 1 .. n |-> p[i]]
    BY <1>5 DEF Recursion
  <2> QED BY <1>6, <2>1
<1>8. PICK q : /\ FlattenSeq(C) = q[Len(C)]
               /\ q = [i \in 1 .. Len(C) |-> IF i = 1 THEN C[i] ELSE q[i - 1] \o C[i]]
  BY <1>7 DEF FlattenSeq
<1>9. Flattening(q, C, n)
  BY <1>8 DEF Flattening
<1> QED BY <1>8, <1>9

(* The chunks of a flattened sequence follow one another in it. *)
LEMMA FlattenLaid ==
  ASSUME NEW D, NEW C \in Seq(Seq(D)), NEW n \in Nat \ {0}, n = Len(C)
  PROVE  FlattenSeq(C) \in Seq(D) /\ \E P : Laid(FlattenSeq(C), C, n, P, 0)
<1>1. PICK q : Flattening(q, C, n) /\ FlattenSeq(C) = q[n]
  BY FlattenSolves
<1> DEFINE Good(k) == q[k] \in Seq(D) /\ \E P : Laid(q[k], C, k, P, 0)
           T == {k \in 0 .. n : k > 0 => Good(k)}
<1>2. 0 \in T
  OBVIOUS
<1>3. ASSUME NEW k \in 1 .. n, k - 1 \in T PROVE k \in T
  <2>1. CASE k = 1
    <3>1. PICK c \in Seq(D), l \in Nat : c = C[1] /\ l = Len(c)
      BY <2>1
    <3>2. q[1] = c
      BY <1>1, <2>1, <3>1 DEF Flattening
    <3> DEFINE P == [i \in 0 .. 1 |-> IF i = 0 THEN 0 ELSE l]
    <3>3. P \in [0 .. 1 -> Nat] /\ P[0] = 0 /\ P[1] = l
      BY <3>1
    <3> HIDE DEF P
    <3>4. \A i \in 1 .. 1 : i = 1 /\ i - 1 = 0 /\ P[i - 1] = 0
      BY <3>3
    <3>5. \A i \in 1 .. 1 : P[i] = P[i - 1] + Len(C[i])
      BY <3>1, <3>3, <3>4
    <3>6. \A i \in 1 .. 1 : \A j \in 1 .. Len(C[i]) : c[P[i - 1] + j] = C[i][j]
      <4>1. \A j \in 1 .. l : 0 + j = j
        BY <3>1
      <4> QED BY <3>1, <3>4, <4>1
    <3>7. Laid(c, C, 1, P, 0)
      BY <3>1, <3>3, <3>5, <3>6 DEF Laid
    <3>8. Good(k)
      BY <2>1, <3>1, <3>2, <3>7
    <3> QED BY <3>8
  <2>2. CASE k # 1
    <3>1. PICK m \in Nat : m = k - 1 /\ k = m + 1 /\ m > 0 /\ m < Len(C)
      BY <2>2
    <3>2. Good(m)
      BY <1>3, <3>1
    <3>3. PICK s, P : s \in Seq(D) /\ s = q[m] /\ Laid(s, C, m, P, 0)
      BY <3>2
    <3>4. q[k] = s \o C[m + 1]
      BY <1>1, <2>2, <3>1, <3>3 DEF Flattening
    <3>5. s \o C[m + 1] \in Seq(D) /\ \E Q : Laid(s \o C[m + 1], C, m + 1, Q, 0)
      BY <3>1, <3>3, LaidGrows
    <3>6. Good(k)
      BY <3>1, <3>4, <3>5
    <3> QED BY <3>6
  <2> QED BY <2>1, <2>2
<1>4. n \in T
  <2> HIDE DEF T
  <2>1. \A k \in 0 .. n : k \in T
    BY <1>2, <1>3, PrefixInduction
  <2> QED BY <2>1
<1> QED BY <1>1, <1>4


(* What lies behind something else begins later. *)
LEMMA LaidBehind ==
  ASSUME NEW D, NEW s \in Seq(D), NEW t \in Seq(D), NEW C \in Seq(Seq(D)), NEW n \in Nat, n <= Len(C), NEW P,
         Laid(s, C, n, P, 0)
  PROVE  \E Q : Laid(t \o s, C, n, Q, Len(t))
<1>1. PICK l \in Nat, r \in Seq(D) : l = Len(t) /\ r = t \o s
  <2>1. t \o s \in Seq(D) /\ Len(t) \in Nat
    BY ConcatIs
  <2> QED BY <2>1
<1>2. /\ P \in [0 .. n -> Nat] /\ P[0] = 0 /\ Len(s) = P[n]
      /\ \A k \in 1 .. n : P[k] = P[k - 1] + Len(C[k])
  BY DEF Laid
<1>3. Len(r) = l + Len(s) /\ \A i \in 1 .. Len(s) : r[l + i] = s[i]
  BY <1>1, ConcatIs
<1> DEFINE Q == [k \in 0 .. n |-> l + P[k]]
<1>4. Q \in [0 .. n -> Nat] /\ \A k \in 0 .. n : Q[k] = l + P[k]
  BY <1>2
<1> HIDE DEF Q
<1>5. Q[0] = l /\ Len(r) = Q[n]
  BY <1>2, <1>3, <1>4
<1>6. ASSUME NEW k \in 1 .. n PROVE Q[k] = Q[k - 1] + Len(C[k])
  <2>1. k \in 0 .. n /\ k - 1 \in 0 .. n
    OBVIOUS
  <2>2. PICK x \in Nat : x = P[k - 1]
    BY <1>2, <2>1
  <2>3. PICK c \in Seq(D) : c = C[k]
    OBVIOUS
  <2>4. PICK y \in Nat : y = Len(c)
    OBVIOUS
  <2>5. Q[k] = l + (x + y)
    BY <1>2, <1>4, <2>1, <2>2, <2>3, <2>4
  <2>6. Q[k - 1] = l + x
    BY <1>4, <2>1, <2>2
  <2> QED BY <2>2, <2>3, <2>4, <2>5, <2>6
<1>7. ASSUME NEW k \in 1 .. n, NEW j \in 1 .. Len(C[k]) PROVE r[Q[k - 1] + j] = C[k][j]
  <2>1. P[k - 1] \in Nat /\ P[k] = P[k - 1] + Len(C[k]) /\ Holds(s, P[k - 1], C[k])
    BY ChunkIsHeld
  <2>2. PICK x \in Nat, y \in Nat, z \in Nat : x = P[k - 1] /\ y = Len(C[k]) /\ z = Len(s)
    <3>1. C[k] \in Seq(D)
      OBVIOUS
    <3> QED BY <2>1, <3>1
  <2>3. j \in 1 .. y /\ x + y <= z /\ s[x + j] = C[k][j]
    BY <2>1, <2>2 DEF Holds
  <2>4. PICK i \in Nat \ {0} : i = j /\ i <= y
    BY <2>3
  <2>5. x + i \in 1 .. z /\ l + (x + i) = (l + x) + i
    BY <2>3, <2>4
  <2>6. Q[k - 1] = l + x
    BY <1>4, <2>2
  <2>7. r[l + (x + i)] = s[x + i]
    BY <1>3, <2>2, <2>5
  <2> QED BY <2>3, <2>4, <2>5, <2>6, <2>7
<1>8. Laid(r, C, n, Q, l)
  BY <1>4, <1>5, <1>6, <1>7 DEF Laid
<1> QED BY <1>1, <1>8

(* The maximum of a bounded set of numbers. *)
LEMMA MaxIs ==
  ASSUME NEW S, S \subseteq Nat, S # {}, NEW b \in Nat, \A y \in S : y <= b
  PROVE  Max(S) \in S /\ \A y \in S : y <= Max(S)
<1>1. PICK x \in S : \A y \in S : y <= x
  BY LargestNumber
<1>2. x \in S /\ \A y \in S : x >= y
  BY <1>1
<1>3. Max(S) = CHOOSE m \in S : \A y \in S : m >= y
  BY DEF Max
<1>4. Max(S) \in S /\ \A y \in S : Max(S) >= y
  BY <1>2, <1>3
<1> QED BY <1>4

(* Every place behind the beginning is in one of the chunks. *)
LEMMA PlaceIsInChunk ==
  ASSUME NEW D, NEW C \in Seq(Seq(D)), NEW n \in Nat, n <= Len(C), NEW s, NEW P, NEW begin, Laid(s, C, n, P, begin),
         NEW k \in begin + 1 .. Len(s)
  PROVE  \E l \in 1 .. n : \E j \in 1 .. Len(C[l]) : k = P[l - 1] + j /\ s[k] = C[l][j]
<1>1. P \in [0 .. n -> Nat] /\ P[0] = begin /\ Len(s) = P[n]
  BY DEF Laid
<1>2. PICK K \in Nat : K = k
  <2>1. begin \in Nat /\ Len(s) \in Nat
    BY <1>1
  <2> QED BY <2>1
<1> DEFINE T == {i \in 0 .. n : P[i] < K}
<1>3. 0 \in T /\ n \notin T
  <2>1. P[0] \in Nat /\ P[n] \in Nat
    BY <1>1
  <2> QED BY <1>1, <1>2, <2>1
<1>4. PICK i \in T : \A y \in T : y <= i
  <2>1. T \subseteq Nat /\ T # {} /\ \A y \in T : y <= n
    BY <1>3
  <2> HIDE DEF T
  <2> QED BY <2>1, LargestNumber
<1>5. PICK l \in 1 .. n : l = i + 1 /\ l - 1 = i
  <2>1. i \in 0 .. n /\ i # n
    BY <1>3
  <2> QED BY <2>1
<1>6. P[l - 1] \in Nat /\ P[l] = P[l - 1] + Len(C[l]) /\ Holds(s, P[l - 1], C[l])
  BY ChunkIsHeld
<1>7. PICK a \in Nat, m \in Nat : a = P[l - 1] /\ m = Len(C[l]) /\ P[l] = a + m
  <2>1. C[l] \in Seq(D)
    BY <1>5
  <2> QED BY <1>6, <2>1
<1>8. a < K /\ K <= a + m
  <2>1. l \notin T
    BY <1>4, <1>5
  <2>2. l \in 0 .. n
    OBVIOUS
  <2> QED BY <1>5, <1>7, <2>1, <2>2
<1>9. PICK j \in 1 .. m : j = K - a /\ K = a + j
  BY <1>8
<1>10. s[a + j] = C[l][j]
  BY <1>6, <1>7 DEF Holds
<1> QED BY <1>2, <1>7, <1>9, <1>10

-----------------------------------------------------------------------------
(***************************************************************************)
(* The file.                                                               *)
(***************************************************************************)
(* the units of a file are named by their numbers *)
UnitNumbers == Nat

FileBytes == StreamBytes(UnitNumbers)

(* the units of a file, each behind its size field *)
FileChunks(ss, p) == [k \in 1 .. Len(ss) |-> UnitChunk(ss[k], p, k, ss[k])]

(* what has been written is laid out unit by unit; the reader is at the end of a unit *)
FileLaid ==
  phase # "write" =>
    /\ stream # <<>> /\ stream[1] = HeaderByte(precision)
    /\ \E P : /\ Laid(stream, FileChunks(sizes, precision), written, P, 1)
              /\ phase \in {"parse", "done", "crashed"} => pos = P[Len(units)]

(* the reader begins when all is written *)
PhaseInv ==
  /\ phase \in {"write", "units", "read"} => units = <<>> /\ pos = 0 /\ width = 0
  /\ phase = "write" => written = 0
  /\ phase \in {"read", "parse", "done", "crashed"} => written = Len(sizes)
  /\ phase \in {"parse", "done", "crashed"} => width = precision
  /\ phase = "done" => Len(units) = Len(sizes)

(* the size fields hold all sizes but a power of the base *)
WidthInv == phase # "write" => precision \in 1 .. 4 /\ MaxUnitSize <= Power(Base, precision)

FileInv ==
  /\ FileTypeOK /\ sizes # <<>> /\ stream \in Seq(FileBytes) /\ units \in Seq(Seq(FileBytes))
  /\ PhaseInv /\ WidthInv /\ FileLaid /\ UnitsReadBack /\ OnlyPowersFail

(* The longest unit is one of the units. *)
LEMMA MaxUnitSizeIs ==
  ASSUME sizes \in Seq(Sizes), sizes # <<>>
  PROVE  /\ MaxUnitSize \in Sizes
         /\ \A k \in 1 .. Len(sizes) : sizes[k] <= MaxUnitSize
<1> DEFINE S == {sizes[i] : i \in DOMAIN sizes}
<1>1. DOMAIN sizes = 1 .. Len(sizes) /\ 1 \in 1 .. Len(sizes) /\ \A i \in 1 .. Len(sizes) : sizes[i] \in Sizes
  OBVIOUS
<1>2. S \subseteq Nat /\ S \subseteq Sizes /\ S # {}
  BY <1>1, UnitsAssumption
<1>3. PICK b \in Nat : b = UnsignedLimit
  BY UnsignedLimitIs
<1>4. \A y \in S : y <= b
  BY <1>2, <1>3, UnitsAssumption
<1>5. PICK x \in S : \A y \in S : y <= x
  <2> HIDE DEF S
  <2> QED BY <1>2, <1>4, LargestNumber
<1>6. x \in S /\ \A y \in S : x >= y
  <2> HIDE DEF S
  <2> QED BY <1>2, <1>5
<1>7. MaxUnitSize = CHOOSE m \in S : \A y \in S : m >= y
  BY DEF MaxUnitSize, Max
<1>8. MaxUnitSize \in S /\ \A y \in S : MaxUnitSize >= y
  <2> HIDE DEF S
  <2> QED BY <1>6, <1>7
<1>9. \A y \in S : y <= MaxUnitSize
  <2> HIDE DEF S
  <2> QED BY <1>2, <1>8
<1>10. \A k \in 1 .. Len(sizes) : sizes[k] \in S
  BY <1>1
<1> QED BY <1>2, <1>8, <1>9, <1>10

(* The chunks of a file. *)
LEMMA FileChunksAre ==
  ASSUME NEW ss \in Seq(Sizes), NEW p \in Nat
  PROVE  /\ FileChunks(ss, p) \in Seq(Seq(FileBytes)) /\ Len(FileChunks(ss, p)) = Len(ss)
         /\ \A k \in 1 .. Len(ss) : /\ ss[k] \in Nat \ {0} /\ k \in Nat
                                    /\ FileChunks(ss, p)[k] = UnitChunk(ss[k], p, k, ss[k])
                                    /\ Len(FileChunks(ss, p)[k]) = p + ss[k]
<1>1. ASSUME NEW k \in 1 .. Len(ss)
      PROVE  /\ ss[k] \in Nat \ {0} /\ k \in Nat
             /\ UnitChunk(ss[k], p, k, ss[k]) \in Seq(FileBytes)
             /\ Len(UnitChunk(ss[k], p, k, ss[k])) = p + ss[k]
  <2>1. PICK n \in Nat \ {0} : n = ss[k]
    <3>1. ss[k] \in Sizes
      OBVIOUS
    <3> QED BY <3>1, UnitsAssumption
  <2>2. k \in UnitNumbers /\ n \in Nat /\ p \in Nat
    BY DEF UnitNumbers
  <2>3. UnitChunk(n, p, k, n) \in Seq(StreamBytes(UnitNumbers))
    BY <2>2, UnitChunkIs
  <2>4. Len(UnitChunk(n, p, k, n)) = p + n
    BY <2>2, UnitChunkIs
  <2> QED BY <2>1, <2>2, <2>3, <2>4 DEF FileBytes, UnitNumbers
<1>2. PICK C : C = FileChunks(ss, p)
  OBVIOUS
<1>3. /\ \A k \in 1 .. Len(ss) : C[k] = UnitChunk(ss[k], p, k, ss[k])
      /\ C = [k \in 1 .. Len(ss) |-> C[k]]
  BY <1>2 DEF FileChunks
<1>4. \A k \in 1 .. Len(ss) : C[k] \in Seq(FileBytes)
  BY <1>1, <1>3
<1>5. C \in Seq(Seq(FileBytes)) /\ Len(C) = Len(ss)
  <2>1. PICK n \in Nat : n = Len(ss)
    OBVIOUS
  <2> QED BY <1>3, <1>4, <2>1
<1> QED BY <1>1, <1>2, <1>3, <1>5

LEMMA FileInitInv == FileInit => FileInv
<1> SUFFICES ASSUME FileInit PROVE FileInv
  OBVIOUS
<1>1. sizes \in Seq(Sizes) /\ sizes # <<>>
  <2>1. sizes \in BoundedSeq(Sizes, MaxUnits) /\ sizes # <<>>
    BY DEF FileInit
  <2>2. PICK m \in 0 .. MaxUnits : sizes \in [1 .. m -> Sizes]
    BY <2>1 DEF BoundedSeq, SeqOf
  <2>3. m \in Nat
    BY UnitsAssumption
  <2> QED BY <2>1, <2>2, <2>3
<1>2. Len(sizes) \in Nat /\ 0 \in 0 .. Len(sizes)
  BY <1>1
<1>3. FileTypeOK
  BY <1>1, <1>2 DEF FileInit, FileTypeOK
<1>4. PhaseInv /\ WidthInv /\ FileLaid /\ OnlyPowersFail
  BY DEF FileInit, PhaseInv, WidthInv, FileLaid, OnlyPowersFail
<1>5. UnitsReadBack
  BY DEF FileInit, UnitsReadBack
<1>6. stream \in Seq(FileBytes) /\ units \in Seq(Seq(FileBytes))
  BY DEF FileInit
<1> QED BY <1>1, <1>3, <1>4, <1>5, <1>6 DEF FileInv

-----------------------------------------------------------------------------
(* the writer opens the file *)
LEMMA WriteHeaderStep == FileInv /\ WriteHeader => FileInv'
<1> SUFFICES ASSUME FileInv, WriteHeader PROVE FileInv'
  OBVIOUS
<1>1. sizes \in Seq(Sizes) /\ sizes # <<>> /\ FileTypeOK /\ PhaseInv /\ units \in Seq(Seq(FileBytes)) /\ UnitsReadBack
  BY DEF FileInv, FileTypeOK
<1>2. phase = "write" /\ phase' = "units" /\ UNCHANGED <<sizes, forced, written, width, pos, units>>
  BY DEF WriteHeader
<1>3. units = <<>> /\ pos = 0 /\ width = 0 /\ written = 0
  BY <1>1, <1>2 DEF PhaseInv
<1>4. PICK m \in Nat \ {0} : m = MaxUnitSize /\ m <= UnsignedLimit
  <2>1. MaxUnitSize \in Sizes
    BY <1>1, MaxUnitSizeIs
  <2> QED BY <2>1, UnsignedLimitIs, UnitsAssumption
<1>5. PICK n \in 1 .. 4 : n = BytesFor(m) /\ m <= Power(Base, n)
  BY <1>4, BytesForIs
<1>6. PICK f \in 0 .. 4 : f = forced
  BY <1>1, UnitsAssumption DEF FileTypeOK
<1>7. precision' = Max({n, f})
  BY <1>4, <1>5, <1>6 DEF WriteHeader, UnitSizePrecision
<1>8. PICK p \in 1 .. 4 : p = precision' /\ n <= p
  <2>1. n \in Int /\ f \in Int
    OBVIOUS
  <2>2. Max({n, f}) = IF f <= n THEN n ELSE f
    BY <2>1 DEF Max
  <2> QED BY <1>7, <2>2
<1>9. m <= Power(Base, p)
  <2>1. Base \in Nat \ {0} /\ n \in Nat /\ p \in Nat
    BY BaseIs
  <2>2. Power(Base, n) <= Power(Base, p)
    BY <1>8, <2>1, PowerGrows
  <2>3. Power(Base, n) \in Nat /\ Power(Base, p) \in Nat
    BY <2>1, PowerIs
  <2> QED BY <1>5, <2>2, <2>3
<1>10. stream' = <<HeaderByte(p)>>
  BY <1>8 DEF WriteHeader
<1>11. stream' \in Seq(FileBytes) /\ stream' # <<>> /\ stream'[1] = HeaderByte(p) /\ Len(stream') = 1
  <2>1. HeaderByte(p) \in FileBytes
    BY DEF HeaderByte, FileBytes, StreamBytes
  <2> QED BY <1>10, <2>1
<1>12. MaxUnitSize' = MaxUnitSize
  BY <1>2 DEF MaxUnitSize
<1>13. WidthInv'
  BY <1>4, <1>8, <1>9, <1>12 DEF WidthInv
<1>14. PhaseInv'
  BY <1>2, <1>3 DEF PhaseInv
<1>15. FileLaid'
  <2> DEFINE P == [k \in 0 .. 0 |-> 1]
  <2>1. P \in [0 .. 0 -> Nat] /\ P[0] = 1
    OBVIOUS
  <2> HIDE DEF P
  <2>2. Laid(stream', FileChunks(sizes', precision'), written', P, 1)
    <3>1. written' = 0 /\ \A k \in 1 .. 0 : FALSE
      BY <1>2, <1>3
    <3> QED BY <1>11, <2>1, <3>1 DEF Laid
  <2>3. phase' \notin {"parse", "done", "crashed"} /\ precision' = p
    BY <1>2, <1>8
  <2> QED BY <1>11, <2>2, <2>3 DEF FileLaid
<1>16. UnitsReadBack' /\ OnlyPowersFail'
  BY <1>1, <1>2 DEF UnitsReadBack, OnlyPowersFail
<1>17. FileTypeOK'
  <2>1. pos' = 0 /\ Len(stream') = 1
    BY <1>2, <1>3, <1>11
  <2> QED BY <1>1, <1>2, <1>3, <1>8, <2>1 DEF FileTypeOK
<1> QED BY <1>1, <1>2, <1>11, <1>13, <1>14, <1>15, <1>16, <1>17 DEF FileInv

(* the writer adds a unit *)
LEMMA WriteUnitStep == FileInv /\ WriteUnit => FileInv'
<1> SUFFICES ASSUME FileInv, WriteUnit PROVE FileInv'
  OBVIOUS
<1>1. /\ sizes \in Seq(Sizes) /\ sizes # <<>> /\ FileTypeOK /\ PhaseInv /\ WidthInv /\ FileLaid
      /\ stream \in Seq(FileBytes) /\ units \in Seq(Seq(FileBytes)) /\ UnitsReadBack
  BY DEF FileInv, FileTypeOK
<1>2. phase = "units" /\ written < Len(sizes) /\ written' = written + 1
      /\ UNCHANGED <<sizes, forced, phase, precision, width, pos, units>>
  BY DEF WriteUnit
<1>3. units = <<>> /\ pos = 0 /\ width = 0
  BY <1>1, <1>2 DEF PhaseInv
<1>4. PICK p \in 1 .. 4, n \in Nat, ss \in Seq(Sizes) : p = precision /\ n = written /\ ss = sizes /\ n < Len(ss)
  BY <1>1, <1>2 DEF WidthInv, FileTypeOK
<1>5. PICK C \in Seq(Seq(FileBytes)) : /\ C = FileChunks(ss, p) /\ Len(C) = Len(ss)
                                       /\ \A k \in 1 .. Len(ss) : C[k] = UnitChunk(ss[k], p, k, ss[k])
  <2>1. p \in Nat
    OBVIOUS
  <2> QED BY <2>1, FileChunksAre
<1>6. PICK P : Laid(stream, C, n, P, 1)
  BY <1>1, <1>2, <1>4, <1>5 DEF FileLaid
<1>7. PICK s \in Seq(FileBytes) : s = stream /\ s # <<>> /\ s[1] = HeaderByte(p)
  BY <1>1, <1>2, <1>4 DEF FileLaid
<1>8. stream' = s \o C[n + 1]
  <2>1. PICK m \in 1 .. Len(ss) : m = n + 1
    BY <1>4
  <2>2. C[m] = SizeField(ss[m], p) \o UnitBytes(m, ss[m])
    BY <1>5 DEF UnitChunk
  <2>3. stream' = (s \o SizeField(ss[m], p)) \o UnitBytes(m, ss[m])
    BY <1>4, <1>7, <2>1 DEF WriteUnit
  <2>4. PICK x \in Nat : x = ss[m] /\ m \in UnitNumbers /\ p \in Nat
    <3>1. ss[m] \in Sizes
      BY <1>4
    <3>2. m \in Nat /\ p \in Nat
      OBVIOUS
    <3>3. ss[m] \in Nat
      BY <3>1, UnitsAssumption
    <3> QED BY <3>2, <3>3 DEF UnitNumbers
  <2>5. SizeField(x, p) \in Seq(StreamBytes(UnitNumbers)) /\ UnitBytes(m, x) \in Seq(StreamBytes(UnitNumbers))
    BY <2>4, FieldIs, UnitBytesIs
  <2>6. PICK f \in Seq(FileBytes), b \in Seq(FileBytes) : f = SizeField(ss[m], p) /\ b = UnitBytes(m, ss[m])
    BY <2>4, <2>5 DEF FileBytes
  <2>7. (s \o f) \o b = s \o (f \o b)
    <3>1. InEitherWay(s, f, b)
      BY EitherWay
    <3> QED BY <3>1 DEF InEitherWay
  <2> QED BY <2>1, <2>2, <2>3, <2>6, <2>7
<1>9. s \o C[n + 1] \in Seq(FileBytes) /\ \E Q : Laid(s \o C[n + 1], C, n + 1, Q, 1)
  <2>1. n < Len(C)
    BY <1>4, <1>5
  <2> QED BY <1>6, <1>7, <2>1, LaidGrows
<1>10. PICK t \in Seq(FileBytes) : t = stream' /\ \E Q : Laid(t, C, n + 1, Q, 1)
  BY <1>8, <1>9
<1>11. t # <<>> /\ t[1] = HeaderByte(p) /\ Len(t) >= 1
  <2>1. n + 1 \in 1 .. Len(C)
    BY <1>4, <1>5
  <2>2. PICK c \in Seq(FileBytes) : c = C[n + 1]
    BY <2>1
  <2>3. t = s \o c /\ Len(s) >= 1 /\ Len(s) \in Nat
    BY <1>7, <1>8, <1>10, <2>2
  <2> QED BY <1>7, <2>3, ConcatIs
<1>12. FileLaid'
  <2>1. phase' \notin {"parse", "done", "crashed"} /\ FileChunks(sizes', precision') = C /\ written' = n + 1 /\ precision' = p
    BY <1>2, <1>4, <1>5
  <2> QED BY <1>10, <1>11, <2>1 DEF FileLaid
<1>13. MaxUnitSize' = MaxUnitSize
  BY <1>2 DEF MaxUnitSize
<1>14. WidthInv' /\ PhaseInv' /\ UnitsReadBack' /\ OnlyPowersFail'
  BY <1>1, <1>2, <1>3, <1>13 DEF WidthInv, PhaseInv, UnitsReadBack, OnlyPowersFail
<1>15. FileTypeOK'
  <2>1. pos' = 0 /\ Len(stream') \in Nat
    BY <1>2, <1>3, <1>10
  <2>2. written' \in 0 .. Len(sizes')
    BY <1>2, <1>4
  <2> QED BY <1>1, <1>2, <1>3, <2>1, <2>2 DEF FileTypeOK
<1> QED BY <1>1, <1>2, <1>10, <1>12, <1>14, <1>15 DEF FileInv


(* the file is closed, and opened again *)
LEMMA CloseFileStep == FileInv /\ CloseFile => FileInv'
<1> SUFFICES ASSUME FileInv, CloseFile PROVE FileInv'
  OBVIOUS
<1>1. /\ phase = "units" /\ written = Len(sizes) /\ phase' = "read"
      /\ UNCHANGED <<sizes, forced, written, precision, stream, width, pos, units>>
  BY DEF CloseFile
<1>2. MaxUnitSize' = MaxUnitSize
  BY <1>1 DEF MaxUnitSize
<1>3. FileTypeOK' /\ PhaseInv' /\ WidthInv' /\ UnitsReadBack' /\ OnlyPowersFail'
  BY <1>1, <1>2 DEF FileInv, FileTypeOK, PhaseInv, WidthInv, UnitsReadBack, OnlyPowersFail
<1>4. FileLaid'
  BY <1>1 DEF FileInv, FileLaid
<1> QED BY <1>1, <1>3, <1>4 DEF FileInv

LEMMA ReadHeaderStep == FileInv /\ ReadHeader => FileInv'
<1> SUFFICES ASSUME FileInv, ReadHeader PROVE FileInv'
  OBVIOUS
<1>1. /\ phase = "read" /\ width' = stream[1][2] /\ pos' = 1 /\ phase' = "parse"
      /\ UNCHANGED <<sizes, forced, written, precision, stream, units>>
  BY DEF ReadHeader
<1>2. /\ FileTypeOK /\ PhaseInv /\ WidthInv /\ FileLaid /\ units = <<>>
      /\ stream \in Seq(FileBytes) /\ stream # <<>> /\ stream[1] = HeaderByte(precision)
  BY <1>1 DEF FileInv, PhaseInv, FileLaid
<1>3. width' = precision
  BY <1>1, <1>2 DEF HeaderByte
<1>4. PICK P : Laid(stream, FileChunks(sizes, precision), written, P, 1)
  BY <1>1, <1>2 DEF FileLaid
<1>5. P[Len(units)] = 1
  BY <1>2, <1>4 DEF Laid
<1>6. FileLaid'
  BY <1>1, <1>2, <1>4, <1>5 DEF FileLaid
<1>7. MaxUnitSize' = MaxUnitSize
  BY <1>1 DEF MaxUnitSize
<1>8. PhaseInv' /\ WidthInv' /\ UnitsReadBack' /\ OnlyPowersFail'
  BY <1>1, <1>2, <1>3, <1>7 DEF FileInv, PhaseInv, WidthInv, UnitsReadBack, OnlyPowersFail
<1>9. FileTypeOK'
  <2>1. Len(stream) \in Nat /\ Len(stream) >= 1
    BY <1>2
  <2>2. pos' \in 0 .. Len(stream')
    BY <1>1, <2>1
  <2> QED BY <1>1, <1>2, <1>3, <2>2 DEF FileTypeOK
<1> QED BY <1>1, <1>6, <1>8, <1>9 DEF FileInv

(* A turn of the reader's loop: the unit it is at is read, unless its size is the one
   that its size field cannot hold. *)
LEMMA ReadUnitStep == FileInv /\ ReadUnit => FileInv'
<1> SUFFICES ASSUME FileInv, ReadUnit PROVE FileInv'
  OBVIOUS
<1>1. /\ sizes \in Seq(Sizes) /\ sizes # <<>> /\ FileTypeOK /\ PhaseInv /\ WidthInv /\ FileLaid
      /\ stream \in Seq(FileBytes) /\ units \in Seq(Seq(FileBytes)) /\ UnitsReadBack
  BY DEF FileInv, FileTypeOK
<1>2. phase = "parse" /\ pos < Len(stream) /\ UNCHANGED <<sizes, forced, written, precision, stream, width>>
  BY DEF ReadUnit
<1>3. PICK p \in 1 .. 4, ss \in Seq(Sizes), n \in Nat : p = precision /\ ss = sizes /\ n = Len(ss) /\ written = n /\ width = p
  <2>1. written = Len(sizes) /\ width = precision
    BY <1>1, <1>2 DEF PhaseInv
  <2> QED BY <1>1, <1>2, <2>1 DEF WidthInv
<1>4. PICK C \in Seq(Seq(FileBytes)) :
        /\ C = FileChunks(ss, p) /\ Len(C) = n
        /\ \A k \in 1 .. n : /\ ss[k] \in Nat \ {0} /\ C[k] = UnitChunk(ss[k], p, k, ss[k])
                             /\ Len(C[k]) = p + ss[k]
  <2>1. p \in Nat
    OBVIOUS
  <2> QED BY <1>3, <2>1, FileChunksAre
<1>5. PICK P : Laid(stream, C, n, P, 1) /\ pos = P[Len(units)]
  BY <1>1, <1>2, <1>3, <1>4 DEF FileLaid
<1>6. PICK s \in Seq(FileBytes), us \in Seq(Seq(FileBytes)) : s = stream /\ us = units
  BY <1>1
<1>7. PICK k \in 1 .. n : k = Len(us) + 1 /\ k - 1 = Len(us)
  <2>1. Len(us) <= n /\ Len(us) \in Nat
    BY <1>1, <1>3, <1>6 DEF FileTypeOK
  <2>2. Len(stream) = P[n] /\ P[n] \in Nat
    BY <1>5 DEF Laid
  <2>3. Len(us) # n
    BY <1>2, <1>5, <1>6, <2>2
  <2> QED BY <2>1, <2>3
<1>8. PICK a \in Nat : a = P[k - 1] /\ a = pos /\ P[k] = a + Len(C[k]) /\ Holds(s, a, C[k])
  <2>1. n <= Len(C)
    BY <1>4
  <2>2. P[k - 1] \in Nat /\ P[k] = P[k - 1] + Len(C[k]) /\ Holds(stream, P[k - 1], C[k])
    BY <1>5, <2>1, ChunkIsHeld
  <2> QED BY <1>5, <1>6, <1>7, <2>2
<1>9. PICK v \in Nat \ {0} : v = ss[k] /\ C[k] = UnitChunk(v, p, k, v) /\ P[k] = a + p + v
  <2>1. Len(C[k]) = p + ss[k] /\ ss[k] \in Nat \ {0}
    BY <1>4
  <2>2. P[k] = a + (p + ss[k])
    BY <1>8, <2>1
  <2>3. P[k] = a + p + ss[k]
    BY <2>1, <2>2
  <2> QED BY <1>4, <2>1, <2>3
<1>10. PICK f, b : /\ f = SizeField(v, p) /\ b = UnitBytes(k, v)
                   /\ f = Slice(s, a + 1, a + p) /\ b = Slice(s, a + p + 1, a + p + v)
  <2>1. k \in UnitNumbers /\ v \in Nat /\ p \in Nat /\ s \in Seq(StreamBytes(UnitNumbers)) /\ v \in 0 .. v
    BY DEF FileBytes, UnitNumbers
  <2>2. Holds(s, a, UnitChunk(v, p, k, v))
    BY <1>8, <1>9
  <2>3. /\ Slice(s, a + 1, a + p) = SizeField(v, p)
        /\ \A m \in 0 .. v : Slice(s, a + p + 1, a + p + m) = UnitBytes(k, m)
    BY <2>1, <2>2, ChunkIsRead
  <2> QED BY <2>1, <2>3
<1>11. /\ IsSizeField(f, p)
       /\ v < Power(Base, p) => FieldValue(f) = v
       /\ v = Power(Base, p) => FieldValue(f) = 0
  <2>1. v \in Nat /\ p \in Nat
    OBVIOUS
  <2> QED BY <1>10, <2>1, FieldIs
<1>12. b \in Seq(FileBytes) /\ Len(b) = v
  <2>1. k \in UnitNumbers /\ v \in Nat
    BY DEF UnitNumbers
  <2>2. PICK c \in Seq(StreamBytes(UnitNumbers)) : c = UnitBytes(k, v) /\ Len(c) = v
    BY <2>1, UnitBytesIs
  <2> QED BY <1>10, <2>2 DEF FileBytes
<1>13. PICK x \in Nat \ {0} : x = Power(Base, p) /\ v <= x /\ v <= MaxUnitSize /\ MaxUnitSize <= x /\ MaxUnitSize \in Nat
  <2>1. MaxUnitSize \in Sizes /\ v <= MaxUnitSize
    <3>1. MaxUnitSize \in Sizes /\ \A i \in 1 .. Len(sizes) : sizes[i] <= MaxUnitSize
      BY <1>1, MaxUnitSizeIs
    <3> QED BY <1>3, <1>9, <3>1
  <2>2. MaxUnitSize <= Power(Base, p)
    BY <1>1, <1>2, <1>3 DEF WidthInv
  <2>3. Power(Base, p) \in Nat \ {0}
    <3>1. Base \in Nat \ {0} /\ p \in Nat
      BY BaseIs
    <3> QED BY <3>1, PowerIs
  <2>4. MaxUnitSize \in Nat
    BY <2>1, UnitsAssumption
  <2> QED BY <2>1, <2>2, <2>3, <2>4
<1>14. MaxUnitSize' = MaxUnitSize
  BY <1>2 DEF MaxUnitSize
<1>15. WidthInv'
  <2>1. precision \in 1 .. 4 /\ MaxUnitSize <= Power(Base, precision)
    BY <1>1, <1>2 DEF WidthInv
  <2> QED BY <1>2, <1>14, <2>1 DEF WidthInv
<1>16. CASE v < x
  <2>1. FieldValue(f) = v
    BY <1>11, <1>13, <1>16
  <2>2. phase' = "parse" /\ units' = Append(us, b) /\ pos' = a + p + v
    <3>1. FieldValue(Slice(s, a + 1, a + p)) = v /\ IsSizeField(Slice(s, a + 1, a + p), p)
      BY <1>10, <1>11, <2>1
    <3>2. Slice(s, a + p + 1, a + p + v) = b /\ Len(b) = v /\ v > 0
      BY <1>10, <1>12
    <3> QED BY <1>3, <1>6, <1>8, <3>1, <3>2 DEF ReadUnit, EndOfUnit
  <2>3. PICK vs \in Seq(Seq(FileBytes)) : /\ vs = units' /\ Len(vs) = k /\ vs[k] = b
                                          /\ \A i \in 1 .. k - 1 : vs[i] = us[i]
    <3>1. /\ Append(us, b) \in Seq(Seq(FileBytes)) /\ Len(Append(us, b)) = Len(us) + 1
          /\ Append(us, b)[Len(us) + 1] = b /\ \A i \in 1 .. Len(us) : Append(us, b)[i] = us[i]
      BY <1>12
    <3> QED BY <1>7, <2>2, <3>1
  <2>4. UnitsReadBack'
    <3>1. ASSUME NEW i \in 1 .. k PROVE vs[i] = UnitBytes(i, ss[i])
      <4>1. CASE i = k
        BY <1>9, <1>10, <2>3, <4>1
      <4>2. CASE i # k
        <5>1. i \in 1 .. k - 1 /\ i \in DOMAIN us
          BY <1>7, <4>2
        <5> QED BY <1>1, <1>3, <1>6, <2>3, <5>1 DEF UnitsReadBack
      <4> QED BY <4>1, <4>2
    <3>2. DOMAIN units' = 1 .. k
      BY <2>3
    <3> QED BY <1>2, <1>3, <2>3, <3>1, <3>2 DEF UnitsReadBack
  <2>5. pos' = P[Len(units')]
    BY <1>9, <2>2, <2>3
  <2>6. FileLaid'
    <3>1. /\ stream' # <<>> /\ stream'[1] = HeaderByte(precision')
      BY <1>1, <1>2 DEF FileLaid
    <3>2. Laid(stream', FileChunks(sizes', precision'), written', P, 1)
      BY <1>2, <1>3, <1>4, <1>5
    <3> QED BY <2>5, <3>1, <3>2 DEF FileLaid
  <2>7. PhaseInv' /\ OnlyPowersFail'
    BY <1>1, <1>2, <2>2 DEF PhaseInv, OnlyPowersFail
  <2>8. FileTypeOK'
    <3>1. P[k] <= Len(s) /\ P[k] \in Nat
      <4>1. k \in 0 .. n /\ n \in k .. n /\ n <= Len(C)
        BY <1>4
      <4>2. P[k] <= P[n]
        BY <1>5, <4>1, PlacesGrow
      <4> QED BY <1>5, <1>6, <4>1, <4>2 DEF Laid
    <3>2. pos' \in 0 .. Len(stream')
      <4>1. Len(s) \in Nat
        OBVIOUS
      <4> QED BY <1>2, <1>6, <1>9, <2>2, <3>1, <4>1
    <3>3. Len(units') <= Len(sizes')
      BY <1>2, <1>3, <2>3
    <3> QED BY <1>1, <1>2, <2>2, <3>2, <3>3 DEF FileTypeOK
  <2> QED BY <1>1, <1>2, <1>15, <2>3, <2>4, <2>6, <2>7, <2>8 DEF FileInv
<1>17. CASE v = x
  <2>1. FieldValue(f) = 0
    BY <1>11, <1>13, <1>17
  <2>2. phase' = "crashed" /\ units' = units /\ pos' = pos
    BY <1>3, <1>6, <1>8, <1>10, <1>11, <2>1 DEF ReadUnit
  <2>3. OnlyPowersFail'
    BY <1>2, <1>3, <1>13, <1>14, <1>17 , <2>2 DEF OnlyPowersFail
  <2>4. PhaseInv' /\ UnitsReadBack' /\ FileTypeOK'
    BY <1>1, <1>2, <2>2 DEF PhaseInv, UnitsReadBack, FileTypeOK
  <2>5. FileLaid'
    BY <1>1, <1>2, <2>2 DEF FileLaid
  <2> QED BY <1>1, <1>2, <1>15, <2>2, <2>3, <2>4, <2>5 DEF FileInv
<1> QED BY <1>13, <1>16, <1>17


(* at the end of the file all units have been read *)
LEMMA EndOfFileStep == FileInv /\ EndOfFile => FileInv'
<1> SUFFICES ASSUME FileInv, EndOfFile PROVE FileInv'
  OBVIOUS
<1>1. /\ sizes \in Seq(Sizes) /\ FileTypeOK /\ PhaseInv /\ WidthInv /\ FileLaid
      /\ units \in Seq(Seq(FileBytes))
  BY DEF FileInv, FileTypeOK
<1>2. /\ phase = "parse" /\ pos = Len(stream) /\ phase' = "done"
      /\ UNCHANGED <<sizes, forced, written, precision, stream, width, pos, units>>
  BY DEF EndOfFile
<1>3. PICK p \in Nat, n \in Nat, m \in Nat : p = precision /\ n = Len(sizes) /\ written = n /\ m = Len(units) /\ m <= n
  <2>1. written = Len(sizes)
    BY <1>1, <1>2 DEF PhaseInv
  <2>2. precision \in 0 .. 4 /\ Len(units) <= Len(sizes)
    BY <1>1 DEF FileTypeOK
  <2>3. Len(sizes) \in Nat /\ Len(units) \in Nat /\ precision \in Nat
    BY <1>1, <2>2
  <2> QED BY <2>1, <2>2, <2>3
<1>4. PICK C \in Seq(Seq(FileBytes)) :
        /\ C = FileChunks(sizes, p) /\ Len(C) = n
        /\ \A k \in 1 .. n : sizes[k] \in Nat \ {0} /\ Len(C[k]) = p + sizes[k]
  BY <1>1, <1>3, FileChunksAre
<1>5. PICK P : Laid(stream, C, n, P, 1) /\ pos = P[m]
  BY <1>1, <1>2, <1>3, <1>4 DEF FileLaid
<1>6. ASSUME m < n PROVE FALSE
  <2>1. PICK k \in 1 .. n : k = m + 1 /\ k - 1 = m
    BY <1>6
  <2>2. n <= Len(C) /\ k \in 0 .. n /\ n \in k .. n
    BY <1>4
  <2>3. P[m] \in Nat /\ P[k] = P[m] + Len(C[k])
    BY <1>5, <2>1, <2>2, ChunkIsHeld
  <2>4. P[k] <= P[n]
    BY <1>5, <2>2, PlacesGrow
  <2>5. PICK x \in Nat : x = sizes[k] /\ x >= 1 /\ Len(C[k]) = p + x
    BY <1>4
  <2>6. P[m] = P[n]
    BY <1>2, <1>5 DEF Laid
  <2> QED BY <2>3, <2>4, <2>5, <2>6
<1>7. PhaseInv'
  <2>1. Len(units) = Len(sizes)
    BY <1>3, <1>6
  <2> QED BY <1>1, <1>2, <2>1 DEF PhaseInv
<1>8. MaxUnitSize' = MaxUnitSize
  BY <1>2 DEF MaxUnitSize
<1>9. FileTypeOK' /\ WidthInv' /\ UnitsReadBack' /\ OnlyPowersFail'
  BY <1>2, <1>8 DEF FileInv, FileTypeOK, WidthInv, UnitsReadBack, OnlyPowersFail
<1>10. FileLaid'
  BY <1>1, <1>2 DEF FileLaid
<1> QED BY <1>2, <1>7, <1>9, <1>10 DEF FileInv

LEMMA FileNextInv == FileInv /\ [FileNext]_fileVars => FileInv'
<1>1. FileInv /\ FileNext => FileInv'
  BY WriteHeaderStep, WriteUnitStep, CloseFileStep, ReadHeaderStep, ReadUnitStep, EndOfFileStep DEF FileNext
<1>2. ASSUME FileInv, UNCHANGED fileVars PROVE FileInv'
  <2>1. UNCHANGED <<sizes, forced, phase, written, precision, stream, width, pos, units>>
    BY <1>2 DEF fileVars
  <2>2. MaxUnitSize' = MaxUnitSize
    BY <2>1 DEF MaxUnitSize
  <2>3. FileTypeOK' /\ PhaseInv' /\ WidthInv' /\ UnitsReadBack' /\ OnlyPowersFail'
    BY <1>2, <2>1, <2>2 DEF FileInv, FileTypeOK, PhaseInv, WidthInv, UnitsReadBack, OnlyPowersFail
  <2>4. FileLaid'
    BY <1>2, <2>1 DEF FileInv, FileLaid
  <2> QED BY <1>2, <2>1, <2>3, <2>4 DEF FileInv
<1> QED BY <1>1, <1>2

LEMMA FileInvHolds == FileSpec => []FileInv
<1>1. FileInit => FileInv
  BY FileInitInv
<1>2. FileInv /\ [FileNext]_fileVars => FileInv'
  BY FileNextInv
<1> QED BY <1>1, <1>2, PTL DEF FileSpec

(* The places of the writer and the reader stay inside the file, and the width of the
   size fields is between one and eight bytes (PCCBitstreamWriter::write). *)
THEOREM FileTypes == FileSpec => []FileTypeOK
<1>1. FileInv => FileTypeOK
  BY DEF FileInv
<1> QED BY <1>1, FileInvHolds, PTL

(* The units that PCCBitstreamReader::read takes from a file are those that were
   written, byte for byte, in files with any number of units of any sizes, with any
   forced precision. *)
THEOREM WhatIsReadWasWritten == FileSpec => []UnitsReadBack
<1>1. FileInv => UnitsReadBack
  BY DEF FileInv
<1> QED BY <1>1, FileInvHolds, PTL

(* The reader never loses its place, and it ends early only where the longest unit is
   the power of the byte base that its size field cannot hold. *)
THEOREM OnlyPowersEndTheReader == FileSpec => []OnlyPowersFail
<1>1. FileInv => OnlyPowersFail
  BY DEF FileInv
<1> QED BY <1>1, FileInvHolds, PTL

AllUnitsRead == phase = "done" => Len(units) = Len(sizes)

(* A reader that comes to the end of the file has read all of its units. *)
THEOREM WholeFileIsRead == FileSpec => []AllUnitsRead
<1>1. FileInv => AllUnitsRead
  BY DEF FileInv, PhaseInv, AllUnitsRead
<1> QED BY <1>1, FileInvHolds, PTL

-----------------------------------------------------------------------------
(***************************************************************************)
(* The NAL units of a group.                                               *)
(***************************************************************************)
UnitNames == {"ASPS", "AFPS", "PREFIX_SEI", "TILE", "SUFFIX_SEI"} \X Nat

LEMMA GroupIs ==
  ASSUME NEW g \in Groups
  PROVE  /\ g.frames \in Nat \ {0} /\ g.tiles \in Nat \ {0} /\ g.tiles <= MaxTiles /\ g.afps \in Nat \ {0}
         /\ g.constrained \in BOOLEAN /\ g.smoothing \in BOOLEAN /\ g.hash \in BOOLEAN
         /\ g.bits \in [1 .. MaxTiles -> HeaderBits] /\ g.data \in DataBytes
         /\ Layers(g) \in Nat \ {0}
<1>1. /\ g.frames \in 1 .. MaxFrames /\ g.tiles \in 1 .. MaxTiles /\ g.afps \in 1 .. MaxAfps
      /\ g.constrained \in BOOLEAN /\ g.smoothing \in BOOLEAN /\ g.hash \in BOOLEAN
      /\ g.bits \in [1 .. MaxTiles -> HeaderBits] /\ g.data \in DataBytes
  BY DEF Groups
<1>2. g.frames \in Nat \ {0} /\ g.tiles \in Nat \ {0} /\ g.tiles <= MaxTiles /\ g.afps \in Nat \ {0}
  BY <1>1, LayoutAssumption
<1>3. PICK f \in Nat \ {0}, t \in Nat \ {0} : f = g.frames /\ t = g.tiles
  BY <1>2
<1>4. f * t \in Nat \ {0}
  OBVIOUS
<1> QED BY <1>1, <1>2, <1>3, <1>4 DEF Layers

(* At most one element. *)
LEMMA OneElement ==
  ASSUME NEW D, NEW a \in D
  PROVE  /\ <<a>> \in Seq(D) /\ Len(<<a>>) = 1 /\ \A i \in 1 .. 1 : <<a>>[i] = a
         /\ <<>> \in Seq(D) /\ Len(<<>>) = 0 /\ \A i \in 1 .. 0 : <<>>[i] = a
<1>1. <<a>> \in Seq(D)
  OBVIOUS
<1>2. Len(<<a>>) = 1
  OBVIOUS
<1>3. <<a>>[1] = a
  OBVIOUS
<1>4. \A i \in 1 .. 1 : i = 1
  OBVIOUS
<1>5. \A i \in 1 .. 0 : FALSE
  OBVIOUS
<1>6. <<>> \in Seq(D) /\ Len(<<>>) = 0
  OBVIOUS
<1> QED BY <1>1, <1>2, <1>3, <1>4, <1>5, <1>6

(* An element between two sequences. *)
LEMMA Between ==
  ASSUME NEW D, NEW p \in Seq(D), NEW b \in D, NEW q \in Seq(D), NEW l \in Nat, NEW m \in Nat, l = Len(p), m = Len(q)
  PROVE  /\ p \o <<b>> \o q \in Seq(D) /\ Len(p \o <<b>> \o q) = l + 1 + m
         /\ \A i \in 1 .. l : (p \o <<b>> \o q)[i] = p[i]
         /\ (p \o <<b>> \o q)[l + 1] = b
         /\ \A i \in 1 .. m : (p \o <<b>> \o q)[l + 1 + i] = q[i]
<1>1. PICK s \in Seq(D) : s = p \o <<b>> /\ Len(s) = l + 1 /\ s[l + 1] = b /\ \A i \in 1 .. l : s[i] = p[i]
  <2>1. Append(p, b) = p \o <<b>>
    BY AppendIsConcat
  <2>2. /\ Append(p, b) \in Seq(D) /\ Len(Append(p, b)) = l + 1 /\ Append(p, b)[l + 1] = b
        /\ \A i \in 1 .. l : Append(p, b)[i] = p[i]
    OBVIOUS
  <2> QED BY <2>1, <2>2
<1>2. /\ s \o q \in Seq(D) /\ Len(s \o q) = Len(s) + Len(q)
      /\ \A i \in 1 .. Len(s) : (s \o q)[i] = s[i]
      /\ \A i \in 1 .. Len(q) : (s \o q)[Len(s) + i] = q[i]
  BY ConcatIs
<1>3. Len(s \o q) = l + 1 + m
  BY <1>1, <1>2
<1>4. (s \o q)[l + 1] = b
  <2>1. l + 1 \in 1 .. l + 1
    OBVIOUS
  <2> QED BY <1>1, <1>2, <2>1
<1>5. ASSUME NEW i \in 1 .. l PROVE (s \o q)[i] = p[i]
  BY <1>1, <1>2
<1>6. ASSUME NEW i \in 1 .. m PROVE (s \o q)[l + 1 + i] = q[i]
  BY <1>1, <1>2
<1> QED BY <1>1, <1>2, <1>3, <1>4, <1>5, <1>6

(* the place of the tile among the units of its tile layer, and of the last unit *)
TilePlace(g, l) == IF Prefixed(g, l) THEN 2 ELSE 1
LastPlace(g, l) == TilePlace(g, l) + (IF Suffixed(g, l) THEN 1 ELSE 0)

(* The units of a tile layer: the message in front, the tile, the message behind. *)
LEMMA LayerUnitsAre ==
  ASSUME NEW g \in Groups, NEW l \in Nat
  PROVE  /\ LayerUnits(g, l) \in Seq(UnitNames) /\ Len(LayerUnits(g, l)) = LastPlace(g, l)
         /\ \A j \in 1 .. LastPlace(g, l) :
              LayerUnits(g, l)[j] = IF j < TilePlace(g, l) THEN <<"PREFIX_SEI", l>>
                                    ELSE IF j = TilePlace(g, l) THEN <<"TILE", l>> ELSE <<"SUFFIX_SEI", l>>
<1>1. <<"PREFIX_SEI", l>> \in UnitNames /\ <<"TILE", l>> \in UnitNames /\ <<"SUFFIX_SEI", l>> \in UnitNames
  BY DEF UnitNames
<1>2. PICK a \in UnitNames, b \in UnitNames, c \in UnitNames :
        a = <<"PREFIX_SEI", l>> /\ b = <<"TILE", l>> /\ c = <<"SUFFIX_SEI", l>>
  BY <1>1
<1>3. PICK u : u = LayerUnits(g, l)
  OBVIOUS
<1>4. PICK p \in Seq(UnitNames), m \in Nat : /\ p = (IF Prefixed(g, l) THEN <<a>> ELSE <<>>) /\ m = Len(p)
                                           /\ TilePlace(g, l) = m + 1 /\ \A i \in 1 .. m : p[i] = a
  <2>1. CASE Prefixed(g, l)
    <3>1. PICK p \in Seq(UnitNames) : p = <<a>> /\ Len(p) = 1 /\ \A i \in 1 .. 1 : p[i] = a
      BY OneElement
    <3>2. 1 \in Nat /\ TilePlace(g, l) = 1 + 1
      BY <2>1 DEF TilePlace
    <3> QED BY <2>1, <3>1, <3>2
  <2>2. CASE ~Prefixed(g, l)
    <3>1. PICK p \in Seq(UnitNames) : p = <<>> /\ Len(p) = 0 /\ \A i \in 1 .. 0 : p[i] = a
      BY OneElement
    <3>2. 0 \in Nat /\ TilePlace(g, l) = 0 + 1
      BY <2>2 DEF TilePlace
    <3> QED BY <2>2, <3>1, <3>2
  <2> QED BY <2>1, <2>2
<1>5. PICK q \in Seq(UnitNames), n \in Nat : /\ q = (IF Suffixed(g, l) THEN <<c>> ELSE <<>>) /\ n = Len(q)
                                           /\ LastPlace(g, l) = TilePlace(g, l) + n /\ \A i \in 1 .. n : q[i] = c
  <2>1. CASE Suffixed(g, l)
    <3>1. PICK q \in Seq(UnitNames) : q = <<c>> /\ Len(q) = 1 /\ \A i \in 1 .. 1 : q[i] = c
      BY OneElement
    <3>2. 1 \in Nat /\ LastPlace(g, l) = TilePlace(g, l) + 1
      BY <2>1 DEF LastPlace
    <3> QED BY <2>1, <3>1, <3>2
  <2>2. CASE ~Suffixed(g, l)
    <3>1. PICK q \in Seq(UnitNames) : q = <<>> /\ Len(q) = 0 /\ \A i \in 1 .. 0 : q[i] = c
      BY OneElement
    <3>2. 0 \in Nat /\ LastPlace(g, l) = TilePlace(g, l) + 0
      BY <2>2 DEF LastPlace
    <3> QED BY <2>2, <3>1, <3>2
  <2> QED BY <2>1, <2>2
<1>6. u = p \o <<b>> \o q
  BY <1>2, <1>3, <1>4, <1>5 DEF LayerUnits
<1>7. /\ p \o <<b>> \o q \in Seq(UnitNames) /\ Len(p \o <<b>> \o q) = m + 1 + n
      /\ \A i \in 1 .. m : (p \o <<b>> \o q)[i] = p[i]
      /\ (p \o <<b>> \o q)[m + 1] = b
      /\ \A i \in 1 .. n : (p \o <<b>> \o q)[m + 1 + i] = q[i]
  BY <1>4, <1>5, Between
<1>8. LastPlace(g, l) = m + 1 + n
  BY <1>4, <1>5
<1>9. ASSUME NEW j \in 1 .. m + 1 + n
      PROVE  u[j] = IF j < m + 1 THEN a ELSE IF j = m + 1 THEN b ELSE c
  <2>1. CASE j < m + 1
    BY <1>4, <1>6, <1>7, <2>1
  <2>2. CASE j = m + 1
    BY <1>6, <1>7, <2>2
  <2>3. CASE j > m + 1
    <3>1. PICK i \in 1 .. n : i = j - (m + 1) /\ j = m + 1 + i
      BY <2>3
    <3> QED BY <1>5, <1>6, <1>7, <2>3, <3>1
  <2> QED BY <2>1, <2>2, <2>3
<1>10. u \in Seq(UnitNames) /\ Len(u) = LastPlace(g, l)
  BY <1>6, <1>7, <1>8
<1>11. \A j \in 1 .. LastPlace(g, l) :
         u[j] = IF j < TilePlace(g, l) THEN <<"PREFIX_SEI", l>>
                ELSE IF j = TilePlace(g, l) THEN <<"TILE", l>> ELSE <<"SUFFIX_SEI", l>>
  BY <1>2, <1>4, <1>8, <1>9
<1> QED BY <1>3, <1>10, <1>11

LayerList(g) == [l \in 1 .. Layers(g) |-> LayerUnits(g, l)]

(* N holds the parameter sets of a group and then its tile layers, which end at the
   places Q *)
UnitsLaid(g, N, Q) ==
  /\ N \in Seq(UnitNames)
  /\ \A k \in 1 .. 1 + g.afps : N[k] = IF k = 1 THEN <<"ASPS", 1>> ELSE <<"AFPS", k - 1>>
  /\ Laid(N, LayerList(g), Layers(g), Q, 1 + g.afps)

LEMMA LayerListIs ==
  ASSUME NEW g \in Groups
  PROVE  /\ LayerList(g) \in Seq(Seq(UnitNames)) /\ Len(LayerList(g)) = Layers(g)
         /\ \A l \in 1 .. Layers(g) : LayerList(g)[l] = LayerUnits(g, l) /\ Len(LayerList(g)[l]) = LastPlace(g, l)
<1>1. PICK n \in Nat : n = Layers(g)
  BY GroupIs
<1>2. \A l \in 1 .. n : LayerUnits(g, l) \in Seq(UnitNames) /\ Len(LayerUnits(g, l)) = LastPlace(g, l)
  <2>1. \A l \in 1 .. n : l \in Nat
    OBVIOUS
  <2> QED BY <2>1, LayerUnitsAre
<1>3. PICK C : C = LayerList(g)
  OBVIOUS
<1>4. C = [l \in 1 .. n |-> LayerUnits(g, l)]
  BY <1>1, <1>3 DEF LayerList
<1>5. C \in Seq(Seq(UnitNames)) /\ Len(C) = n
  BY <1>2, <1>4
<1> QED BY <1>1, <1>2, <1>3, <1>4, <1>5

LEMMA NalUnitsAre ==
  ASSUME NEW g \in Groups
  PROVE  \E Q : UnitsLaid(g, NalUnits(g), Q)
<1>1. PICK n \in Nat \ {0}, f \in Nat \ {0} : n = Layers(g) /\ f = g.afps
  BY GroupIs
<1>2. PICK C \in Seq(Seq(UnitNames)) : C = LayerList(g) /\ Len(C) = n
  BY <1>1, LayerListIs
<1>3. PICK s \in Seq(UnitNames) : s = FlattenSeq(C) /\ \E P : Laid(s, C, n, P, 0)
  <2>1. FlattenSeq(C) \in Seq(UnitNames) /\ \E P : Laid(FlattenSeq(C), C, n, P, 0)
    BY <1>2, FlattenLaid
  <2> QED BY <2>1
<1> PICK P : Laid(s, C, n, P, 0)
  BY <1>3
<1>4. PICK a \in Seq(UnitNames) : a = <<<<"ASPS", 1>>>> /\ Len(a) = 1 /\ a[1] = <<"ASPS", 1>>
  <2>1. <<"ASPS", 1>> \in UnitNames
    BY DEF UnitNames
  <2>2. PICK x \in UnitNames : x = <<"ASPS", 1>>
    BY <2>1
  <2>3. <<x>> \in Seq(UnitNames) /\ Len(<<x>>) = 1 /\ <<x>>[1] = x
    OBVIOUS
  <2> QED BY <2>2, <2>3
<1>5. PICK b \in Seq(UnitNames) : /\ b = [k \in 1 .. g.afps |-> <<"AFPS", k>>] /\ Len(b) = f
                                  /\ \A k \in 1 .. f : b[k] = <<"AFPS", k>>
  <2>1. \A k \in 1 .. f : <<"AFPS", k>> \in UnitNames
    BY DEF UnitNames
  <2>2. PICK b : b = [k \in 1 .. f |-> <<"AFPS", k>>]
    OBVIOUS
  <2>3. b = [k \in 1 .. f |-> b[k]] /\ \A k \in 1 .. f : b[k] = <<"AFPS", k>> /\ b[k] \in UnitNames
    BY <2>1, <2>2
  <2>4. b \in Seq(UnitNames)
    BY <2>3, IsSeq
  <2>5. DOMAIN b = 1 .. f /\ f \in Nat
    BY <2>3
  <2>6. Len(b) = f
    BY <2>4, <2>5
  <2> QED BY <1>1, <2>2, <2>3, <2>4, <2>6
<1>6. PICK t \in Seq(UnitNames) : t = a \o b /\ Len(t) = 1 + f /\ t[1] = a[1] /\ \A k \in 1 .. f : t[1 + k] = b[k]
  <2>1. /\ a \o b \in Seq(UnitNames) /\ Len(a \o b) = Len(a) + Len(b)
        /\ \A i \in 1 .. Len(a) : (a \o b)[i] = a[i]
        /\ \A i \in 1 .. Len(b) : (a \o b)[Len(a) + i] = b[i]
    BY ConcatIs
  <2>2. PICK t \in Seq(UnitNames) : t = a \o b
    BY <2>1
  <2>3. Len(t) = 1 + f
    BY <1>4, <1>5, <2>1, <2>2
  <2>4. t[1] = a[1]
    <3>1. 1 \in 1 .. Len(a)
      BY <1>4
    <3> QED BY <2>1, <2>2, <3>1
  <2>5. \A k \in 1 .. f : t[1 + k] = b[k]
    BY <1>4, <1>5, <2>1, <2>2
  <2> QED BY <2>2, <2>3, <2>4, <2>5
<1>7. NalUnits(g) = t \o s
  BY <1>2, <1>3, <1>4, <1>5, <1>6 DEF NalUnits, LayerList
<1>8. PICK Q : Laid(t \o s, C, n, Q, Len(t))
  <2>1. n <= Len(C) /\ n \in Nat
    BY <1>2
  <2> QED BY <1>3, <2>1, LaidBehind
<1>9. /\ t \o s \in Seq(UnitNames)
      /\ \A i \in 1 .. Len(t) : (t \o s)[i] = t[i]
  BY ConcatIs
<1>10. ASSUME NEW k \in 1 .. 1 + f PROVE t[k] = IF k = 1 THEN <<"ASPS", 1>> ELSE <<"AFPS", k - 1>>
  <2>1. CASE k = 1
    BY <1>4, <1>6, <2>1
  <2>2. CASE k # 1
    <3>1. PICK i \in 1 .. f : i = k - 1 /\ k = 1 + i
      BY <2>2
    <3> QED BY <1>5, <1>6, <2>2, <3>1
  <2> QED BY <2>1, <2>2
<1>11. \A k \in 1 .. 1 + f : (t \o s)[k] = IF k = 1 THEN <<"ASPS", 1>> ELSE <<"AFPS", k - 1>>
  BY <1>6, <1>9, <1>10
<1> QED BY <1>1, <1>2, <1>6, <1>7, <1>8, <1>9, <1>11 DEF UnitsLaid

-----------------------------------------------------------------------------
(***************************************************************************)
(* Sizes of NAL units.                                                     *)
(***************************************************************************)
(* One bit more takes one byte more only when it is the last bit of a byte. *)
LEMMA AlignedIs ==
  ASSUME NEW b \in Nat
  PROVE  /\ Aligned(b) \in Nat \ {0} /\ Aligned(b + 1) \in Nat \ {0} /\ Aligned(b) <= Aligned(b + 1)
         /\ Aligned(b + 1) # Aligned(b) => (b + 1) % ByteBits = 0
<1>1. PICK M \in Nat \ {0} : M = ByteBits
  BY ByteBitsAssumption
<1>2. PICK q \in Nat, r \in 0 .. M - 1 : q = b \div M /\ r = b % M /\ b = M * q + r
  OBVIOUS
<1>3. Aligned(b) = q + 1
  BY <1>1, <1>2 DEF Aligned
<1>4. CASE r < M - 1
  <2>1. PICK t \in 0 .. M - 1 : t = r + 1
    BY <1>4
  <2>2. (M * q + t) \div M = q
    BY DivisionIs
  <2>3. M * q + t = b + 1
    BY <1>2, <2>1
  <2>4. Aligned(b + 1) = q + 1
    BY <1>1, <2>2, <2>3 DEF Aligned
  <2> QED BY <1>3, <2>4
<1>5. CASE r = M - 1
  <2>1. q + 1 \in Nat /\ 0 \in 0 .. M - 1
    OBVIOUS
  <2>2. (M * (q + 1) + 0) \div M = q + 1 /\ (M * (q + 1) + 0) % M = 0
    BY <2>1, DivisionIs
  <2>3. M * (q + 1) + 0 = b + 1
    <3>1. M * (q + 1) = M * q + M
      OBVIOUS
    <3>2. PICK x \in Nat : x = M * q
      OBVIOUS
    <3> QED BY <1>2, <1>5, <3>1, <3>2
  <2>4. Aligned(b + 1) = q + 2 /\ (b + 1) % ByteBits = 0
    BY <1>1, <2>2, <2>3 DEF Aligned
  <2> QED BY <1>3, <2>4
<1> QED BY <1>4, <1>5

(* a unit of a group: the tiles are those of its tile layers *)
UnitOf(g, u) == u \in UnitNames /\ (u[1] = "TILE" => u[2] \in 1 .. Layers(g))

(* the additional flag of the tile header takes another byte *)
OverBoundary(g, u) ==
  u[1] = "TILE" /\ IsIrap(NaluType(g, u[2])) /\ (g.bits[TileOf(g, u[2]) + 1] + 1) % ByteBits = 0

(* The size the first pass measures is never larger than the size that is written, and
   smaller only where the flag takes another byte. *)
LEMMA UnitSizesAre ==
  ASSUME NEW g \in Groups, NEW u, UnitOf(g, u)
  PROVE  \E v \in Nat \ {0}, w \in Nat \ {0} :
           /\ v = MeasuredSize(g, u) /\ w = WrittenSize(g, u) /\ v < UnsignedLimit - 1
           /\ v <= w /\ (v # w => OverBoundary(g, u))
<1>1. PICK e \in Nat : e = UnsignedLimit - 1 /\ e > 7
  BY UnsignedLimitIs
<1>2. u[1] \in {"ASPS", "AFPS", "PREFIX_SEI", "TILE", "SUFFIX_SEI"} /\ u[2] \in Nat
  BY DEF UnitOf, UnitNames
<1>3. CASE u[1] \in {"ASPS", "AFPS"}
  <2>1. MeasuredSize(g, u) = 5 /\ WrittenSize(g, u) = 5
    BY <1>3 DEF MeasuredSize, WrittenSize, UnitSize, nalHeaderSize, ParameterSetSize
  <2> QED BY <1>1, <2>1
<1>4. CASE u[1] \in {"PREFIX_SEI", "SUFFIX_SEI"}
  <2>1. MeasuredSize(g, u) = 4 /\ WrittenSize(g, u) = 4
    BY <1>4 DEF MeasuredSize, WrittenSize, UnitSize, nalHeaderSize, SeiSize
  <2> QED BY <1>1, <2>1
<1>5. CASE u[1] = "TILE"
  <2>1. PICK t \in Nat \ {0}, l \in Nat \ {0} : t = g.tiles /\ l = u[2] /\ t <= MaxTiles
    <3>1. u[2] \in 1 .. Layers(g) /\ Layers(g) \in Nat /\ g.tiles \in Nat \ {0} /\ g.tiles <= MaxTiles
      BY <1>5, GroupIs DEF UnitOf
    <3> QED BY <3>1
  <2>2. PICK i \in 1 .. MaxTiles : i = TileOf(g, l) + 1
    <3>1. (l - 1) % t \in 0 .. t - 1
      OBVIOUS
    <3>2. MaxTiles \in Nat
      BY LayoutAssumption
    <3> QED BY <2>1, <3>1, <3>2 DEF TileOf
  <2>3. PICK b \in HeaderBits, d \in DataBytes : b = g.bits[i] /\ d = g.data
    BY GroupIs
  <2>4. b \in Nat /\ d \in Nat
    BY BytesAssumption
  <2>5. PICK x \in Nat \ {0}, y \in Nat \ {0} : x = Aligned(b) /\ y = Aligned(b + 1) /\ x <= y /\ (x # y => (b + 1) % ByteBits = 0)
    BY <2>4, AlignedIs
  <2>6. MeasuredSize(g, u) = 2 + (x + d)
    <3>1. TileHeaderBits(b, "NAL_SKIP_R") = b
      BY DEF TileHeaderBits, IsIrap
    <3> QED BY <1>5, <2>1, <2>2, <2>3, <2>5, <3>1 DEF MeasuredSize, UnitSize, nalHeaderSize
  <2>7. 2 + x + d < e
    BY <1>1, <2>5, SizesAssumption DEF nalHeaderSize
  <2>8. CASE IsIrap(NaluType(g, l))
    <3>1. WrittenSize(g, u) = 2 + (y + d)
      <4>1. TileHeaderBits(b, NaluType(g, l)) = b + 1
        BY <2>8 DEF TileHeaderBits
      <4> QED BY <1>5, <2>1, <2>2, <2>3, <2>5, <4>1 DEF WrittenSize, UnitSize, nalHeaderSize
    <3>2. x # y => OverBoundary(g, u)
      BY <1>5, <2>1, <2>2, <2>3, <2>5, <2>8 DEF OverBoundary
    <3>3. 2 + (x + d) # 2 + (y + d) => x # y
      OBVIOUS
    <3>4. PICK v \in Nat \ {0}, w \in Nat \ {0} : v = 2 + (x + d) /\ w = 2 + (y + d)
      BY <2>4
    <3>5. v <= w /\ v < e
      BY <2>4, <2>5, <2>7, <3>4
    <3> QED BY <1>1, <2>6, <3>1, <3>2, <3>3, <3>4, <3>5
  <2>9. CASE ~IsIrap(NaluType(g, l))
    <3>1. WrittenSize(g, u) = 2 + (x + d)
      <4>1. TileHeaderBits(b, NaluType(g, l)) = b
        BY <2>9 DEF TileHeaderBits
      <4> QED BY <1>5, <2>1, <2>2, <2>3, <2>5, <4>1 DEF WrittenSize, UnitSize, nalHeaderSize
    <3>2. PICK v \in Nat \ {0} : v = 2 + (x + d)
      BY <2>4
    <3>3. v <= v /\ v < e
      BY <2>4, <2>5, <2>7, <3>2
    <3> QED BY <1>1, <2>6, <3>1, <3>2, <3>3
  <2> QED BY <2>8, <2>9
<1> QED BY <1>2, <1>3, <1>4, <1>5

(* The units of a group are units of it. *)
LEMMA UnitsAreOfGroup ==
  ASSUME NEW g \in Groups, NEW N, NEW Q, UnitsLaid(g, N, Q), NEW k \in 1 .. Len(N)
  PROVE  UnitOf(g, N[k])
<1>1. N \in Seq(UnitNames)
  BY DEF UnitsLaid
<1>2. N[k] \in UnitNames
  BY <1>1
<1>3. PICK n \in Nat, f \in Nat : n = Layers(g) /\ f = g.afps
  BY GroupIs
<1>4. CASE k \in 1 .. 1 + f
  <2>1. N[k] = IF k = 1 THEN <<"ASPS", 1>> ELSE <<"AFPS", k - 1>>
    BY <1>3, <1>4 DEF UnitsLaid
  <2>2. N[k][1] # "TILE"
    BY <2>1
  <2> QED BY <1>2, <2>2 DEF UnitOf
<1>5. CASE k > 1 + f
  <2>1. PICK C \in Seq(Seq(UnitNames)) : /\ C = LayerList(g) /\ Len(C) = n
                                         /\ \A l \in 1 .. n : C[l] = LayerUnits(g, l)
    BY <1>3, LayerListIs
  <2>2. Laid(N, C, n, Q, 1 + f) /\ n <= Len(C)
    BY <1>3, <2>1 DEF UnitsLaid
  <2>3. k \in (1 + f) + 1 .. Len(N)
    BY <1>1, <1>5
  <2>4. PICK l \in 1 .. n : \E j \in 1 .. Len(C[l]) : k = Q[l - 1] + j /\ N[k] = C[l][j]
    BY <2>2, <2>3, PlaceIsInChunk
  <2>5. PICK j \in 1 .. Len(LayerUnits(g, l)) : N[k] = LayerUnits(g, l)[j]
    BY <2>1, <2>4
  <2>6. l \in Nat
    OBVIOUS
  <2>7. N[k] = <<"PREFIX_SEI", l>> \/ N[k] = <<"TILE", l>> \/ N[k] = <<"SUFFIX_SEI", l>>
    BY <2>5, <2>6, LayerUnitsAre
  <2>8. N[k][1] = "TILE" => N[k][2] = l
    BY <2>7
  <2> QED BY <1>2, <1>3, <2>8 DEF UnitOf
<1> QED BY <1>3, <1>4, <1>5


-----------------------------------------------------------------------------
(***************************************************************************)
(* What the reader makes of the units.                                     *)
(***************************************************************************)
Entries == [layer : Nat, prefix : Seq(UnitNames), suffix : Seq(UnitNames)]

(* the tile layer i with the messages written for it, the one behind it once read *)
Entry(g, i, behind) ==
  [layer  |-> i,
   prefix |-> IF Prefixed(g, i) THEN <<<<"PREFIX_SEI", i>>>> ELSE <<>>,
   suffix |-> IF Suffixed(g, i) /\ behind THEN <<<<"SUFFIX_SEI", i>>>> ELSE <<>>]

(* the tile layers of the list have all their messages; all but, perhaps, the ones behind *)
Complete(g, list) == \A i \in 1 .. Len(list) : list[i] = Entry(g, i, TRUE)
Begun(g, list) == \A i \in 1 .. Len(list) : list[i] = Entry(g, i, TRUE) \/ list[i] = Entry(g, i, FALSE)

(* j units of the tile layer l have been read, and all of those before it *)
InLayer(g, l, j, list, pending) ==
  /\ pending = IF 1 <= j /\ j < TilePlace(g, l) THEN <<<<"PREFIX_SEI", l>>>> ELSE <<>>
  /\ list \in Seq(Entries) /\ Len(list) = IF j < TilePlace(g, l) THEN l - 1 ELSE l
  /\ \A i \in 1 .. Len(list) : list[i] = Entry(g, i, i < l \/ j = LastPlace(g, l))

LEMMA EntryIs ==
  ASSUME NEW g, NEW i \in Nat, NEW behind
  PROVE  Entry(g, i, behind) \in Entries
<1>1. <<"PREFIX_SEI", i>> \in UnitNames /\ <<"SUFFIX_SEI", i>> \in UnitNames
  BY DEF UnitNames
<1>2. PICK a \in UnitNames, b \in UnitNames : a = <<"PREFIX_SEI", i>> /\ b = <<"SUFFIX_SEI", i>>
  BY <1>1
<1>3. <<a>> \in Seq(UnitNames) /\ <<b>> \in Seq(UnitNames) /\ <<>> \in Seq(UnitNames)
  OBVIOUS
<1>4. Entry(g, i, behind) = [layer  |-> i, prefix |-> IF Prefixed(g, i) THEN <<a>> ELSE <<>>,
                             suffix |-> IF Suffixed(g, i) /\ behind THEN <<b>> ELSE <<>>]
  BY <1>2 DEF Entry
<1>5. /\ (IF Prefixed(g, i) THEN <<a>> ELSE <<>>) \in Seq(UnitNames)
      /\ (IF Suffixed(g, i) /\ behind THEN <<b>> ELSE <<>>) \in Seq(UnitNames)
  BY <1>3
<1> QED BY <1>4, <1>5 DEF Entries

LEMMA PlacesAre ==
  ASSUME NEW g, NEW l
  PROVE  /\ TilePlace(g, l) \in 1 .. 2 /\ LastPlace(g, l) \in 1 .. 3
         /\ Prefixed(g, l) <=> TilePlace(g, l) = 2
         /\ LastPlace(g, l) = IF Suffixed(g, l) THEN TilePlace(g, l) + 1 ELSE TilePlace(g, l)
<1>1. TilePlace(g, l) = IF Prefixed(g, l) THEN 2 ELSE 1
  BY DEF TilePlace
<1>2. LastPlace(g, l) = IF Suffixed(g, l) THEN TilePlace(g, l) + 1 ELSE TilePlace(g, l) + 0
  BY DEF LastPlace
<1>3. TilePlace(g, l) \in 1 .. 2 /\ (Prefixed(g, l) <=> TilePlace(g, l) = 2)
  BY <1>1
<1>4. PICK t \in 1 .. 2 : t = TilePlace(g, l)
  BY <1>3
<1> QED BY <1>2, <1>3, <1>4

(* The first unit of a layer with a message in front is that message: it waits. *)
LEMMA MessageWaits ==
  ASSUME NEW g \in Groups, NEW l \in Nat \ {0}, NEW list, NEW pending, InLayer(g, l, 0, list, pending), Prefixed(g, l),
         NEW u, u = <<"PREFIX_SEI", l>>
  PROVE  InLayer(g, l, 1, LayersAfter(list, pending, u), PendingAfter(u[1], pending, u))
<1>1. TilePlace(g, l) = 2 /\ LastPlace(g, l) \in 2 .. 3
  BY PlacesAre
<1>2. LayersAfter(list, pending, u) = list
  BY DEF LayersAfter
<1>3. pending = <<>>
  BY DEF InLayer
<1>4. PendingAfter(u[1], pending, u) = <<u>>
  BY <1>3 DEF PendingAfter
<1>5. /\ list \in Seq(Entries) /\ Len(list) = l - 1
      /\ \A i \in 1 .. Len(list) : list[i] = Entry(g, i, i < l \/ 0 = LastPlace(g, l))
  BY <1>1 DEF InLayer
<1>6. ASSUME NEW i \in 1 .. Len(list) PROVE list[i] = Entry(g, i, i < l \/ 1 = LastPlace(g, l))
  <2>1. i < l
    BY <1>5
  <2> QED BY <1>5, <2>1
<1> QED BY <1>1, <1>2, <1>4, <1>5, <1>6 DEF InLayer

(* The tile takes the message that waits. *)
LEMMA TileTakes ==
  ASSUME NEW g \in Groups, NEW l \in Nat \ {0}, NEW j \in Nat, j + 1 = TilePlace(g, l),
         NEW list, NEW pending, InLayer(g, l, j, list, pending), NEW u, u = <<"TILE", l>>
  PROVE  InLayer(g, l, j + 1, LayersAfter(list, pending, u), PendingAfter(u[1], pending, u))
<1>1. /\ TilePlace(g, l) \in 1 .. 2 /\ (Prefixed(g, l) <=> TilePlace(g, l) = 2)
      /\ LastPlace(g, l) \in 1 .. 3
      /\ LastPlace(g, l) = IF Suffixed(g, l) THEN TilePlace(g, l) + 1 ELSE TilePlace(g, l)
  BY PlacesAre
<1>2. /\ list \in Seq(Entries) /\ Len(list) = l - 1
      /\ \A i \in 1 .. Len(list) : list[i] = Entry(g, i, i < l \/ j = LastPlace(g, l))
      /\ pending = IF 1 <= j /\ j < TilePlace(g, l) THEN <<<<"PREFIX_SEI", l>>>> ELSE <<>>
  BY DEF InLayer
<1>3. pending = IF Prefixed(g, l) THEN <<<<"PREFIX_SEI", l>>>> ELSE <<>>
  BY <1>1, <1>2
<1>4. PendingAfter(u[1], pending, u) = <<>>
  BY DEF PendingAfter
<1>5. PICK e \in Entries : e = Entry(g, l, FALSE)
  BY EntryIs
<1>6. e = [layer |-> l, prefix |-> pending, suffix |-> <<>>]
  BY <1>3, <1>5 DEF Entry
<1>7. LayersAfter(list, pending, u) = Append(list, e)
  BY <1>6 DEF LayersAfter
<1>8. PICK t \in Seq(Entries) : t = Append(list, e) /\ Len(t) = l /\ t[l] = e /\ \A i \in 1 .. l - 1 : t[i] = list[i]
  <2>1. /\ Append(list, e) \in Seq(Entries) /\ Len(Append(list, e)) = Len(list) + 1
        /\ Append(list, e)[Len(list) + 1] = e /\ \A i \in 1 .. Len(list) : Append(list, e)[i] = list[i]
    BY <1>2
  <2>2. Len(list) + 1 = l
    BY <1>2
  <2> QED BY <1>2, <2>1, <2>2
<1>9. ASSUME NEW i \in 1 .. l PROVE t[i] = Entry(g, i, i < l \/ j + 1 = LastPlace(g, l))
  <2>1. CASE i = l
    <3>1. CASE Suffixed(g, l)
      <4>1. ~(i < l \/ j + 1 = LastPlace(g, l))
        BY <1>1, <2>1, <3>1
      <4> QED BY <1>5, <1>8, <2>1, <4>1
    <3>2. CASE ~Suffixed(g, l)
      <4>1. Entry(g, l, FALSE) = Entry(g, i, i < l \/ j + 1 = LastPlace(g, l))
        BY <2>1, <3>2 DEF Entry
      <4> QED BY <1>5, <1>8, <2>1, <4>1
    <3> QED BY <3>1, <3>2
  <2>2. CASE i # l
    <3>1. i \in 1 .. l - 1 /\ i < l
      BY <2>2
    <3> QED BY <1>2, <1>8, <3>1
  <2> QED BY <2>1, <2>2
<1>10. ~(j + 1 < TilePlace(g, l))
  BY <1>1
<1> QED BY <1>4, <1>7, <1>8, <1>9, <1>10 DEF InLayer

(* A message behind the tile is added to the tile read last. *)
LEMMA MessageIsAdded ==
  ASSUME NEW g \in Groups, NEW l \in Nat \ {0}, NEW j \in Nat, j = TilePlace(g, l), Suffixed(g, l),
         NEW list, NEW pending, InLayer(g, l, j, list, pending), NEW u, u = <<"SUFFIX_SEI", l>>
  PROVE  InLayer(g, l, j + 1, LayersAfter(list, pending, u), PendingAfter(u[1], pending, u))
<1>1. TilePlace(g, l) \in 1 .. 2 /\ LastPlace(g, l) = j + 1
  BY PlacesAre
<1>2. /\ list \in Seq(Entries) /\ Len(list) = l
      /\ \A i \in 1 .. Len(list) : list[i] = Entry(g, i, i < l \/ j = LastPlace(g, l))
      /\ pending = <<>>
  BY DEF InLayer
<1>3. PendingAfter(u[1], pending, u) = <<>>
  BY <1>2 DEF PendingAfter
<1>4. l \in 1 .. l /\ list[l] = Entry(g, l, FALSE)
  <2>1. l \in 1 .. l /\ ~(l < l \/ j = LastPlace(g, l))
    BY <1>1
  <2> QED BY <1>2, <2>1
<1>5. PICK e \in Entries : e = Entry(g, l, TRUE)
  BY EntryIs
<1>6. [list[l] EXCEPT !.suffix = Append(@, u)] = e
  <2>1. Append(<<>>, u) = <<u>>
    OBVIOUS
  <2>2. list[l] = [layer |-> l, prefix |-> IF Prefixed(g, l) THEN <<<<"PREFIX_SEI", l>>>> ELSE <<>>, suffix |-> <<>>]
    BY <1>4 DEF Entry
  <2>3. e = [layer |-> l, prefix |-> IF Prefixed(g, l) THEN <<<<"PREFIX_SEI", l>>>> ELSE <<>>, suffix |-> <<u>>]
    BY <1>5 DEF Entry
  <2> QED BY <2>1, <2>2, <2>3
<1>7. LayersAfter(list, pending, u) = [list EXCEPT ![l] = e]
  BY <1>2, <1>6 DEF LayersAfter
<1>8. PICK t \in Seq(Entries) : t = [list EXCEPT ![l] = e] /\ Len(t) = l /\ t[l] = e /\ \A i \in 1 .. l - 1 : t[i] = list[i]
  <2>1. PICK s \in Seq(Entries) : s = list /\ Len(s) = l
    BY <1>2
  <2>2. PICK t : t = [s EXCEPT ![l] = e]
    OBVIOUS
  <2>3. DOMAIN s = 1 .. l /\ \A i \in 1 .. l : s[i] \in Entries
    BY <2>1
  <2>4. t = [i \in 1 .. l |-> t[i]] /\ t[l] = e /\ \A i \in 1 .. l : i # l => t[i] = s[i]
    <3>1. t = [i \in DOMAIN s |-> IF i = l THEN e ELSE s[i]]
      BY <2>2
    <3>2. t = [i \in 1 .. l |-> IF i = l THEN e ELSE s[i]]
      BY <2>3, <3>1
    <3>3. \A i \in 1 .. l : t[i] = IF i = l THEN e ELSE s[i]
      BY <3>2
    <3>4. t = [i \in 1 .. l |-> t[i]]
      BY <3>2
    <3> QED BY <1>4, <3>3, <3>4
  <2>5. \A i \in 1 .. l : t[i] \in Entries
    BY <1>5, <2>3, <2>4
  <2>6. t \in Seq(Entries) /\ Len(t) = l
    BY <2>4, <2>5, IsSeq
  <2> QED BY <2>1, <2>2, <2>4, <2>6
<1>9. ASSUME NEW i \in 1 .. l PROVE t[i] = Entry(g, i, i < l \/ j + 1 = LastPlace(g, l))
  <2>1. CASE i = l
    BY <1>1, <1>5, <1>8, <2>1
  <2>2. CASE i # l
    <3>1. i \in 1 .. l - 1 /\ i < l
      BY <2>2
    <3> QED BY <1>2, <1>8, <3>1
  <2> QED BY <2>1, <2>2
<1>10. ~(j + 1 < TilePlace(g, l))
  BY <1>1
<1> QED BY <1>3, <1>7, <1>8, <1>9, <1>10 DEF InLayer

(* One more unit of a tile layer. *)
LEMMA LayerStep ==
  ASSUME NEW g \in Groups, NEW l \in Nat \ {0}, NEW j \in Nat, j < LastPlace(g, l),
         NEW list, NEW pending, InLayer(g, l, j, list, pending), NEW u, u = LayerUnits(g, l)[j + 1]
  PROVE  InLayer(g, l, j + 1, LayersAfter(list, pending, u), PendingAfter(u[1], pending, u))
<1>1. /\ TilePlace(g, l) \in 1 .. 2 /\ (Prefixed(g, l) <=> TilePlace(g, l) = 2)
      /\ LastPlace(g, l) \in 1 .. 3
      /\ LastPlace(g, l) = IF Suffixed(g, l) THEN TilePlace(g, l) + 1 ELSE TilePlace(g, l)
  BY PlacesAre
<1>2. PICK t \in 1 .. 2, e \in 1 .. 3 : t = TilePlace(g, l) /\ e = LastPlace(g, l)
  BY <1>1
<1>3. j + 1 \in 1 .. e /\ l \in Nat
  BY <1>2
<1>4. u = IF j + 1 < t THEN <<"PREFIX_SEI", l>> ELSE IF j + 1 = t THEN <<"TILE", l>> ELSE <<"SUFFIX_SEI", l>>
  BY <1>2, <1>3, LayerUnitsAre
<1>5. CASE j + 1 < t
  <2>1. j = 0 /\ t = 2 /\ Prefixed(g, l) /\ u = <<"PREFIX_SEI", l>> /\ j + 1 = 1
    BY <1>1, <1>2, <1>4, <1>5
  <2> QED BY <2>1, MessageWaits
<1>6. CASE j + 1 = t
  <2>1. j + 1 = TilePlace(g, l) /\ u = <<"TILE", l>>
    BY <1>2, <1>4, <1>6
  <2> QED BY <2>1, TileTakes
<1>7. CASE j + 1 > t
  <2>1. j = TilePlace(g, l) /\ Suffixed(g, l) /\ u = <<"SUFFIX_SEI", l>>
    BY <1>1, <1>2, <1>3, <1>4, <1>7
  <2> QED BY <2>1, MessageIsAdded
<1> QED BY <1>2, <1>5, <1>6, <1>7

(* The end of a layer is the beginning of the next one. *)
LEMMA NextLayer ==
  ASSUME NEW g \in Groups, NEW l \in Nat \ {0}, NEW list, NEW pending, InLayer(g, l, LastPlace(g, l), list, pending)
  PROVE  InLayer(g, l + 1, 0, list, pending)
<1>1. TilePlace(g, l + 1) \in 1 .. 2 /\ LastPlace(g, l + 1) \in 1 .. 3
  BY PlacesAre
<1>2. TilePlace(g, l) \in 1 .. 2 /\ LastPlace(g, l) \in 1 .. 3 /\ ~(LastPlace(g, l) < TilePlace(g, l))
  BY PlacesAre
<1>3. /\ list \in Seq(Entries) /\ Len(list) = l /\ pending = <<>>
      /\ \A i \in 1 .. Len(list) : list[i] = Entry(g, i, i < l \/ LastPlace(g, l) = LastPlace(g, l))
  BY <1>2 DEF InLayer
<1>4. ASSUME NEW i \in 1 .. Len(list) PROVE list[i] = Entry(g, i, i < l + 1 \/ 0 = LastPlace(g, l + 1))
  <2>1. i < l + 1
    BY <1>3
  <2> QED BY <1>3, <2>1
<1>5. Len(list) = (l + 1) - 1
  BY <1>3
<1> QED BY <1>1, <1>3, <1>4, <1>5 DEF InLayer


(* what the reader has after k units: the parameter sets, the tile layers, the messages
   that wait *)
ReadAt(g, Q, k, a, f, list, pending) ==
  /\ a = IF k = 0 THEN 0 ELSE 1
  /\ f = IF k <= 1 THEN 0 ELSE IF k <= 1 + g.afps THEN k - 1 ELSE g.afps
  /\ \/ k < 1 + g.afps /\ list = <<>> /\ pending = <<>>
     \/ \E l \in 1 .. Layers(g) : \E j \in 0 .. LastPlace(g, l) : k = Q[l - 1] + j /\ InLayer(g, l, j, list, pending)

(* where the tile layers of a group begin and end *)
LEMMA LayersAreAt ==
  ASSUME NEW g \in Groups, NEW N, NEW Q, UnitsLaid(g, N, Q)
  PROVE  /\ Q[0] = 1 + g.afps /\ Q[0] \in Nat
         /\ \A l \in 1 .. Layers(g) :
              /\ Q[l - 1] \in Nat /\ Q[l - 1] >= 1 + g.afps /\ Q[l] = Q[l - 1] + LastPlace(g, l)
              /\ Q[l] \in Nat /\ Q[l] <= Len(N)
              /\ \A j \in 1 .. LastPlace(g, l) : N[Q[l - 1] + j] = LayerUnits(g, l)[j]
         /\ Q[Layers(g)] = Len(N) /\ Len(N) \in Nat
<1>1. PICK n \in Nat \ {0}, f \in Nat : n = Layers(g) /\ f = g.afps
  BY GroupIs
<1>2. PICK C \in Seq(Seq(UnitNames)) : /\ C = LayerList(g) /\ Len(C) = n
                                       /\ \A l \in 1 .. n : C[l] = LayerUnits(g, l) /\ Len(C[l]) = LastPlace(g, l)
  BY <1>1, LayerListIs
<1>3. Laid(N, C, n, Q, 1 + f) /\ n <= Len(C)
  BY <1>1, <1>2 DEF UnitsLaid
<1>4. Q \in [0 .. n -> Nat] /\ Q[0] = 1 + f /\ Q[n] = Len(N)
  BY <1>3 DEF Laid
<1>5. ASSUME NEW l \in 1 .. n
      PROVE  /\ Q[l - 1] \in Nat /\ Q[l - 1] >= 1 + f /\ Q[l] = Q[l - 1] + LastPlace(g, l)
             /\ Q[l] \in Nat /\ Q[l] <= Len(N)
             /\ \A j \in 1 .. LastPlace(g, l) : N[Q[l - 1] + j] = LayerUnits(g, l)[j]
  <2>1. l - 1 \in 0 .. n /\ 0 \in 0 .. n /\ l - 1 \in 0 .. n /\ l \in 0 .. n /\ n \in l .. n /\ l - 1 \in 0 .. n
    OBVIOUS
  <2>2. Q[0] <= Q[l - 1]
    BY <1>3, <2>1, PlacesGrow
  <2>3. Q[l] <= Q[n]
    BY <1>3, <2>1, PlacesGrow
  <2>4. Q[l - 1] \in Nat /\ Q[l] \in Nat /\ Q[0] \in Nat
    BY <1>4, <2>1
  <2>5. Q[l] = Q[l - 1] + Len(C[l]) /\ Holds(N, Q[l - 1], C[l])
    BY <1>3, ChunkIsHeld
  <2>6. \A j \in 1 .. LastPlace(g, l) : N[Q[l - 1] + j] = LayerUnits(g, l)[j]
    BY <1>2, <2>5 DEF Holds
  <2> QED BY <1>2, <1>4, <2>2, <2>3, <2>4, <2>5, <2>6
<1>6. n \in 0 .. n /\ 0 \in 0 .. n
  OBVIOUS
<1> QED BY <1>1, <1>4, <1>5, <1>6

(* Nothing read yet. *)
LEMMA NothingReadYet ==
  ASSUME NEW g \in Groups, NEW Q
  PROVE  ReadAt(g, Q, 0, 0, 0, <<>>, <<>>)
<1>1. g.afps \in Nat
  BY GroupIs
<1> QED BY <1>1 DEF ReadAt

(* One more unit. *)
LEMMA ReadStep ==
  ASSUME NEW g \in Groups, NEW N, NEW Q, UnitsLaid(g, N, Q), NEW k \in Nat, k < Len(N),
         NEW a, NEW f, NEW list, NEW pending, ReadAt(g, Q, k, a, f, list, pending), NEW u, u = N[k + 1]
  PROVE  ReadAt(g, Q, k + 1, IF u[1] = "ASPS" THEN a + 1 ELSE a, IF u[1] = "AFPS" THEN f + 1 ELSE f,
                LayersAfter(list, pending, u), PendingAfter(u[1], pending, u))
<1>1. PICK n \in Nat \ {0}, h \in Nat \ {0} : n = Layers(g) /\ h = g.afps
  BY GroupIs
<1>2. PICK m \in Nat : m = Len(N)
  BY LayersAreAt
<1>3. /\ a = IF k = 0 THEN 0 ELSE 1
      /\ f = IF k <= 1 THEN 0 ELSE IF k <= 1 + h THEN k - 1 ELSE h
  BY <1>1 DEF ReadAt
<1> DEFINE a1 == IF u[1] = "ASPS" THEN a + 1 ELSE a
           f1 == IF u[1] = "AFPS" THEN f + 1 ELSE f
<1>4. CASE k < 1 + h
  <2>1. u = IF k = 0 THEN <<"ASPS", 1>> ELSE <<"AFPS", k>>
    <3>1. k + 1 \in 1 .. 1 + h /\ (k + 1 = 1 <=> k = 0) /\ (k + 1) - 1 = k
      BY <1>4
    <3>2. N[k + 1] = IF k + 1 = 1 THEN <<"ASPS", 1>> ELSE <<"AFPS", (k + 1) - 1>>
      BY <1>1, <3>1 DEF UnitsLaid
    <3> QED BY <3>1, <3>2
  <2>2. u[1] = IF k = 0 THEN "ASPS" ELSE "AFPS"
    BY <2>1
  <2>3. a1 = IF k + 1 = 0 THEN 0 ELSE 1
    BY <1>3, <2>2
  <2>4. f1 = IF k + 1 <= 1 THEN 0 ELSE IF k + 1 <= 1 + h THEN (k + 1) - 1 ELSE h
    BY <1>3, <1>4, <2>2
  <2>5. list = <<>> /\ pending = <<>>
    <3>1. ASSUME NEW l \in 1 .. n, NEW j \in 0 .. LastPlace(g, l), k = Q[l - 1] + j PROVE FALSE
      <4>1. Q[l - 1] \in Nat /\ Q[l - 1] >= 1 + h
        BY <1>1, LayersAreAt
      <4>2. j \in Nat
        BY PlacesAre
      <4> QED BY <1>4, <3>1, <4>1, <4>2
    <3> QED BY <1>1, <3>1 DEF ReadAt
  <2>6. LayersAfter(list, pending, u) = <<>> /\ PendingAfter(u[1], pending, u) = <<>>
    BY <2>2, <2>5 DEF LayersAfter, PendingAfter
  <2>7. CASE k + 1 < 1 + h
    BY <1>1, <2>3, <2>4, <2>6, <2>7 DEF ReadAt
  <2>8. CASE k + 1 = 1 + h
    <3>1. InLayer(g, 1, 0, <<>>, <<>>)
      <4>1. TilePlace(g, 1) \in 1 .. 2
        BY PlacesAre
      <4>2. <<>> \in Seq(Entries) /\ Len(<<>>) = 0
        OBVIOUS
      <4> QED BY <4>1, <4>2 DEF InLayer
    <3>2. 1 \in 1 .. n /\ 0 \in 0 .. LastPlace(g, 1) /\ k + 1 = Q[1 - 1] + 0
      <4>1. Q[0] = 1 + h
        BY <1>1, LayersAreAt
      <4>2. LastPlace(g, 1) \in 1 .. 3
        BY PlacesAre
      <4> QED BY <2>8, <4>1, <4>2
    <3> QED BY <1>1, <2>3, <2>4, <2>6, <3>1, <3>2 DEF ReadAt
  <2> QED BY <1>4, <2>7, <2>8
<1>5. CASE ~(k < 1 + h)
  <2>1. PICK l \in 1 .. n : \E j \in 0 .. LastPlace(g, l) : k = Q[l - 1] + j /\ InLayer(g, l, j, list, pending)
    BY <1>1, <1>5 DEF ReadAt
  <2>2. PICK j \in 0 .. LastPlace(g, l) : k = Q[l - 1] + j /\ InLayer(g, l, j, list, pending)
    BY <2>1
  <2>3. \E x \in 1 .. n : \E y \in Nat : y < LastPlace(g, x) /\ k = Q[x - 1] + y /\ InLayer(g, x, y, list, pending)
    <3>1. PICK e \in 1 .. 3 : e = LastPlace(g, l)
      BY PlacesAre
    <3>2. CASE j < e
      BY <2>2, <3>1, <3>2
    <3>3. CASE j = e
      <4>1. Q[l] = k /\ Q[n] = m
        <5>1. Q[l] = Q[l - 1] + LastPlace(g, l)
          BY <1>1, LayersAreAt
        <5>2. Q[n] = m
          BY <1>1, <1>2, LayersAreAt
        <5> QED BY <2>2, <3>1, <3>3, <5>1, <5>2
      <4>2. PICK x \in 1 .. n : x = l + 1 /\ x - 1 = l
        <5>1. l # n
          BY <1>2, <4>1
        <5> QED BY <5>1
      <4>3. InLayer(g, x, 0, list, pending)
        <5>1. l \in Nat \ {0} /\ InLayer(g, l, LastPlace(g, l), list, pending)
          BY <2>2, <3>1, <3>3
        <5> QED BY <4>2, <5>1, NextLayer
      <4>4. 0 < LastPlace(g, x) /\ k = Q[x - 1] + 0
        BY <4>1, <4>2, PlacesAre
      <4> QED BY <4>3, <4>4
    <3> QED BY <3>1, <3>2, <3>3
  <2>4. PICK x \in 1 .. n, y \in Nat : y < LastPlace(g, x) /\ k = Q[x - 1] + y /\ InLayer(g, x, y, list, pending)
    BY <2>3
  <2>5. PICK e \in 1 .. 3 : e = LastPlace(g, x)
    BY PlacesAre
  <2>6. PICK q \in Nat : q = Q[x - 1] /\ q >= 1 + h /\ \A i \in 1 .. e : N[q + i] = LayerUnits(g, x)[i]
    <3>1. Q[x - 1] \in Nat /\ Q[x - 1] >= 1 + h
      BY <1>1, LayersAreAt
    <3>2. \A i \in 1 .. LastPlace(g, x) : N[Q[x - 1] + i] = LayerUnits(g, x)[i]
      BY <1>1, LayersAreAt
    <3> QED BY <2>5, <3>1, <3>2
  <2>7. k + 1 = q + (y + 1) /\ y + 1 \in 1 .. e /\ y + 1 \in 0 .. e
    <3>1. k = q + y
      BY <2>4, <2>6
    <3>2. y < e
      BY <2>4, <2>5
    <3> QED BY <3>1, <3>2
  <2>8. u = LayerUnits(g, x)[y + 1]
    BY <2>6, <2>7
  <2>9. InLayer(g, x, y + 1, LayersAfter(list, pending, u), PendingAfter(u[1], pending, u))
    <3>1. x \in Nat \ {0}
      OBVIOUS
    <3> QED BY <2>4, <2>8, <3>1, LayerStep
  <2>10. u[1] \notin {"ASPS", "AFPS"}
    <3>1. x \in Nat /\ y + 1 \in 1 .. LastPlace(g, x)
      BY <2>5, <2>7
    <3>2. u = <<"PREFIX_SEI", x>> \/ u = <<"TILE", x>> \/ u = <<"SUFFIX_SEI", x>>
      BY <2>8, <3>1, LayerUnitsAre
    <3> QED BY <3>2
  <2>11. a1 = IF k + 1 = 0 THEN 0 ELSE 1
    BY <1>3, <1>5, <2>10
  <2>12. f1 = IF k + 1 <= 1 THEN 0 ELSE IF k + 1 <= 1 + h THEN (k + 1) - 1 ELSE h
    BY <1>3, <1>5, <2>10
  <2>13. k + 1 = Q[x - 1] + (y + 1) /\ y + 1 \in 0 .. LastPlace(g, x)
    BY <2>5, <2>6, <2>7
  <2> QED BY <1>1, <2>9, <2>11, <2>12, <2>13 DEF ReadAt
<1> QED BY <1>4, <1>5

(* What is known of the reader wherever it is. *)
LEMMA ReaderIs ==
  ASSUME NEW g \in Groups, NEW N, NEW Q, UnitsLaid(g, N, Q), NEW k \in Nat, k <= Len(N),
         NEW a, NEW f, NEW list, NEW pending, ReadAt(g, Q, k, a, f, list, pending)
  PROVE  /\ a \in 0 .. 1 /\ f \in 0 .. g.afps
         /\ pending \in Seq(UnitNames) /\ Len(pending) <= 1
         /\ list \in Seq(Entries) /\ Len(list) <= Layers(g)
         /\ Begun(g, list)
<1>1. PICK n \in Nat \ {0}, h \in Nat \ {0} : n = Layers(g) /\ h = g.afps
  BY GroupIs
<1>2. a \in 0 .. 1 /\ f \in 0 .. h
  BY <1>1 DEF ReadAt
<1>3. CASE list = <<>> /\ pending = <<>>
  BY <1>1, <1>2, <1>3 DEF Begun
<1>4. ASSUME NEW l \in 1 .. n, NEW j \in 0 .. LastPlace(g, l), InLayer(g, l, j, list, pending)
      PROVE  /\ pending \in Seq(UnitNames) /\ Len(pending) <= 1
             /\ list \in Seq(Entries) /\ Len(list) <= n
             /\ Begun(g, list)
  <2>1. PICK e \in UnitNames : e = <<"PREFIX_SEI", l>>
    <3>1. <<"PREFIX_SEI", l>> \in UnitNames
      BY DEF UnitNames
    <3> QED BY <3>1
  <2>2. <<e>> \in Seq(UnitNames) /\ Len(<<e>>) = 1 /\ <<>> \in Seq(UnitNames) /\ Len(<<>>) = 0
    OBVIOUS
  <2>3. pending = <<e>> \/ pending = <<>>
    BY <1>4, <2>1 DEF InLayer
  <2>4. pending \in Seq(UnitNames) /\ Len(pending) <= 1
    <3>1. CASE pending = <<e>>
      BY <2>2, <3>1
    <3>2. CASE pending = <<>>
      BY <2>2, <3>2
    <3> QED BY <2>3, <3>1, <3>2
  <2>5. list \in Seq(Entries) /\ Len(list) <= n
    BY <1>4 DEF InLayer
  <2>6. Begun(g, list)
    <3>1. ASSUME NEW i \in 1 .. Len(list) PROVE list[i] = Entry(g, i, TRUE) \/ list[i] = Entry(g, i, FALSE)
      <4>1. list[i] = Entry(g, i, i < l \/ j = LastPlace(g, l))
        BY <1>4 DEF InLayer
      <4>2. CASE i < l \/ j = LastPlace(g, l)
        <5>1. Entry(g, i, i < l \/ j = LastPlace(g, l)) = Entry(g, i, TRUE)
          BY <4>2 DEF Entry
        <5> QED BY <4>1, <5>1
      <4>3. CASE ~(i < l \/ j = LastPlace(g, l))
        <5>1. Entry(g, i, i < l \/ j = LastPlace(g, l)) = Entry(g, i, FALSE)
          BY <4>3 DEF Entry
        <5> QED BY <4>1, <5>1
      <4> QED BY <4>2, <4>3
    <3> QED BY <3>1 DEF Begun
  <2> QED BY <2>4, <2>5, <2>6
<1> QED BY <1>1, <1>2, <1>3, <1>4 DEF ReadAt

(* Everything read: all tile layers with their messages, and no message left. *)
LEMMA AllIsRead ==
  ASSUME NEW g \in Groups, NEW N, NEW Q, UnitsLaid(g, N, Q), NEW k \in Nat, k = Len(N),
         NEW a, NEW f, NEW list, NEW pending, ReadAt(g, Q, k, a, f, list, pending)
  PROVE  /\ a = 1 /\ f = g.afps /\ pending = <<>>
         /\ list \in Seq(Entries) /\ Len(list) = Layers(g)
         /\ Complete(g, list)
<1>1. PICK n \in Nat \ {0}, h \in Nat \ {0} : n = Layers(g) /\ h = g.afps
  BY GroupIs
<1>2. Q[n] = k
  BY <1>1, LayersAreAt
<1>3. k > 1 + h
  <2>1. PICK q \in Nat, e \in 1 .. 3 : q = Q[n - 1] /\ e = LastPlace(g, n) /\ q >= 1 + h /\ Q[n] = q + e
    <3>1. n \in 1 .. n
      OBVIOUS
    <3>2. Q[n - 1] \in Nat /\ Q[n - 1] >= 1 + h /\ Q[n] = Q[n - 1] + LastPlace(g, n)
      BY <1>1, <3>1, LayersAreAt
    <3>3. LastPlace(g, n) \in 1 .. 3
      BY PlacesAre
    <3> QED BY <3>2, <3>3
  <2> QED BY <1>2, <2>1
<1>4. a = 1 /\ f = h
  BY <1>1, <1>3 DEF ReadAt
<1>5. PICK l \in 1 .. n : \E j \in 0 .. LastPlace(g, l) : k = Q[l - 1] + j /\ InLayer(g, l, j, list, pending)
  BY <1>1, <1>3 DEF ReadAt
<1>6. PICK j \in 0 .. LastPlace(g, l) : k = Q[l - 1] + j /\ InLayer(g, l, j, list, pending)
  BY <1>5
<1>7. PICK e \in 1 .. 3 : e = LastPlace(g, l)
  BY PlacesAre
<1>8. PICK q \in Nat, r \in Nat : q = Q[l - 1] /\ r = Q[l] /\ r = q + e /\ r <= k
  BY <1>1, <1>7, LayersAreAt
<1>9. j = e /\ r = k
  BY <1>6, <1>7, <1>8
<1>10. l = n
  <2>1. ASSUME l # n PROVE FALSE
    <3>1. PICK m \in 1 .. n : m = l + 1 /\ m - 1 = l
      BY <2>1
    <3>2. PICK c \in 1 .. 3 : c = LastPlace(g, m)
      BY PlacesAre
    <3>3. Q[m] = Q[m - 1] + LastPlace(g, m) /\ Q[m] <= k
      BY <1>1, LayersAreAt
    <3>4. Q[m] = k + c
      BY <1>8, <1>9, <3>1, <3>2, <3>3
    <3> QED BY <3>3, <3>4
  <2> QED BY <2>1
<1>11. TilePlace(g, l) \in 1 .. 2 /\ ~(e < TilePlace(g, l))
  BY <1>7, PlacesAre
<1>12. pending = <<>> /\ list \in Seq(Entries) /\ Len(list) = n
  BY <1>6, <1>9, <1>10, <1>11 DEF InLayer
<1>13. ASSUME NEW i \in 1 .. Len(list) PROVE list[i] = Entry(g, i, TRUE)
  <2>1. list[i] = Entry(g, i, i < l \/ j = LastPlace(g, l))
    BY <1>6 DEF InLayer
  <2>2. j = LastPlace(g, l)
    BY <1>7, <1>9
  <2>3. Entry(g, i, i < l \/ j = LastPlace(g, l)) = Entry(g, i, TRUE)
    BY <2>2 DEF Entry
  <2> QED BY <2>1, <2>3
<1> QED BY <1>1, <1>4, <1>12, <1>13 DEF Complete


-----------------------------------------------------------------------------
(***************************************************************************)
(* The sub-stream.                                                         *)
(***************************************************************************)
NalBytes == StreamBytes(UnitNames)

NalChunk(g, p, u) == UnitChunk(MeasuredSize(g, u), p, u, WrittenSize(g, u))

(* the units of a group, each behind its size field *)
NalChunks(g, p) == [k \in 1 .. Len(NalUnits(g)) |-> NalChunk(g, p, NalUnits(g)[k])]

LayerEnds(g) == CHOOSE Q : UnitsLaid(g, NalUnits(g), Q)

LEMMA GroupUnitsAre ==
  ASSUME NEW g \in Groups
  PROVE  /\ UnitsLaid(g, NalUnits(g), LayerEnds(g)) /\ NalUnits(g) \in Seq(UnitNames)
         /\ Len(NalUnits(g)) \in Nat \ {0}
         /\ \A k \in 1 .. Len(NalUnits(g)) : UnitOf(g, NalUnits(g)[k])
<1>1. UnitsLaid(g, NalUnits(g), LayerEnds(g))
  BY NalUnitsAre DEF LayerEnds
<1>2. NalUnits(g) \in Seq(UnitNames)
  BY <1>1 DEF UnitsLaid
<1>3. Len(NalUnits(g)) \in Nat \ {0}
  <2>1. PICK n \in Nat \ {0}, f \in Nat \ {0} : n = Layers(g) /\ f = g.afps
    BY GroupIs
  <2>2. n \in 1 .. n
    OBVIOUS
  <2>3. LayerEnds(g)[n] <= Len(NalUnits(g)) /\ LayerEnds(g)[n] = LayerEnds(g)[n - 1] + LastPlace(g, n)
        /\ LayerEnds(g)[n - 1] \in Nat
    BY <1>1, <2>1, <2>2, LayersAreAt
  <2>4. LastPlace(g, n) \in 1 .. 3 /\ Len(NalUnits(g)) \in Nat
    BY <1>2, PlacesAre
  <2> QED BY <2>3, <2>4
<1>4. \A k \in 1 .. Len(NalUnits(g)) : UnitOf(g, NalUnits(g)[k])
  BY <1>1, UnitsAreOfGroup
<1> QED BY <1>1, <1>2, <1>3, <1>4

LEMMA NalChunksAre ==
  ASSUME NEW g \in Groups, NEW p \in Nat
  PROVE  /\ NalChunks(g, p) \in Seq(Seq(NalBytes)) /\ Len(NalChunks(g, p)) = Len(NalUnits(g))
         /\ \A k \in 1 .. Len(NalUnits(g)) :
              /\ NalChunks(g, p)[k] = NalChunk(g, p, NalUnits(g)[k])
              /\ Len(NalChunks(g, p)[k]) = p + WrittenSize(g, NalUnits(g)[k])
              /\ WrittenSize(g, NalUnits(g)[k]) \in Nat \ {0}
<1>1. PICK N \in Seq(UnitNames), n \in Nat : N = NalUnits(g) /\ n = Len(N) /\ \A k \in 1 .. n : UnitOf(g, N[k])
  BY GroupUnitsAre
<1>2. ASSUME NEW k \in 1 .. n
      PROVE  /\ NalChunk(g, p, N[k]) \in Seq(NalBytes) /\ Len(NalChunk(g, p, N[k])) = p + WrittenSize(g, N[k])
             /\ WrittenSize(g, N[k]) \in Nat \ {0}
  <2>1. UnitOf(g, N[k])
    BY <1>1
  <2>2. PICK u \in UnitNames : u = N[k]
    BY <2>1 DEF UnitOf
  <2>3. PICK v \in Nat \ {0}, w \in Nat \ {0} : v = MeasuredSize(g, u) /\ w = WrittenSize(g, u)
    BY <2>1, <2>2, UnitSizesAre
  <2>4. w \in Nat /\ v \in Nat
    OBVIOUS
  <2>5. UnitChunk(v, p, u, w) \in Seq(StreamBytes(UnitNames))
    BY <2>4, UnitChunkIs
  <2>6. Len(UnitChunk(v, p, u, w)) = p + w
    BY <2>4, UnitChunkIs
  <2> QED BY <2>2, <2>3, <2>5, <2>6 DEF NalChunk, NalBytes
<1>3. PICK C : C = NalChunks(g, p)
  OBVIOUS
<1>4. /\ \A k \in 1 .. n : C[k] = NalChunk(g, p, N[k])
      /\ C = [k \in 1 .. n |-> C[k]]
  BY <1>1, <1>3 DEF NalChunks
<1>5. \A k \in 1 .. n : C[k] \in Seq(NalBytes)
  BY <1>2, <1>4
<1>6. C \in Seq(Seq(NalBytes)) /\ Len(C) = n
  BY <1>4, <1>5
<1> QED BY <1>1, <1>2, <1>3, <1>4, <1>6

(* the size fields are wide enough for what the first pass has measured *)
FieldsFit(g, p) == p \in 1 .. 4 /\ \A k \in 1 .. Len(NalUnits(g)) : MeasuredSize(g, NalUnits(g)[k]) < Power(Base, p)

LEMMA FieldsAreWideEnough ==
  ASSUME NEW g \in Groups
  PROVE  FieldsFit(g, BytesFor(MaxMeasured(g) + 1))
<1>1. PICK N \in Seq(UnitNames), n \in Nat \ {0} : N = NalUnits(g) /\ n = Len(N) /\ \A k \in 1 .. n : UnitOf(g, N[k])
  BY GroupUnitsAre
<1>2. PICK e \in Nat : e = UnsignedLimit - 1
  BY UnsignedLimitIs
<1>3. \A k \in 1 .. n : MeasuredSize(g, N[k]) \in Nat /\ MeasuredSize(g, N[k]) < e
  BY <1>1, <1>2, UnitSizesAre
<1> DEFINE S == {MeasuredSize(g, NalUnits(g)[i]) : i \in DOMAIN NalUnits(g)}
<1>4. DOMAIN NalUnits(g) = 1 .. n /\ 1 \in 1 .. n
  BY <1>1
<1>5. S \subseteq Nat /\ S # {} /\ \A y \in S : y <= e /\ y < e
  BY <1>1, <1>2, <1>3, <1>4
<1>6. Max(S) \in S /\ \A y \in S : y <= Max(S)
  <2> HIDE DEF S
  <2> QED BY <1>5, MaxIs
<1>7. PICK m \in Nat : m = MaxMeasured(g) /\ m < e /\ \A k \in 1 .. n : MeasuredSize(g, N[k]) <= m
  <2>1. MaxMeasured(g) = Max(S)
    BY DEF MaxMeasured
  <2>2. \A k \in 1 .. n : MeasuredSize(g, N[k]) \in S
    BY <1>1, <1>4
  <2> HIDE DEF S
  <2> QED BY <1>5, <1>6, <2>1, <2>2
<1>8. PICK x \in Nat \ {0} : x = m + 1 /\ x <= e
  BY <1>7
<1>9. BytesFor(x) \in 1 .. 4 /\ x <= Power(Base, BytesFor(x))
  <2>1. x <= UnsignedLimit
    BY <1>2, <1>8, UnsignedLimitIs
  <2> QED BY <2>1, BytesForIs
<1>10. PICK p \in 1 .. 4 : p = BytesFor(x) /\ x <= Power(Base, p)
  BY <1>9
<1>11. Power(Base, p) \in Nat
  <2>1. Base \in Nat \ {0} /\ p \in Nat
    BY BaseIs
  <2> QED BY <2>1, PowerIs
<1>12. ASSUME NEW k \in 1 .. n PROVE MeasuredSize(g, N[k]) < Power(Base, p)
  <2>1. MeasuredSize(g, N[k]) \in Nat /\ MeasuredSize(g, N[k]) <= m
    BY <1>3, <1>7
  <2> QED BY <1>8, <1>10, <1>11, <2>1
<1> QED BY <1>1, <1>7, <1>8, <1>10, <1>12 DEF FieldsFit

readerHas(k) == ReadAt(group, LayerEnds(group), k, asps, afps, tileLayers, prefixSEI)

(* the sub-stream is laid out unit by unit, and the reader, which may be lost, is at the
   end of a unit *)
SubStreamLaid ==
  phase # "measure" =>
    /\ FieldsFit(group, precision)
    /\ \E P : /\ Laid(stream, NalChunks(group, precision), written, P, 1)
              /\ phase # "write" => \E k \in 0 .. Len(NalUnits(group)) : pos = P[k] /\ readerHas(k)

SubStreamPhases ==
  /\ phase \in {"measure", "write", "read", "reconstruct", "done", "lost"}
  /\ written \in 0 .. Len(NalUnits(group))
  /\ phase = "measure" => written = 0 /\ precision = 0
  /\ phase \in {"measure", "write"} => /\ pos = 0 /\ asps = 0 /\ afps = 0
                                       /\ tileLayers = <<>> /\ prefixSEI = <<>>
  /\ phase \notin {"measure", "write"} => written = Len(NalUnits(group))
  /\ phase \in {"reconstruct", "done"} => readerHas(Len(NalUnits(group)))

AppliedInv == /\ applied \in Seq(BOOLEAN) /\ SmoothingPersists

SubStreamInv ==
  /\ group \in Groups /\ stream \in Seq(NalBytes)
  /\ SubStreamPhases /\ SubStreamLaid /\ AppliedInv /\ OnlyBoundaryFails

LEMMA SubStreamInitInv == Init => SubStreamInv
<1> SUFFICES ASSUME Init PROVE SubStreamInv
  OBVIOUS
<1>1. /\ group \in Groups /\ phase = "measure" /\ written = 0 /\ precision = 0 /\ stream = <<>>
      /\ pos = 0 /\ prefixSEI = <<>> /\ asps = 0 /\ afps = 0 /\ tileLayers = <<>> /\ applied = <<>>
  BY DEF Init
<1>2. 0 \in 0 .. Len(NalUnits(group))
  <2>1. Len(NalUnits(group)) \in Nat
    BY <1>1, GroupUnitsAre
  <2> QED BY <2>1
<1>3. SubStreamPhases
  BY <1>1, <1>2 DEF SubStreamPhases
<1>4. SubStreamLaid /\ OnlyBoundaryFails
  BY <1>1 DEF SubStreamLaid, OnlyBoundaryFails
<1>5. AppliedInv
  BY <1>1 DEF AppliedInv, SmoothingPersists
<1>6. stream \in Seq(NalBytes)
  BY <1>1
<1> QED BY <1>1, <1>3, <1>4, <1>5, <1>6 DEF SubStreamInv

(* the first pass *)
LEMMA MeasureStep == SubStreamInv /\ Measure => SubStreamInv'
<1> SUFFICES ASSUME SubStreamInv, Measure PROVE SubStreamInv'
  OBVIOUS
<1>1. /\ phase = "measure" /\ phase' = "write" /\ group' = group /\ written' = written
      /\ pos' = pos /\ prefixSEI' = prefixSEI /\ asps' = asps /\ afps' = afps /\ tileLayers' = tileLayers
      /\ applied' = applied
      /\ precision' = BytesFor(MaxMeasured(group) + 1) /\ stream' = <<HeaderByte(precision')>>
  BY DEF Measure, readerVars
<1>2. /\ group \in Groups /\ SubStreamPhases /\ written = 0
  BY <1>1 DEF SubStreamInv, SubStreamPhases
<1>3. FieldsFit(group, precision')
  BY <1>1, <1>2, FieldsAreWideEnough
<1>4. stream' \in Seq(NalBytes) /\ Len(stream') = 1
  <2>1. HeaderByte(precision') \in NalBytes
    <3>1. precision' \in Nat
      BY <1>3 DEF FieldsFit
    <3> QED BY <3>1 DEF HeaderByte, NalBytes, StreamBytes
  <2> QED BY <1>1, <2>1
<1>5. SubStreamPhases'
  BY <1>1, <1>2 DEF SubStreamPhases
<1>6. SubStreamLaid'
  <2> DEFINE P == [k \in 0 .. 0 |-> 1]
  <2>1. P \in [0 .. 0 -> Nat] /\ P[0] = 1
    OBVIOUS
  <2> HIDE DEF P
  <2>2. Laid(stream', NalChunks(group', precision'), written', P, 1)
    <3>1. written' = 0 /\ \A k \in 1 .. 0 : FALSE
      BY <1>1, <1>2
    <3> QED BY <1>4, <2>1, <3>1 DEF Laid
  <2>3. FieldsFit(group', precision') /\ phase' = "write"
    BY <1>1, <1>3
  <2> QED BY <2>2, <2>3 DEF SubStreamLaid
<1>7. AppliedInv' /\ OnlyBoundaryFails'
  BY <1>1 DEF SubStreamInv, AppliedInv, SmoothingPersists, OnlyBoundaryFails
<1> QED BY <1>1, <1>2, <1>4, <1>5, <1>6, <1>7 DEF SubStreamInv

(* the writer adds a unit *)
LEMMA WriteNalUnitStep == SubStreamInv /\ WriteNalUnit => SubStreamInv'
<1> SUFFICES ASSUME SubStreamInv, WriteNalUnit PROVE SubStreamInv'
  OBVIOUS
<1>1. /\ phase = "write" /\ written < Len(NalUnits(group)) /\ written' = written + 1
      /\ phase' = phase /\ group' = group /\ precision' = precision
      /\ pos' = pos /\ prefixSEI' = prefixSEI /\ asps' = asps /\ afps' = afps /\ tileLayers' = tileLayers
      /\ applied' = applied
  BY DEF WriteNalUnit, readerVars
<1>2. group \in Groups /\ SubStreamPhases /\ SubStreamLaid /\ stream \in Seq(NalBytes)
  BY DEF SubStreamInv
<1>3. FieldsFit(group, precision)
  BY <1>1, <1>2 DEF SubStreamLaid
<1>4. PICK p \in 1 .. 4, N \in Seq(UnitNames), n \in Nat, m \in Nat :
        p = precision /\ N = NalUnits(group) /\ n = written /\ m = Len(N) /\ n < m
  <2>1. written \in 0 .. Len(NalUnits(group)) /\ NalUnits(group) \in Seq(UnitNames) /\ Len(NalUnits(group)) \in Nat
    BY <1>2, GroupUnitsAre DEF SubStreamPhases
  <2>2. PICK N \in Seq(UnitNames) : N = NalUnits(group)
    BY <2>1
  <2>3. PICK m \in Nat : m = Len(N)
    OBVIOUS
  <2>4. PICK n \in Nat : n = written /\ n < m
    BY <1>1, <2>1, <2>2, <2>3
  <2>5. precision \in 1 .. 4
    BY <1>3 DEF FieldsFit
  <2> QED BY <2>2, <2>3, <2>4, <2>5
<1>5. PICK C \in Seq(Seq(NalBytes)) : /\ C = NalChunks(group, p) /\ Len(C) = m
                                      /\ \A k \in 1 .. m : C[k] = NalChunk(group, p, N[k])
  <2>1. p \in Nat
    OBVIOUS
  <2> QED BY <1>2, <1>4, <2>1, NalChunksAre
<1>6. PICK P : Laid(stream, C, n, P, 1)
  BY <1>1, <1>2, <1>4, <1>5 DEF SubStreamLaid
<1>7. PICK s \in Seq(NalBytes) : s = stream
  BY <1>2
<1>8. stream' = s \o C[n + 1]
  <2>1. PICK j \in 1 .. m : j = n + 1
    BY <1>4
  <2>2. UnitOf(group, N[j])
    BY <1>2, <1>4, GroupUnitsAre
  <2>3. PICK u \in UnitNames : u = N[j]
    BY <2>2 DEF UnitOf
  <2>4. PICK v \in Nat \ {0}, w \in Nat \ {0} : v = MeasuredSize(group, u) /\ w = WrittenSize(group, u)
    BY <1>2, <2>2, <2>3, UnitSizesAre
  <2>5. stream' = (s \o SizeField(v, p)) \o UnitBytes(u, w)
    BY <1>4, <1>7, <2>1, <2>3, <2>4 DEF WriteNalUnit
  <2>6. C[j] = SizeField(v, p) \o UnitBytes(u, w)
    BY <1>5, <2>3, <2>4 DEF NalChunk, UnitChunk
  <2>7. v \in Nat /\ w \in Nat /\ p \in Nat
    OBVIOUS
  <2>8. SizeField(v, p) \in Seq(StreamBytes(UnitNames)) /\ UnitBytes(u, w) \in Seq(StreamBytes(UnitNames))
    BY <2>7, FieldIs, UnitBytesIs
  <2>9. PICK f \in Seq(NalBytes), b \in Seq(NalBytes) : f = SizeField(v, p) /\ b = UnitBytes(u, w)
    BY <2>8 DEF NalBytes
  <2>10. (s \o f) \o b = s \o (f \o b)
    <3>1. InEitherWay(s, f, b)
      BY EitherWay
    <3> QED BY <3>1 DEF InEitherWay
  <2> QED BY <2>1, <2>5, <2>6, <2>9, <2>10
<1>9. s \o C[n + 1] \in Seq(NalBytes) /\ \E R : Laid(s \o C[n + 1], C, n + 1, R, 1)
  <2>1. n < Len(C)
    BY <1>4, <1>5
  <2> QED BY <1>6, <1>7, <2>1, LaidGrows
<1>10. SubStreamLaid'
  <2>1. PICK R : Laid(stream', C, n + 1, R, 1)
    BY <1>8, <1>9
  <2>2. NalChunks(group', precision') = C /\ written' = n + 1 /\ phase' = "write" /\ FieldsFit(group', precision')
    BY <1>1, <1>3, <1>4, <1>5
  <2> QED BY <2>1, <2>2 DEF SubStreamLaid
<1>11. SubStreamPhases'
  <2>1. written' \in 0 .. Len(NalUnits(group'))
    BY <1>1, <1>4
  <2> QED BY <1>1, <1>2, <2>1 DEF SubStreamPhases
<1>12. AppliedInv' /\ OnlyBoundaryFails'
  BY <1>1 DEF SubStreamInv, AppliedInv, SmoothingPersists, OnlyBoundaryFails
<1> QED BY <1>1, <1>2, <1>8, <1>9, <1>10, <1>11, <1>12 DEF SubStreamInv

(* the reader begins behind the first byte *)
LEMMA OpenStreamStep == SubStreamInv /\ OpenStream => SubStreamInv'
<1> SUFFICES ASSUME SubStreamInv, OpenStream PROVE SubStreamInv'
  OBVIOUS
<1>1. /\ phase = "write" /\ written = Len(NalUnits(group)) /\ phase' = "read" /\ pos' = 1
      /\ group' = group /\ written' = written /\ precision' = precision /\ stream' = stream
      /\ prefixSEI' = prefixSEI /\ asps' = asps /\ afps' = afps /\ tileLayers' = tileLayers /\ applied' = applied
  BY DEF OpenStream
<1>2. group \in Groups /\ SubStreamPhases /\ SubStreamLaid /\ stream \in Seq(NalBytes)
  BY DEF SubStreamInv
<1>3. PICK P : Laid(stream, NalChunks(group, precision), written, P, 1)
  BY <1>1, <1>2 DEF SubStreamLaid
<1>4. P[0] = 1
  BY <1>3 DEF Laid
<1>5. asps = 0 /\ afps = 0 /\ tileLayers = <<>> /\ prefixSEI = <<>>
  BY <1>1, <1>2 DEF SubStreamPhases
<1>6. ReadAt(group, LayerEnds(group), 0, 0, 0, <<>>, <<>>)
  BY <1>2, NothingReadYet
<1>7. 0 \in 0 .. Len(NalUnits(group))
  <2>1. Len(NalUnits(group)) \in Nat
    BY <1>2, GroupUnitsAre
  <2> QED BY <2>1
<1>8. readerHas(0)'
  BY <1>1, <1>5, <1>6 DEF readerHas
<1>9. SubStreamLaid'
  <2>1. Laid(stream', NalChunks(group', precision'), written', P, 1) /\ FieldsFit(group', precision')
    BY <1>1, <1>2, <1>3 DEF SubStreamLaid
  <2>2. pos' = P[0] /\ 0 \in 0 .. Len(NalUnits(group'))
    BY <1>1, <1>4, <1>7
  <2> QED BY <1>8, <2>1, <2>2 DEF SubStreamLaid
<1>10. SubStreamPhases'
  BY <1>1, <1>2 DEF SubStreamPhases
<1>11. AppliedInv' /\ OnlyBoundaryFails'
  BY <1>1 DEF SubStreamInv, AppliedInv, SmoothingPersists, OnlyBoundaryFails
<1> QED BY <1>1, <1>2, <1>9, <1>10, <1>11 DEF SubStreamInv


(* A turn of the reader's loop: the unit it is at is read, unless its size field says
   less than was written. *)
LEMMA ReadNalUnitStep == SubStreamInv /\ ReadNalUnit => SubStreamInv'
<1> SUFFICES ASSUME SubStreamInv, ReadNalUnit PROVE SubStreamInv'
  OBVIOUS
<1>1. /\ phase = "read" /\ pos < Len(stream)
      /\ group' = group /\ written' = written /\ precision' = precision /\ stream' = stream /\ applied' = applied
  BY DEF ReadNalUnit
<1>2. group \in Groups /\ SubStreamPhases /\ SubStreamLaid /\ stream \in Seq(NalBytes)
  BY DEF SubStreamInv
<1>3. FieldsFit(group, precision)
  BY <1>1, <1>2 DEF SubStreamLaid
<1>4. PICK N \in Seq(UnitNames), m \in Nat : N = NalUnits(group) /\ m = Len(N) /\ written = m
  <2>1. NalUnits(group) \in Seq(UnitNames) /\ Len(NalUnits(group)) \in Nat
    BY <1>2, GroupUnitsAre
  <2>2. written = Len(NalUnits(group))
    BY <1>1, <1>2 DEF SubStreamPhases
  <2> QED BY <2>1, <2>2
<1>5. PICK p \in 1 .. 4 : p = precision
  BY <1>3 DEF FieldsFit
<1>6. PICK C \in Seq(Seq(NalBytes)) : /\ C = NalChunks(group, p) /\ Len(C) = m
                                      /\ \A k \in 1 .. m : C[k] = NalChunk(group, p, N[k])
  <2>1. p \in Nat
    OBVIOUS
  <2> QED BY <1>2, <1>4, <2>1, NalChunksAre
<1>7. PICK P : /\ Laid(stream, C, m, P, 1)
               /\ \E k \in 0 .. m : pos = P[k] /\ readerHas(k)
  BY <1>1, <1>2, <1>4, <1>5, <1>6 DEF SubStreamLaid
<1>8. PICK h \in 0 .. m : pos = P[h] /\ readerHas(h)
  BY <1>7
<1>9. PICK s \in Seq(NalBytes) : s = stream
  BY <1>2
<1>10. PICK k \in 1 .. m : k = h + 1 /\ k - 1 = h
  <2>1. Len(stream) = P[m] /\ P[m] \in Nat
    BY <1>7 DEF Laid
  <2>2. h # m
    BY <1>1, <1>8, <2>1
  <2> QED BY <2>2
<1>11. PICK a \in Nat : a = pos /\ P[k] = a + Len(C[k]) /\ Holds(s, a, C[k])
  <2>1. m <= Len(C)
    BY <1>6
  <2>2. P[k - 1] \in Nat /\ P[k] = P[k - 1] + Len(C[k]) /\ Holds(stream, P[k - 1], C[k])
    BY <1>7, <2>1, ChunkIsHeld
  <2> QED BY <1>8, <1>9, <1>10, <2>2
<1>12. PICK u \in UnitNames : u = N[k] /\ UnitOf(group, u)
  <2>1. UnitOf(group, N[k])
    BY <1>2, <1>4, GroupUnitsAre
  <2> QED BY <2>1 DEF UnitOf
<1>13. PICK v \in Nat \ {0}, w \in Nat \ {0} : /\ v = MeasuredSize(group, u) /\ w = WrittenSize(group, u)
                                               /\ v <= w /\ (v # w => OverBoundary(group, u))
  BY <1>2, <1>12, UnitSizesAre
<1>14. v < Power(Base, p)
  BY <1>3, <1>4, <1>5, <1>12, <1>13 DEF FieldsFit
<1>15. C[k] = UnitChunk(v, p, u, w) /\ Len(C[k]) = p + w
  <2>1. C[k] = UnitChunk(v, p, u, w)
    BY <1>6, <1>12, <1>13 DEF NalChunk
  <2>2. v \in Nat /\ w \in Nat /\ p \in Nat
    OBVIOUS
  <2>3. Len(UnitChunk(v, p, u, w)) = p + w
    BY <2>2, UnitChunkIs
  <2> QED BY <2>1, <2>3
<1>16. PICK f, b : /\ f = SizeField(v, p) /\ b = UnitBytes(u, v)
                   /\ f = Slice(s, a + 1, a + p) /\ b = Slice(s, a + p + 1, a + p + v)
  <2>1. v \in Nat /\ w \in Nat /\ p \in Nat /\ s \in Seq(StreamBytes(UnitNames)) /\ v \in 0 .. w
    BY <1>13 DEF NalBytes
  <2>2. Holds(s, a, UnitChunk(v, p, u, w))
    BY <1>11, <1>15
  <2>3. /\ Slice(s, a + 1, a + p) = SizeField(v, p)
        /\ \A i \in 0 .. w : Slice(s, a + p + 1, a + p + i) = UnitBytes(u, i)
    BY <2>1, <2>2, ChunkIsRead
  <2> QED BY <2>1, <2>3
<1>17. IsSizeField(f, p) /\ FieldValue(f) = v
  <2>1. v \in Nat /\ p \in Nat
    OBVIOUS
  <2>2. IsSizeField(SizeField(v, p), p) /\ (v < Power(Base, p) => FieldValue(SizeField(v, p)) = v)
    BY <2>1, FieldIs
  <2> QED BY <1>14, <1>16, <2>2
<1>18. b \in Seq(NalBytes) /\ Len(b) = v /\ b[1] = <<"unit", u, 1>>
  <2>1. v \in Nat /\ 1 \in 1 .. v
    OBVIOUS
  <2>2. /\ UnitBytes(u, v) \in Seq(StreamBytes(UnitNames)) /\ Len(UnitBytes(u, v)) = v
        /\ \A j \in 1 .. v : UnitBytes(u, v)[j] = <<"unit", u, j>>
    BY <2>1, UnitBytesIs
  <2> QED BY <1>16, <2>1, <2>2 DEF NalBytes
<1>19. b[1][1] = "unit" /\ b[1][2] = u
  BY <1>18
<1>20. FieldsFit(group', precision') /\ Laid(stream', NalChunks(group', precision'), written', P, 1)
  BY <1>1, <1>3, <1>4, <1>5, <1>6, <1>7
<1>21. AppliedInv'
  BY <1>1 DEF SubStreamInv, AppliedInv, SmoothingPersists
<1>22. CASE v = w
  <2>1. b = UnitBytes(u, WrittenSize(group, u))
    BY <1>13, <1>16, <1>22
  <2>2. /\ pos' = a + p + v /\ phase' = phase
        /\ asps' = (IF u[1] = "ASPS" THEN asps + 1 ELSE asps)
        /\ afps' = (IF u[1] = "AFPS" THEN afps + 1 ELSE afps)
        /\ tileLayers' = LayersAfter(tileLayers, prefixSEI, u)
        /\ prefixSEI' = PendingAfter(u[1], prefixSEI, u)
    <3>1. /\ Slice(stream, pos + 1, pos + precision) = f /\ FieldValue(f) = v
          /\ Slice(stream, pos + precision + 1, pos + precision + v) = b /\ b[1][2] = u
          /\ pos + precision + v = a + p + v
      BY <1>5, <1>9, <1>11, <1>16, <1>17, <1>19
    <3>2. /\ IsSizeField(f, precision) /\ v > 0 /\ Len(b) = v
          /\ b[1][1] = "unit" /\ b = UnitBytes(u, WrittenSize(group, u))
      BY <1>5, <1>17, <1>18, <1>19, <2>1
    <3> QED BY <3>1, <3>2 DEF ReadNalUnit
  <2>3. pos' = P[k]
    BY <1>11, <1>15, <1>22, <2>2
  <2>4. ReadAt(group, LayerEnds(group), h + 1, asps', afps', tileLayers', prefixSEI')
    <3>1. UnitsLaid(group, N, LayerEnds(group)) /\ h \in Nat /\ h < Len(N) /\ u = N[h + 1]
      BY <1>2, <1>4, <1>10, <1>12, GroupUnitsAre
    <3>2. ReadAt(group, LayerEnds(group), h, asps, afps, tileLayers, prefixSEI)
      BY <1>8 DEF readerHas
    <3>3. ReadAt(group, LayerEnds(group), h + 1, IF u[1] = "ASPS" THEN asps + 1 ELSE asps,
                 IF u[1] = "AFPS" THEN afps + 1 ELSE afps,
                 LayersAfter(tileLayers, prefixSEI, u), PendingAfter(u[1], prefixSEI, u))
      BY <1>2, <3>1, <3>2, ReadStep
    <3> QED BY <2>2, <3>3
  <2>5. readerHas(k)'
    BY <1>1, <1>10, <2>4 DEF readerHas
  <2>6. SubStreamLaid'
    <3>1. k \in 0 .. Len(NalUnits(group'))
      BY <1>1, <1>4
    <3> QED BY <1>20, <2>3, <2>5, <3>1 DEF SubStreamLaid
  <2>7. SubStreamPhases'
    BY <1>1, <1>2, <2>2 DEF SubStreamPhases
  <2>8. OnlyBoundaryFails'
    BY <1>1, <2>2 DEF OnlyBoundaryFails
  <2> QED BY <1>1, <1>2, <1>21, <2>6, <2>7, <2>8 DEF SubStreamInv
<1>23. CASE v # w
  <2>1. b # UnitBytes(u, WrittenSize(group, u))
    <3>1. Len(UnitBytes(u, w)) = w
      <4>1. w \in Nat
        OBVIOUS
      <4> QED BY <4>1, UnitBytesIs
    <3> QED BY <1>13, <1>18, <1>23, <3>1
  <2>2. phase' = "lost" /\ pos' = pos /\ asps' = asps /\ afps' = afps /\ tileLayers' = tileLayers /\ prefixSEI' = prefixSEI
    <3>1. /\ Slice(stream, pos + 1, pos + precision) = f /\ FieldValue(f) = v
          /\ Slice(stream, pos + precision + 1, pos + precision + v) = b /\ b[1][2] = u
      BY <1>5, <1>9, <1>11, <1>16, <1>17, <1>19
    <3> QED BY <2>1, <3>1 DEF ReadNalUnit
  <2>3. readerHas(h)' /\ pos' = P[h] /\ h \in 0 .. Len(NalUnits(group'))
    BY <1>1, <1>4, <1>8, <2>2 DEF readerHas
  <2>4. SubStreamLaid'
    BY <1>20, <2>3 DEF SubStreamLaid
  <2>5. SubStreamPhases'
    BY <1>1, <1>2, <2>2 DEF SubStreamPhases
  <2>6. OnlyBoundaryFails'
    <3>1. OverBoundary(group, u)
      BY <1>13, <1>23
    <3>2. u[2] \in 1 .. Layers(group)
      BY <1>12, <3>1 DEF UnitOf, OverBoundary
    <3> QED BY <1>1, <3>1, <3>2 DEF OnlyBoundaryFails, OverBoundary
  <2> QED BY <1>1, <1>2, <1>21, <2>4, <2>5, <2>6 DEF SubStreamInv
<1> QED BY <1>22, <1>23

(* at the end of the sub-stream all units have been read *)
LEMMA EndOfSubStreamStep == SubStreamInv /\ EndOfSubStream => SubStreamInv'
<1> SUFFICES ASSUME SubStreamInv, EndOfSubStream PROVE SubStreamInv'
  OBVIOUS
<1>1. /\ phase = "read" /\ pos = Len(stream) /\ phase' = "reconstruct"
      /\ group' = group /\ written' = written /\ precision' = precision /\ stream' = stream
      /\ pos' = pos /\ prefixSEI' = prefixSEI /\ asps' = asps /\ afps' = afps /\ tileLayers' = tileLayers
      /\ applied' = applied
  BY DEF EndOfSubStream, readerVars
<1>2. group \in Groups /\ SubStreamPhases /\ SubStreamLaid /\ stream \in Seq(NalBytes)
  BY DEF SubStreamInv
<1>3. PICK p \in Nat, m \in Nat : p = precision /\ m = Len(NalUnits(group)) /\ written = m
  <2>1. Len(NalUnits(group)) \in Nat
    BY <1>2, GroupUnitsAre
  <2>2. precision \in Nat
    BY <1>1, <1>2 DEF SubStreamLaid, FieldsFit
  <2>3. written = Len(NalUnits(group))
    BY <1>1, <1>2 DEF SubStreamPhases
  <2> QED BY <2>1, <2>2, <2>3
<1>4. PICK C \in Seq(Seq(NalBytes)) :
        /\ C = NalChunks(group, p) /\ Len(C) = m
        /\ \A k \in 1 .. m : \E w \in Nat \ {0} : Len(C[k]) = p + w
  <2>1. PICK C : C = NalChunks(group, p)
    OBVIOUS
  <2>2. C \in Seq(Seq(NalBytes)) /\ Len(C) = m
    BY <1>2, <1>3, <2>1, NalChunksAre
  <2>3. \A k \in 1 .. m : Len(C[k]) = p + WrittenSize(group, NalUnits(group)[k]) /\ WrittenSize(group, NalUnits(group)[k]) \in Nat \ {0}
    BY <1>2, <1>3, <2>1, NalChunksAre
  <2> QED BY <2>1, <2>2, <2>3
<1>5. PICK P : Laid(stream, C, m, P, 1) /\ \E k \in 0 .. m : pos = P[k] /\ readerHas(k)
  BY <1>1, <1>2, <1>3, <1>4 DEF SubStreamLaid
<1>6. PICK h \in 0 .. m : pos = P[h] /\ readerHas(h)
  BY <1>5
<1>7. h = m
  <2>1. ASSUME h # m PROVE FALSE
    <3>1. PICK k \in 1 .. m : k = h + 1 /\ k - 1 = h
      BY <2>1
    <3>2. m <= Len(C) /\ k \in 0 .. m /\ m \in k .. m
      BY <1>4
    <3>3. P[h] \in Nat /\ P[k] = P[h] + Len(C[k])
      BY <1>5, <3>1, <3>2, ChunkIsHeld
    <3>4. P[k] <= P[m]
      BY <1>5, <3>2, PlacesGrow
    <3>5. PICK w \in Nat \ {0} : Len(C[k]) = p + w
      BY <1>4
    <3>6. P[h] = P[m]
      BY <1>1, <1>5, <1>6 DEF Laid
    <3> QED BY <3>3, <3>4, <3>5, <3>6
  <2> QED BY <2>1
<1>8. readerHas(m)'
  BY <1>1, <1>6, <1>7 DEF readerHas
<1>9. SubStreamPhases'
  BY <1>1, <1>2, <1>3, <1>8 DEF SubStreamPhases
<1>10. SubStreamLaid'
  <2>1. Laid(stream', NalChunks(group', precision'), written', P, 1) /\ FieldsFit(group', precision')
    BY <1>1, <1>2, <1>3, <1>4, <1>5 DEF SubStreamLaid
  <2>2. pos' = P[m] /\ m \in 0 .. Len(NalUnits(group'))
    BY <1>1, <1>3, <1>6, <1>7
  <2> QED BY <1>8, <2>1, <2>2 DEF SubStreamLaid
<1>11. AppliedInv' /\ OnlyBoundaryFails'
  BY <1>1 DEF SubStreamInv, AppliedInv, SmoothingPersists, OnlyBoundaryFails
<1> QED BY <1>1, <1>2, <1>9, <1>10, <1>11 DEF SubStreamInv

(* The message found for any tile is that of the first tile layer. *)
LEMMA ReconstructTileStep == SubStreamInv /\ ReconstructTile => SubStreamInv'
<1> SUFFICES ASSUME SubStreamInv, ReconstructTile PROVE SubStreamInv'
  OBVIOUS
<1>1. /\ phase = "reconstruct" /\ phase' \in {"reconstruct", "done"}
      /\ group' = group /\ written' = written /\ precision' = precision /\ stream' = stream
      /\ pos' = pos /\ prefixSEI' = prefixSEI /\ asps' = asps /\ afps' = afps /\ tileLayers' = tileLayers
      /\ applied' = Append(applied, seiIsPresentInReceivedData(0))
  BY DEF ReconstructTile, getAtlasTileLayerIndex
<1>2. /\ group \in Groups /\ SubStreamPhases /\ SubStreamLaid /\ stream \in Seq(NalBytes)
      /\ applied \in Seq(BOOLEAN) /\ SmoothingPersists
  BY DEF SubStreamInv, AppliedInv
<1>3. readerHas(Len(NalUnits(group)))
  BY <1>1, <1>2 DEF SubStreamPhases
<1>4. /\ tileLayers \in Seq(Entries) /\ Len(tileLayers) = Layers(group)
      /\ \A i \in 1 .. Len(tileLayers) : tileLayers[i] = Entry(group, i, TRUE)
  <2>1. UnitsLaid(group, NalUnits(group), LayerEnds(group)) /\ Len(NalUnits(group)) \in Nat
    BY <1>2, GroupUnitsAre
  <2>a. PICK g \in Groups : g = group
    BY <1>2
  <2>b. PICK N, Q : N = NalUnits(group) /\ Q = LayerEnds(group)
    OBVIOUS
  <2>c. PICK k \in Nat : k = Len(N)
    BY <2>1, <2>b
  <2>2. g = group /\ N = NalUnits(group) /\ Q = LayerEnds(group) /\ k = Len(N) /\ UnitsLaid(g, N, Q)
    BY <2>1, <2>a, <2>b, <2>c
  <2>3. ReadAt(g, Q, k, asps, afps, tileLayers, prefixSEI)
    BY <1>3, <2>2 DEF readerHas
  <2>4. tileLayers \in Seq(Entries) /\ Len(tileLayers) = Layers(g)
    BY <2>2, <2>3, AllIsRead
  <2>5. Complete(g, tileLayers)
    BY <2>2, <2>3, AllIsRead
  <2> QED BY <2>2, <2>4, <2>5 DEF Complete
<1>5. seiIsPresentInReceivedData(0) = group.smoothing
  <2>1. Layers(group) \in Nat \ {0} /\ group.smoothing \in BOOLEAN
    BY <1>2, GroupIs
  <2>2. 1 \in 1 .. Len(tileLayers)
    BY <1>4, <2>1
  <2>3. tileLayers[1] = Entry(group, 1, TRUE)
    BY <1>4, <2>2
  <2>4. tileLayers[1].prefix # <<>> <=> group.smoothing
    <3>1. tileLayers[1].prefix = IF Prefixed(group, 1) THEN <<<<"PREFIX_SEI", 1>>>> ELSE <<>>
      BY <2>3 DEF Entry
    <3>2. PICK e : e = <<"PREFIX_SEI", 1>>
      OBVIOUS
    <3>3. <<e>> # <<>>
      OBVIOUS
    <3> QED BY <3>1, <3>2, <3>3 DEF Prefixed
  <2>5. \A i \in 1 .. 0 - 1 : FALSE
    OBVIOUS
  <2>6. seiIsPresentInReceivedData(0) <=> tileLayers[1].prefix # <<>>
    BY <2>5 DEF seiIsPresentInReceivedData
  <2>7. seiIsPresentInReceivedData(0) \in BOOLEAN
    BY DEF seiIsPresentInReceivedData
  <2> QED BY <2>1, <2>4, <2>6, <2>7
<1>6. AppliedInv'
  <2>1. PICK x \in BOOLEAN : x = group.smoothing /\ applied' = Append(applied, x)
    <3>1. group.smoothing \in BOOLEAN
      BY <1>2, GroupIs
    <3> QED BY <1>1, <1>5, <3>1
  <2>2. PICK t \in Seq(BOOLEAN), n \in Nat : /\ t = applied' /\ n = Len(applied) /\ Len(t) = n + 1 /\ t[n + 1] = x
                                             /\ \A i \in 1 .. n : t[i] = applied[i]
    <3>1. /\ Append(applied, x) \in Seq(BOOLEAN) /\ Len(Append(applied, x)) = Len(applied) + 1
          /\ Append(applied, x)[Len(applied) + 1] = x
          /\ \A i \in 1 .. Len(applied) : Append(applied, x)[i] = applied[i]
      BY <1>2
    <3>2. Len(applied) \in Nat
      BY <1>2
    <3> QED BY <2>1, <3>1, <3>2
  <2>3. ASSUME NEW l \in 1 .. n + 1 PROVE t[l] = group.smoothing
    <3>1. CASE l = n + 1
      BY <2>1, <2>2, <3>1
    <3>2. CASE l # n + 1
      <4>1. l \in 1 .. n /\ l \in DOMAIN applied
        BY <1>2, <2>2, <3>2
      <4> QED BY <1>2, <2>2, <4>1 DEF SmoothingPersists
    <3> QED BY <3>1, <3>2
  <2>4. DOMAIN applied' = 1 .. n + 1
    BY <2>2
  <2> QED BY <1>1, <2>2, <2>3, <2>4 DEF AppliedInv, SmoothingPersists
<1>7. SubStreamLaid'
  <2>1. PICK P : /\ Laid(stream, NalChunks(group, precision), written, P, 1)
                 /\ \E k \in 0 .. Len(NalUnits(group)) : pos = P[k] /\ readerHas(k)
    BY <1>1, <1>2 DEF SubStreamLaid
  <2>2. FieldsFit(group', precision') /\ Laid(stream', NalChunks(group', precision'), written', P, 1)
    BY <1>1, <1>2, <2>1 DEF SubStreamLaid
  <2>3. \E k \in 0 .. Len(NalUnits(group')) : pos' = P[k] /\ readerHas(k)'
    BY <1>1, <2>1 DEF readerHas
  <2> QED BY <2>2, <2>3 DEF SubStreamLaid
<1>8. SubStreamPhases'
  <2>1. PICK m : m = Len(NalUnits(group)) /\ m = Len(NalUnits(group'))
    BY <1>1
  <2>2. readerHas(m)'
    BY <1>1, <1>3, <2>1 DEF readerHas
  <2> QED BY <1>1, <1>2, <2>1, <2>2 DEF SubStreamPhases
<1>9. OnlyBoundaryFails'
  BY <1>1 DEF OnlyBoundaryFails
<1> QED BY <1>1, <1>2, <1>6, <1>7, <1>8, <1>9 DEF SubStreamInv

LEMMA SubStreamNextInv == SubStreamInv /\ [Next]_vars => SubStreamInv'
<1>1. SubStreamInv /\ Next => SubStreamInv'
  BY MeasureStep, WriteNalUnitStep, OpenStreamStep, ReadNalUnitStep, EndOfSubStreamStep, ReconstructTileStep DEF Next
<1>2. ASSUME SubStreamInv, UNCHANGED vars PROVE SubStreamInv'
  <2>1. /\ group' = group /\ phase' = phase /\ written' = written /\ precision' = precision /\ stream' = stream
        /\ pos' = pos /\ prefixSEI' = prefixSEI /\ asps' = asps /\ afps' = afps /\ tileLayers' = tileLayers
        /\ applied' = applied
    BY <1>2 DEF vars
  <2>2. SubStreamPhases'
    BY <1>2, <2>1 DEF SubStreamInv, SubStreamPhases, readerHas
  <2>3. SubStreamLaid'
    BY <1>2, <2>1 DEF SubStreamInv, SubStreamLaid, readerHas
  <2>4. AppliedInv' /\ OnlyBoundaryFails'
    BY <1>2, <2>1 DEF SubStreamInv, AppliedInv, SmoothingPersists, OnlyBoundaryFails
  <2> QED BY <1>2, <2>1, <2>2, <2>3, <2>4 DEF SubStreamInv
<1> QED BY <1>1, <1>2

LEMMA SubStreamInvHolds == Spec => []SubStreamInv
<1>1. Init => SubStreamInv
  BY SubStreamInitInv
<1>2. SubStreamInv /\ [Next]_vars => SubStreamInv'
  BY SubStreamNextInv
<1> QED BY <1>1, <1>2, PTL DEF Spec

(* what the invariant says of the reader *)
LEMMA ReaderOfState ==
  ASSUME SubStreamInv
  PROVE  /\ asps \in 0 .. 1 /\ afps \in 0 .. group.afps /\ Len(prefixSEI) <= 1
         /\ tileLayers \in Seq(Entries) /\ Len(tileLayers) <= Layers(group)
         /\ \A i \in 1 .. Len(tileLayers) :
              tileLayers[i] = Entry(group, i, TRUE) \/ tileLayers[i] = Entry(group, i, FALSE)
<1>1. group \in Groups /\ SubStreamPhases /\ SubStreamLaid
  BY DEF SubStreamInv
<1>2. UnitsLaid(group, NalUnits(group), LayerEnds(group)) /\ Len(NalUnits(group)) \in Nat
  BY <1>1, GroupUnitsAre
<1>3. \E k \in Nat : k <= Len(NalUnits(group)) /\ readerHas(k)
  <2>1. CASE phase \in {"measure", "write"}
    <3>1. asps = 0 /\ afps = 0 /\ tileLayers = <<>> /\ prefixSEI = <<>>
      BY <1>1, <2>1 DEF SubStreamPhases
    <3>2. readerHas(0)
      BY <1>1, <3>1, NothingReadYet DEF readerHas
    <3> QED BY <1>2, <3>2
  <2>2. CASE phase \notin {"measure", "write"}
    <3>1. \E k \in 0 .. Len(NalUnits(group)) : readerHas(k)
      BY <1>1, <2>2 DEF SubStreamLaid
    <3> QED BY <1>2, <3>1
  <2> QED BY <2>1, <2>2
<1>4. PICK k \in Nat : /\ k <= Len(NalUnits(group))
                       /\ ReadAt(group, LayerEnds(group), k, asps, afps, tileLayers, prefixSEI)
  BY <1>3 DEF readerHas
<1>5. PICK g, N, Q : g \in Groups /\ g = group /\ N = NalUnits(group) /\ Q = LayerEnds(group) /\ UnitsLaid(g, N, Q)
  BY <1>1, <1>2
<1>6. ReadAt(g, Q, k, asps, afps, tileLayers, prefixSEI) /\ k <= Len(N)
  BY <1>4, <1>5
<1>7. asps \in 0 .. 1 /\ afps \in 0 .. g.afps /\ Len(prefixSEI) <= 1
  BY <1>5, <1>6, ReaderIs
<1>8. tileLayers \in Seq(Entries) /\ Len(tileLayers) <= Layers(g)
  BY <1>5, <1>6, ReaderIs
<1>9. Begun(g, tileLayers)
  BY <1>5, <1>6, ReaderIs
<1> QED BY <1>5, <1>7, <1>8, <1>9 DEF Begun

LEMMA ReaderAtEnd ==
  ASSUME SubStreamInv, phase \in {"reconstruct", "done"}
  PROVE  /\ asps = 1 /\ afps = group.afps /\ prefixSEI = <<>> /\ Len(tileLayers) = Layers(group)
         /\ \A i \in 1 .. Len(tileLayers) : tileLayers[i] = Entry(group, i, TRUE)
<1>1. group \in Groups
  BY DEF SubStreamInv
<1>2. UnitsLaid(group, NalUnits(group), LayerEnds(group)) /\ Len(NalUnits(group)) \in Nat
  BY <1>1, GroupUnitsAre
<1>a. PICK g \in Groups : g = group
  BY <1>1
<1>b. PICK N, Q : N = NalUnits(group) /\ Q = LayerEnds(group)
  OBVIOUS
<1>c. PICK k \in Nat : k = Len(N)
  BY <1>2, <1>b
<1>3. g = group /\ N = NalUnits(group) /\ Q = LayerEnds(group) /\ k = Len(N) /\ UnitsLaid(g, N, Q)
  BY <1>2, <1>a, <1>b, <1>c
<1>4. ReadAt(g, Q, k, asps, afps, tileLayers, prefixSEI)
  BY <1>3 DEF SubStreamInv, SubStreamPhases, readerHas
<1>5. asps = 1 /\ afps = g.afps /\ prefixSEI = <<>>
  BY <1>3, <1>4, AllIsRead
<1>6. Len(tileLayers) = Layers(g)
  BY <1>3, <1>4, AllIsRead
<1>7. Complete(g, tileLayers)
  BY <1>3, <1>4, AllIsRead
<1> QED BY <1>3, <1>5, <1>6, <1>7 DEF Complete

(* The reader stays inside the sub-stream and never has more parameter sets, messages or
   tile layers than were written. *)
THEOREM SubStreamTypes == Spec => []TypeOK
<1>1. ASSUME SubStreamInv PROVE TypeOK
  <2>1. /\ group \in Groups /\ stream \in Seq(NalBytes) /\ SubStreamPhases /\ SubStreamLaid
    BY <1>1 DEF SubStreamInv
  <2>2. /\ phase \in {"measure", "write", "read", "reconstruct", "done", "lost"}
        /\ written \in 0 .. Len(NalUnits(group))
    BY <2>1 DEF SubStreamPhases
  <2>3. precision \in 0 .. 4
    BY <2>1 DEF SubStreamPhases, SubStreamLaid, FieldsFit
  <2>4. pos \in 0 .. Len(stream)
    <3>1. CASE phase \in {"measure", "write"}
      <4>1. pos = 0 /\ Len(stream) \in Nat
        BY <2>1, <3>1 DEF SubStreamPhases
      <4> QED BY <4>1
    <3>2. CASE phase \notin {"measure", "write"}
      <4>1. PICK m \in Nat : m = Len(NalUnits(group)) /\ written = m /\ precision \in 1 .. 4
        <5>1. Len(NalUnits(group)) \in Nat
          BY <2>1, GroupUnitsAre
        <5> QED BY <2>1, <3>2, <5>1 DEF SubStreamPhases, SubStreamLaid, FieldsFit
      <4>2. PICK p \in Nat : p = precision
        BY <4>1
      <4>3. PICK C \in Seq(Seq(NalBytes)) : C = NalChunks(group, p) /\ Len(C) = m
        BY <2>1, <4>1, NalChunksAre
      <4>4. PICK P : Laid(stream, C, m, P, 1) /\ \E k \in 0 .. m : pos = P[k]
        BY <2>1, <3>2, <4>1, <4>2, <4>3 DEF SubStreamLaid
      <4>5. PICK k \in 0 .. m : pos = P[k]
        BY <4>4
      <4>6. m <= Len(C) /\ m \in k .. m
        BY <4>3
      <4>7. P[k] <= P[m]
        BY <4>4, <4>6, PlacesGrow
      <4>8. P[k] \in Nat /\ P[m] \in Nat /\ P[m] = Len(stream)
        BY <4>4 DEF Laid
      <4> QED BY <4>5, <4>7, <4>8
    <3> QED BY <3>1, <3>2
  <2>5. asps \in 0 .. 1 /\ afps \in 0 .. group.afps /\ Len(tileLayers) <= Layers(group)
    BY <1>1, ReaderOfState
  <2>6. Len(prefixSEI) <= (IF phase \in {"reconstruct", "done"} THEN 0 ELSE 1)
    <3>1. CASE phase \in {"reconstruct", "done"}
      <4>1. prefixSEI = <<>>
        BY <1>1, <3>1, ReaderAtEnd
      <4> QED BY <3>1, <4>1
    <3>2. CASE phase \notin {"reconstruct", "done"}
      <4>1. Len(prefixSEI) <= 1
        BY <1>1, ReaderOfState
      <4> QED BY <3>2, <4>1
    <3> QED BY <3>1, <3>2
  <2> QED BY <2>1, <2>2, <2>3, <2>4, <2>5, <2>6 DEF TypeOK
<1> QED BY <1>1, SubStreamInvHolds, PTL

(* Every SEI message reaches the tile layer it was written for: the smoothing message,
   which waits for the tile behind it, the first one, and the hash of a frame, which is
   added to the tile read last, the last tile of its frame (PCCBitstreamReader's
   atlasSubStream), in a group with any number of frames, tiles and parameter sets. *)
THEOREM MessagesReachTheirTiles == Spec => []MessagesAttached
<1>1. ASSUME SubStreamInv PROVE MessagesAttached
  <2>1. ASSUME NEW l \in DOMAIN tileLayers
        PROVE  /\ tileLayers[l].layer = l
               /\ tileLayers[l].prefix # <<>> <=> group.smoothing /\ l = 1
               /\ phase \in {"reconstruct", "done"} =>
                    tileLayers[l].suffix = IF Suffixed(group, l) THEN <<<<"SUFFIX_SEI", l>>>> ELSE <<>>
    <3>1. l \in 1 .. Len(tileLayers)
      <4>1. tileLayers \in Seq(Entries)
        BY <1>1, ReaderOfState
      <4> QED BY <4>1
    <3>2. PICK behind \in BOOLEAN : tileLayers[l] = Entry(group, l, behind)
      <4>1. tileLayers[l] = Entry(group, l, TRUE) \/ tileLayers[l] = Entry(group, l, FALSE)
        BY <1>1, <3>1, ReaderOfState
      <4> QED BY <4>1
    <3>3. tileLayers[l].layer = l /\ tileLayers[l].prefix = IF Prefixed(group, l) THEN <<<<"PREFIX_SEI", l>>>> ELSE <<>>
      BY <3>2 DEF Entry
    <3>4. tileLayers[l].prefix # <<>> <=> group.smoothing /\ l = 1
      <4>1. PICK e : e = <<"PREFIX_SEI", l>>
        OBVIOUS
      <4>2. <<e>> # <<>>
        OBVIOUS
      <4> QED BY <3>3, <4>1, <4>2 DEF Prefixed
    <3>5. ASSUME phase \in {"reconstruct", "done"}
          PROVE  tileLayers[l].suffix = IF Suffixed(group, l) THEN <<<<"SUFFIX_SEI", l>>>> ELSE <<>>
      <4>1. tileLayers[l] = Entry(group, l, TRUE)
        BY <1>1, <3>1, <3>5, ReaderAtEnd
      <4> QED BY <4>1 DEF Entry
    <3> QED BY <3>3, <3>4, <3>5
  <2> QED BY <2>1 DEF MessagesAttached
<1> QED BY <1>1, SubStreamInvHolds, PTL

(* The reader of a sub-stream is lost only where the flag that the first pass does not
   write takes the tile header of a tile layer into another byte. *)
THEOREM OnlyTheFlagLosesTheReader == Spec => []OnlyBoundaryFails
<1>1. SubStreamInv => OnlyBoundaryFails
  BY DEF SubStreamInv
<1> QED BY <1>1, SubStreamInvHolds, PTL

(* In every tile of every frame the smoothing is applied if and only if the encoder
   asked for it: PCCDecoder finds the one message from all of them. *)
THEOREM SmoothingOfAllTiles == Spec => []SmoothingPersists
<1>1. SubStreamInv => SmoothingPersists
  BY DEF SubStreamInv, AppliedInv
<1> QED BY <1>1, SubStreamInvHolds, PTL

WholeGroupRead ==
  phase \in {"reconstruct", "done"} =>
    asps = 1 /\ afps = group.afps /\ Len(tileLayers) = Layers(group) /\ prefixSEI = <<>>

(* A reader that comes to the end of the sub-stream has read all of the group. *)
THEOREM WholeSubStreamIsRead == Spec => []WholeGroupRead
<1>1. SubStreamInv => WholeGroupRead
  BY ReaderAtEnd DEF WholeGroupRead
<1> QED BY <1>1, SubStreamInvHolds, PTL

-----------------------------------------------------------------------------
(***************************************************************************)
(* Byte streams of video units behind start codes.                         *)
(***************************************************************************)
LEMMA StartCodeIs ==
  ASSUME NEW z \in {3, 4}
  PROVE  /\ StartCode(z) \in Seq(Byte) /\ Len(StartCode(z)) = z
         /\ \A i \in 1 .. z : StartCode(z)[i] = IF i = z THEN 1 ELSE 0
<1>1. PICK n \in Nat : n = z
  OBVIOUS
<1>4. PICK c : c = StartCode(n)
  OBVIOUS
<1>2. c = [i \in 1 .. n |-> c[i]] /\ \A i \in 1 .. n : c[i] = (IF i = n THEN 1 ELSE 0) /\ c[i] \in Byte
  BY <1>4 DEF StartCode, Byte
<1>3. c \in Seq(Byte) /\ Len(c) = n
  BY <1>2, IsSeq
<1> QED BY <1>1, <1>4, <1>2, <1>3

(* a video of units, each behind a start code of the size that z says *)
Coded(us, z) == [k \in 1 .. Len(us) |-> StartCode(z[k]) \o us[k]]

(* sequences of bytes, and the sizes of their start codes *)
Video(us, n, z) ==
  /\ us \in Seq(Seq(Byte)) /\ n = Len(us) /\ n \in Nat \ {0} /\ z \in [1 .. n -> {3, 4}]
  /\ \A k \in 1 .. n : us[k] # <<>>

(* the chunks of a stream of n units, behind start codes *)
CodeChunks(C, us, n, z) ==
  /\ C \in Seq(Seq(Byte)) /\ Len(C) = n
  /\ \A k \in 1 .. n : C[k] = StartCode(z[k]) \o us[k] /\ Len(C[k]) = z[k] + Len(us[k])

LEMMA CodedIs ==
  ASSUME NEW us, NEW n, NEW z, Video(us, n, z)
  PROVE  CodeChunks(Coded(us, z), us, n, z)
<1>1. /\ us \in Seq(Seq(Byte)) /\ n \in Nat
      /\ \A k \in 1 .. n : us[k] \in Seq(Byte) /\ z[k] \in {3, 4}
  BY DEF Video
<1>2. PICK c : c = Coded(us, z) /\ c = [k \in 1 .. n |-> c[k]] /\ \A k \in 1 .. n : c[k] = StartCode(z[k]) \o us[k]
  <2>1. n = Len(us)
    BY DEF Video
  <2>2. PICK c : c = [k \in 1 .. n |-> StartCode(z[k]) \o us[k]]
    OBVIOUS
  <2>3. c = Coded(us, z)
    BY <2>1, <2>2 DEF Coded
  <2>4. DOMAIN c = 1 .. n /\ \A k \in 1 .. n : c[k] = StartCode(z[k]) \o us[k]
    BY <2>2
  <2>5. c = [k \in 1 .. n |-> c[k]]
    BY <2>2, <2>4
  <2> QED BY <2>3, <2>4, <2>5
<1>3. ASSUME NEW k \in 1 .. n PROVE c[k] \in Seq(Byte) /\ Len(c[k]) = z[k] + Len(us[k])
  <2>1. PICK s \in Seq(Byte) : s = StartCode(z[k]) /\ Len(s) = z[k]
    BY <1>1, StartCodeIs
  <2>2. PICK u \in Seq(Byte) : u = us[k]
    BY <1>1
  <2>3. s \o u \in Seq(Byte) /\ Len(s \o u) = Len(s) + Len(u)
    BY ConcatIs
  <2> QED BY <1>2, <2>1, <2>2, <2>3
<1>4. c \in Seq(Seq(Byte)) /\ Len(c) = n
  <2>1. \A k \in 1 .. n : c[k] \in Seq(Byte)
    BY <1>3
  <2>2. c = [k \in 1 .. n |-> c[k]]
    BY <1>2
  <2>3. PICK D : D = Seq(Byte)
    OBVIOUS
  <2>4. c \in Seq(D) /\ Len(c) = n
    BY <1>1, <2>1, <2>2, <2>3, IsSeq
  <2> QED BY <2>3, <2>4
<1> QED BY <1>2, <1>3, <1>4 DEF CodeChunks

(* d is that video, the k-th unit of which ends at P[k] *)
IsStream(d, us, n, z, P) == d \in Seq(Byte) /\ Video(us, n, z) /\ Laid(d, Coded(us, z), n, P, 0)

(* What is found where a unit has been laid: its start code, and its bytes. *)
LEMMA UnitIsHeld ==
  ASSUME NEW d, NEW us, NEW n, NEW z, NEW P, IsStream(d, us, n, z, P), NEW k \in 1 .. n
  PROVE  /\ P[k - 1] \in Nat /\ z[k] \in {3, 4} /\ us[k] \in Seq(Byte)
         /\ P[k] = P[k - 1] + (z[k] + Len(us[k]))
         /\ Holds(d, P[k - 1], StartCode(z[k])) /\ Holds(d, P[k - 1] + z[k], us[k])
<1>1. n \in Nat /\ us[k] \in Seq(Byte) /\ z[k] \in {3, 4} /\ d \in Seq(Byte)
  BY DEF IsStream, Video
<1>2. PICK C \in Seq(Seq(Byte)) : /\ C = Coded(us, z) /\ Len(C) = n
                                  /\ C[k] = StartCode(z[k]) \o us[k] /\ Len(C[k]) = z[k] + Len(us[k])
  <2>1. Video(us, n, z)
    BY DEF IsStream
  <2>2. CodeChunks(Coded(us, z), us, n, z)
    BY <2>1, CodedIs
  <2> QED BY <2>2 DEF CodeChunks
<1>3. P[k - 1] \in Nat /\ P[k] = P[k - 1] + Len(C[k]) /\ Holds(d, P[k - 1], C[k])
  <2>1. Laid(d, C, n, P, 0) /\ n <= Len(C)
    BY <1>1, <1>2 DEF IsStream
  <2> QED BY <1>1, <2>1, ChunkIsHeld
<1>4. PICK a \in Nat : a = P[k - 1]
  BY <1>3
<1>5. PICK s \in Seq(Byte), u \in Seq(Byte) : s = StartCode(z[k]) /\ Len(s) = z[k] /\ u = us[k]
  BY <1>1, StartCodeIs
<1>6. Holds(d, a, s) /\ Holds(d, a + Len(s), u)
  <2>1. Holds(d, a, s \o u) /\ Len(d) \in Nat
    BY <1>1, <1>2, <1>3, <1>4, <1>5
  <2> QED BY <2>1, PartsAreHeld
<1> QED BY <1>1, <1>2, <1>3, <1>4, <1>5, <1>6

(* Inside of a unit, and where it ends, no start code begins. *)
LEMMA NoCodeInUnit ==
  ASSUME NEW d \in Seq(Byte), NEW u, Legal(u), NEW a \in Nat, Holds(d, a, u),
         NEW i \in Nat, a <= i, i < a + Len(u), At(d, i) = 0, At(d, i + 1) = 0
  PROVE  At(d, i + 2) > 2
<1>1. PICK n \in Nat : n = Len(u) /\ u \in Seq(Byte) /\ u[n] # 0
  BY DEF Legal
<1>2. PICK j \in 1 .. n : j = (i - a) + 1 /\ i + 1 = a + j /\ (i + 1) + 1 = a + (j + 1) /\ (i + 2) + 1 = a + (j + 2)
  BY <1>1
<1>3. \A m \in 1 .. n : d[a + m] = u[m]
  BY <1>1 DEF Holds
<1>4. u[j] = 0 /\ j + 1 \in 1 .. n
  <2>1. u[j] = 0
    BY <1>2, <1>3 DEF At
  <2> QED BY <1>1, <1>2, <2>1
<1>5. u[j + 1] = 0 /\ j + 2 \in 1 .. n
  <2>1. u[j + 1] = 0
    BY <1>2, <1>3, <1>4 DEF At
  <2>2. j + 1 # n
    BY <1>1, <2>1
  <2> QED BY <1>4, <2>1, <2>2
<1>6. PICK v \in Nat : v = u[j + 2] /\ v > 2
  <2>1. j \in 1 .. Len(u) - 2
    BY <1>1, <1>5
  <2>2. ~(u[j] = 0 /\ u[j + 1] = 0 /\ u[j + 2] <= 2)
    BY <2>1 DEF Legal
  <2>3. PICK v \in 0 .. 255 : v = u[j + 2]
    <3>1. PICK m \in 1 .. n : m = j + 2
      BY <1>5
    <3>2. u[m] \in Byte
      BY <1>1, <3>1
    <3> QED BY <3>1, <3>2 DEF Byte
  <2>4. ~(v <= 2)
    BY <1>4, <1>5, <2>2, <2>3
  <2> QED BY <2>3, <2>4
<1>7. At(d, i + 2) = u[j + 2]
  BY <1>2, <1>3, <1>5 DEF At
<1> QED BY <1>6, <1>7

(* The bytes of a start code. *)
LEMMA CodeIsHeld ==
  ASSUME NEW d, NEW a \in Nat, NEW z \in {3, 4}, Holds(d, a, StartCode(z))
  PROVE  /\ At(d, a) = 0 /\ At(d, a + 1) = 0
         /\ z = 3 => At(d, a + 2) = 1
         /\ z = 4 => At(d, a + 2) = 0 /\ At(d, a + 3) = 1
<1>1. PICK c : c = StartCode(z) /\ Len(c) = z /\ \A i \in 1 .. z : c[i] = IF i = z THEN 1 ELSE 0
  BY StartCodeIs
<1>2. \A i \in 1 .. z : d[a + i] = IF i = z THEN 1 ELSE 0
  BY <1>1 DEF Holds
<1>3. 0 + 1 = 1 /\ (a + 1) + 1 = a + 2 /\ (a + 2) + 1 = a + 3 /\ (a + 3) + 1 = a + 4
  OBVIOUS
<1> QED BY <1>2, <1>3 DEF At

(* The k-th start code is as long as the third byte says. *)
LEMMA StartCodeAtIs ==
  ASSUME NEW d, NEW us, NEW n, NEW z, NEW P, IsStream(d, us, n, z, P), NEW k \in 1 .. n
  PROVE  StartCodeAt(d, P[k - 1]) = z[k]
<1>1. P[k - 1] \in Nat /\ z[k] \in {3, 4} /\ Holds(d, P[k - 1], StartCode(z[k]))
  BY UnitIsHeld
<1>2. /\ z[k] = 3 => At(d, P[k - 1] + 2) = 1
      /\ z[k] = 4 => At(d, P[k - 1] + 2) = 0
  BY <1>1, CodeIsHeld
<1> QED BY <1>1, <1>2 DEF StartCodeAt

-----------------------------------------------------------------------------
(***************************************************************************)
(* The search for the next start code.                                     *)
(***************************************************************************)
(* The places do not go back, and every unit takes four bytes at least. *)
LEMMA UnitsFollow ==
  ASSUME NEW d, NEW us, NEW n, NEW z, NEW P, IsStream(d, us, n, z, P), NEW k \in 0 .. n
  PROVE  /\ P[k] \in Nat /\ P[0] = 0 /\ P[n] = Len(d)
         /\ \A i \in 0 .. k : P[i] + 4 * (k - i) <= P[k]
<1>1. n \in Nat \ {0} /\ P \in [0 .. n -> Nat] /\ P[0] = 0 /\ P[n] = Len(d)
  BY DEF IsStream, Video, Laid
<1>2. ASSUME NEW i \in 1 .. n PROVE P[i - 1] + 4 <= P[i]
  <2>1. P[i - 1] \in Nat /\ z[i] \in {3, 4} /\ us[i] \in Seq(Byte) /\ P[i] = P[i - 1] + (z[i] + Len(us[i]))
    BY UnitIsHeld
  <2>2. us[i] # <<>>
    BY DEF IsStream, Video
  <2>3. Len(us[i]) \in Nat \ {0}
    BY <2>1, <2>2
  <2> QED BY <2>1, <2>3
<1> DEFINE T == {m \in 0 .. k : P[k - m] + 4 * m <= P[k]}
<1>3. PICK K \in Nat : K = k /\ K <= n
  BY <1>1
<1>4. 0 \in T
  <2>1. K - 0 = K /\ P[K] \in Nat /\ 4 * 0 = 0
    BY <1>1, <1>3
  <2> QED BY <1>3, <2>1
<1>5. ASSUME NEW m \in 1 .. K, m - 1 \in T PROVE m \in T
  <2>1. PICK i \in 1 .. n : i = K - (m - 1) /\ i - 1 = K - m
    BY <1>1, <1>3
  <2>2. P[i - 1] + 4 <= P[i] /\ P[i] + 4 * (m - 1) <= P[K]
    BY <1>2, <1>3, <1>5, <2>1
  <2>3. PICK x \in Nat, y \in Nat, w \in Nat : x = P[i - 1] /\ y = P[i] /\ w = P[K]
    BY <1>1, <1>3, <2>1
  <2>4. x + 4 * m <= w
    BY <2>2, <2>3
  <2> QED BY <1>3, <2>1, <2>3, <2>4
<1>6. \A m \in 0 .. K : m \in T
  <2> HIDE DEF T
  <2>1. 0 \in T /\ \A m \in 1 .. K : m - 1 \in T => m \in T
    BY <1>4, <1>5
  <2> QED BY <1>3, <2>1, PrefixInduction
<1>7. ASSUME NEW i \in 0 .. K PROVE P[i] + 4 * (K - i) <= P[K]
  <2>1. K - i \in 0 .. K /\ K - (K - i) = i
    OBVIOUS
  <2> QED BY <1>3, <1>6, <2>1
<1> QED BY <1>1, <1>3, <1>7

LEMMA MinIs ==
  ASSUME NEW S, S \subseteq Nat, NEW m \in S, \A y \in S : m <= y
  PROVE  Min(S) = m
<1>1. Min(S) = CHOOSE x \in S : \A y \in S : x <= y
  BY DEF Min
<1>2. PICK x \in S : x = Min(S) /\ \A y \in S : x <= y
  BY <1>1
<1>3. x <= m /\ m <= x /\ x \in Nat /\ m \in Nat
  BY <1>2
<1> QED BY <1>2, <1>3

LegalUnits(us, n) == \A k \in 1 .. n : Legal(us[k])

(* The search finds the next start code, unless that is less than five bytes in front
   of the end of the stream. *)
LEMMA EndOfNaluIs ==
  ASSUME NEW d, NEW us, NEW n, NEW z, NEW P, IsStream(d, us, n, z, P), LegalUnits(us, n), NEW k \in 1 .. n
  PROVE  getEndOfNaluPosition(d, P[k - 1] + z[k]) = IF k < n /\ P[k] <= Len(d) - 5 THEN P[k] ELSE Len(d)
<1>1. PICK a \in Nat, b \in Nat, l \in Nat : a = P[k - 1] + z[k] /\ b = P[k] /\ l = Len(d) /\ b <= l /\ b = a + Len(us[k]) /\ a < b
  <2>1. /\ P[k - 1] \in Nat /\ z[k] \in {3, 4} /\ us[k] \in Seq(Byte)
        /\ P[k] = P[k - 1] + (z[k] + Len(us[k]))
    BY UnitIsHeld
  <2>2. Legal(us[k]) /\ n \in Nat
    BY DEF LegalUnits, IsStream, Video
  <2>3. PICK m \in Nat \ {0} : m = Len(us[k])
    BY <2>1, <2>2 DEF Legal
  <2>4. PICK x \in Nat, y \in Nat : x = P[k - 1] /\ y = z[k]
    BY <2>1
  <2>5. PICK e \in Nat, l \in Nat : e = P[k] /\ l = Len(d) /\ e <= l
    <3>1. /\ P[n] \in Nat /\ P[n] = Len(d) /\ k \in 0 .. n /\ n \in 0 .. n
          /\ \A i \in 0 .. n : P[i] + 4 * (n - i) <= P[n]
      BY <2>2, UnitsFollow
    <3>2. P[k] + 4 * (n - k) <= P[n]
      BY <3>1
    <3>3. PICK e \in Nat, l \in Nat : e = P[k] /\ l = P[n] /\ l = Len(d)
      <4>1. P[k] \in Nat
        BY <2>1, <2>3, <2>4
      <4> QED BY <3>1, <4>1
    <3>4. PICK N \in Nat, K \in Nat : N = n /\ K = k /\ K <= N
      BY <2>2
    <3>5. e + 4 * (N - K) <= l
      BY <3>2, <3>3, <3>4
    <3>6. e <= l
      BY <3>3, <3>4, <3>5
    <3> QED BY <3>3, <3>6
  <2>6. e = x + (y + m)
    BY <2>1, <2>3, <2>4, <2>5
  <2>7. PICK a \in Nat : a = x + y
    OBVIOUS
  <2>8. e = a + m /\ a < e
    BY <2>6, <2>7
  <2> QED BY <2>3, <2>4, <2>5, <2>7, <2>8
<1>2. d \in Seq(Byte) /\ n \in Nat
  BY DEF IsStream, Video
<1> DEFINE found == {i \in a .. l - 5 : IsStartCode(d, i)}
<1>3. getEndOfNaluPosition(d, a) = IF found = {} THEN l ELSE Min(found)
  BY <1>1 DEF getEndOfNaluPosition
<1>4. ASSUME NEW i \in found PROVE b <= i
  <2>1. i \in Nat /\ a <= i /\ IsStartCode(d, i)
    BY <1>1
  <2>2. At(d, i) = 0 /\ At(d, i + 1) = 0 /\ ~(At(d, i + 2) > 2)
    BY <2>1 DEF IsStartCode
  <2>3. Legal(us[k]) /\ Holds(d, a, us[k])
    BY <1>1, UnitIsHeld DEF LegalUnits
  <2>4. ~(i < a + Len(us[k]))
    BY <1>2, <2>1, <2>2, <2>3, NoCodeInUnit
  <2> QED BY <1>1, <2>1, <2>4
<1>5. CASE k < n /\ b <= l - 5
  <2>1. PICK j \in 1 .. n : j = k + 1 /\ j - 1 = k
    BY <1>2, <1>5
  <2>7. z[j] \in {3, 4} /\ Holds(d, P[j - 1], StartCode(z[j]))
    BY UnitIsHeld
  <2>2. PICK w \in {3, 4} : Holds(d, b, StartCode(w))
    BY <1>1, <2>1, <2>7
  <2>3. IsStartCode(d, b)
    BY <1>1, <2>2, CodeIsHeld DEF IsStartCode
  <2>4. b \in found
    BY <1>1, <1>5, <2>3
  <2>5. found \subseteq Nat
    BY <1>1
  <2>6. Min(found) = b
    BY <1>4, <2>4, <2>5, MinIs
  <2> QED BY <1>1, <1>3, <1>5, <2>4, <2>6
<1>6. CASE ~(k < n /\ b <= l - 5)
  <2>1. found = {}
    <3>1. SUFFICES ASSUME NEW i \in found PROVE FALSE
      OBVIOUS
    <3>2. b <= i /\ i <= l - 5 /\ i \in Nat
      BY <1>1, <1>4
    <3>3. ~(k < n)
      BY <1>1, <1>6, <3>2
    <3>4. b = l
      <4>1. k = n
        BY <1>2, <3>3
      <4>2. P[n] = Len(d)
        BY <4>1, UnitsFollow
      <4> QED BY <1>1, <4>1, <4>2
    <3> QED BY <1>1, <3>2, <3>4
  <2> QED BY <1>1, <1>3, <1>6, <2>1
<1> QED BY <1>5, <1>6

-----------------------------------------------------------------------------
(***************************************************************************)
(* A unit that stays a part of the one before.                             *)
(***************************************************************************)
(* r is s, of length l, with t, of length m, behind it *)
Parts(r, s, l, t, m) ==
  /\ Len(r) = l + m
  /\ \A i \in 1 .. l : r[i] = s[i]
  /\ \A i \in 1 .. m : r[l + i] = t[i]

LEMMA PartsOf ==
  ASSUME NEW D, NEW s \in Seq(D), NEW t \in Seq(D), NEW l, l = Len(s), NEW m, m = Len(t)
  PROVE  s \o t \in Seq(D) /\ Parts(s \o t, s, l, t, m)
<1>1. /\ s \o t \in Seq(D) /\ Len(s \o t) = Len(s) + Len(t)
      /\ \A i \in 1 .. Len(s) : (s \o t)[i] = s[i]
      /\ \A i \in 1 .. Len(t) : (s \o t)[Len(s) + i] = t[i]
  BY ConcatIs
<1> QED BY <1>1 DEF Parts

(* e, a, c and b, put together in either way *)
SameTogether(e, a, c, b) == e \o ((a \o c) \o b) = (e \o a) \o (c \o b)

LEMMA ConcatThrice ==
  ASSUME NEW e \in Seq(Byte), NEW a \in Seq(Byte), NEW c \in Seq(Byte), NEW b \in Seq(Byte)
  PROVE  SameTogether(e, a, c, b)
<1>1. (a \o c) \o b = a \o (c \o b)
  <2>1. InEitherWay(a, c, b)
    BY EitherWay
  <2> QED BY <2>1 DEF InEitherWay
<1>2. PICK cb \in Seq(Byte) : cb = c \o b
  BY ConcatIs
<1>3. (e \o a) \o cb = e \o (a \o cb)
  <2>1. InEitherWay(e, a, cb)
    BY EitherWay
  <2> QED BY <2>1 DEF InEitherWay
<1> QED BY <1>1, <1>2, <1>3 DEF SameTogether

(* E are m chunks, the last of which is the last two of C *)
Joined(D, C, E, m) ==
  /\ C \in Seq(Seq(D)) /\ E \in Seq(Seq(D)) /\ m \in Nat \ {0} /\ Len(C) = m + 1 /\ Len(E) = m
  /\ \A k \in 1 .. m - 1 : E[k] = C[k]
  /\ E[m] = C[m] \o C[m + 1]

LEMMA JoinedChunk ==
  ASSUME NEW D, NEW C, NEW E, NEW m, Joined(D, C, E, m)
  PROVE  \E a \in Nat, b \in Nat : a = Len(C[m]) /\ b = Len(C[m + 1]) /\ Parts(E[m], C[m], a, C[m + 1], b)
<1>1. C \in Seq(Seq(D)) /\ m \in 1 .. Len(C) /\ m + 1 \in 1 .. Len(C) /\ E[m] = C[m] \o C[m + 1]
  BY DEF Joined
<1>2. PICK s \in Seq(D) : s = C[m]
  BY <1>1
<1>3. PICK t \in Seq(D) : t = C[m + 1]
  BY <1>1
<1>4. PICK a \in Nat : a = Len(s)
  OBVIOUS
<1>5. PICK b \in Nat : b = Len(t)
  OBVIOUS
<1>6. Parts(s \o t, s, a, t, b)
  BY <1>4, <1>5, PartsOf
<1> QED BY <1>1, <1>2, <1>3, <1>4, <1>5, <1>6

LEMMA ChunksJoined ==
  ASSUME NEW D, NEW C, NEW E, NEW m, Joined(D, C, E, m), NEW s, NEW P, Laid(s, C, m + 1, P, 0),
         NEW Q, Q = [k \in 0 .. m |-> IF k = m THEN P[m + 1] ELSE P[k]]
  PROVE  Laid(s, E, m, Q, 0)
<1>1. PICK N \in Nat \ {0} : N = m
  BY DEF Joined
<1>2. /\ P \in [0 .. N + 1 -> Nat] /\ P[0] = 0 /\ Len(s) = P[N + 1]
      /\ \A k \in 1 .. N + 1 : P[k] = P[k - 1] + Len(C[k])
      /\ \A k \in 1 .. N + 1 : \A j \in 1 .. Len(C[k]) : s[P[k - 1] + j] = C[k][j]
  BY <1>1 DEF Laid
<1>3. /\ Q \in [0 .. N -> Nat] /\ Q[N] = P[N + 1]
      /\ \A k \in 0 .. N - 1 : Q[k] = P[k]
  BY <1>1, <1>2
<1>4. Q[0] = 0 /\ Len(s) = Q[N]
  BY <1>1, <1>2, <1>3
<1>12. PICK a \in Nat, b \in Nat : a = Len(C[N]) /\ b = Len(C[N + 1]) /\ Parts(E[N], C[N], a, C[N + 1], b)
  BY <1>1, JoinedChunk
<1>5. /\ a = Len(C[N]) /\ b = Len(C[N + 1]) /\ Len(E[N]) = a + b
      /\ \A i \in 1 .. a : E[N][i] = C[N][i]
      /\ \A i \in 1 .. b : E[N][a + i] = C[N + 1][i]
  BY <1>12 DEF Parts
<1>6. PICK x \in Nat : x = P[N - 1] /\ P[N] = x + a /\ P[N + 1] = (x + a) + b
  <2>1. P[N - 1] \in Nat /\ N \in 1 .. N + 1 /\ N + 1 \in 1 .. N + 1 /\ (N + 1) - 1 = N
    BY <1>1, <1>2
  <2>2. P[N] = P[N - 1] + Len(C[N])
    BY <1>2, <2>1
  <2>3. P[N + 1] = P[N] + Len(C[N + 1])
    BY <1>2, <2>1
  <2> QED BY <1>5, <2>1, <2>2, <2>3
<1>7. ASSUME NEW k \in 1 .. N, k # N
      PROVE  Q[k] = Q[k - 1] + Len(E[k]) /\ \A j \in 1 .. Len(E[k]) : s[Q[k - 1] + j] = E[k][j]
  <2>1. k \in 1 .. N - 1 /\ k \in 1 .. N + 1 /\ k - 1 \in 0 .. N - 1 /\ k \in 0 .. N - 1
    BY <1>7
  <2>2. E[k] = C[k]
    BY <1>1, <2>1 DEF Joined
  <2>3. Q[k] = P[k] /\ Q[k - 1] = P[k - 1]
    BY <1>3, <2>1
  <2> QED BY <1>2, <2>1, <2>2, <2>3
<1>8. Q[N] = Q[N - 1] + Len(E[N])
  <2>1. Q[N - 1] = x
    BY <1>3, <1>6
  <2>2. (x + a) + b = x + (a + b)
    OBVIOUS
  <2> QED BY <1>3, <1>5, <1>6, <2>1, <2>2
<1>9. ASSUME NEW j \in 1 .. Len(E[N]) PROVE s[Q[N - 1] + j] = E[N][j]
  <2>4. N - 1 \in 0 .. N - 1
    OBVIOUS
  <2>5. Q[N - 1] = x
    BY <1>3, <1>6, <2>4
  <2>6. j \in 1 .. a + b
    BY <1>5
  <2>1. Q[N - 1] = x /\ j \in 1 .. a + b
    BY <2>5, <2>6
  <2>2. CASE j <= a
    <3>1. j \in 1 .. a /\ N \in 1 .. N + 1
      BY <2>1, <2>2
    <3>2. s[P[N - 1] + j] = C[N][j]
      BY <1>2, <1>5, <3>1
    <3> QED BY <1>5, <1>6, <2>1, <3>1, <3>2
  <2>3. CASE j > a
    <3>1. PICK i \in 1 .. b : j = a + i /\ x + j = (x + a) + i
      <4>1. j - a \in 1 .. b
        BY <2>1, <2>3
      <4> QED BY <2>1, <4>1
    <3>2. N + 1 \in 1 .. N + 1 /\ (N + 1) - 1 = N
      OBVIOUS
    <3>3. s[P[N] + i] = C[N + 1][i]
      BY <1>2, <1>5, <3>1, <3>2
    <3> QED BY <1>5, <1>6, <2>1, <3>1, <3>3
  <2> QED BY <2>1, <2>2, <2>3
<1>10. \A k \in 1 .. N : Q[k] = Q[k - 1] + Len(E[k])
  BY <1>7, <1>8
<1>11. \A k \in 1 .. N : \A j \in 1 .. Len(E[k]) : s[Q[k - 1] + j] = E[k][j]
  BY <1>7, <1>9
<1> QED BY <1>1, <1>3, <1>4, <1>10, <1>11 DEF Laid

LEMMA ChunksSplit ==
  ASSUME NEW D, NEW C, NEW E, NEW m, Joined(D, C, E, m), NEW s, NEW Q, Laid(s, E, m, Q, 0)
  PROVE  \E P : Laid(s, C, m + 1, P, 0)
<1>1. PICK N \in Nat \ {0} : N = m
  BY DEF Joined
<1>2. /\ Q \in [0 .. N -> Nat] /\ Q[0] = 0 /\ Len(s) = Q[N]
      /\ \A k \in 1 .. N : Q[k] = Q[k - 1] + Len(E[k])
      /\ \A k \in 1 .. N : \A j \in 1 .. Len(E[k]) : s[Q[k - 1] + j] = E[k][j]
  BY <1>1 DEF Laid
<1>14. PICK a \in Nat, b \in Nat : a = Len(C[N]) /\ b = Len(C[N + 1]) /\ Parts(E[N], C[N], a, C[N + 1], b)
  BY <1>1, JoinedChunk
<1>3. /\ a = Len(C[N]) /\ b = Len(C[N + 1]) /\ Len(E[N]) = a + b
      /\ \A i \in 1 .. a : E[N][i] = C[N][i]
      /\ \A i \in 1 .. b : E[N][a + i] = C[N + 1][i]
  BY <1>14 DEF Parts
<1>4. PICK x \in Nat : x = Q[N - 1] /\ Q[N] = x + (a + b)
  <2>1. Q[N - 1] \in Nat /\ N \in 1 .. N
    BY <1>2
  <2> QED BY <1>2, <1>3, <2>1
<1>5. PICK P : P = [k \in 0 .. N + 1 |-> IF k = N + 1 THEN x + (a + b) ELSE IF k = N THEN x + a ELSE Q[k]]
  OBVIOUS
<1>6. /\ P \in [0 .. N + 1 -> Nat] /\ P[N + 1] = (x + a) + b /\ P[N] = x + a
      /\ \A k \in 0 .. N - 1 : P[k] = Q[k]
  <2>1. \A k \in 0 .. N - 1 : P[k] = Q[k] /\ Q[k] \in Nat
    BY <1>2, <1>5
  <2>2. P[N + 1] = (x + a) + b
    BY <1>5
  <2>3. P[N] = x + a
    BY <1>5
  <2>4. \A k \in 0 .. N + 1 : P[k] \in Nat
    BY <2>1, <2>2, <2>3
  <2> QED BY <1>5, <2>1, <2>2, <2>3, <2>4
<1>7. P[0] = 0 /\ Len(s) = P[N + 1] /\ P[N - 1] = x
  BY <1>2, <1>4, <1>6
<1>8. ASSUME NEW k \in 1 .. N - 1
      PROVE  P[k] = P[k - 1] + Len(C[k]) /\ \A j \in 1 .. Len(C[k]) : s[P[k - 1] + j] = C[k][j]
  <2>1. k \in 1 .. N /\ k - 1 \in 0 .. N - 1 /\ k \in 0 .. N - 1
    OBVIOUS
  <2>2. E[k] = C[k]
    BY <1>1 DEF Joined
  <2>3. P[k] = Q[k] /\ P[k - 1] = Q[k - 1]
    BY <1>6, <2>1
  <2> QED BY <1>2, <2>1, <2>2, <2>3
<1>9. P[N] = P[N - 1] + Len(C[N]) /\ P[N + 1] = P[N] + Len(C[N + 1])
  BY <1>3, <1>6, <1>7
<1>10. ASSUME NEW j \in 1 .. a PROVE s[P[N - 1] + j] = C[N][j]
  <2>2. j \in 1 .. a + b /\ N \in 1 .. N
    OBVIOUS
  <2>1. j \in 1 .. Len(E[N])
    BY <1>3, <2>2
  <2>3. s[Q[N - 1] + j] = E[N][j]
    BY <1>2, <2>1, <2>2
  <2>4. E[N][j] = C[N][j]
    BY <1>3
  <2>5. Q[N - 1] = P[N - 1]
    BY <1>4, <1>7
  <2> QED BY <2>3, <2>4, <2>5
<1>11. ASSUME NEW j \in 1 .. b PROVE s[P[N] + j] = C[N + 1][j]
  <2>3. PICK i \in Nat : i = j /\ 1 <= i /\ i <= b
    OBVIOUS
  <2>4. a + i \in 1 .. a + b /\ N \in 1 .. N /\ (x + a) + i = x + (a + i)
    BY <2>3
  <2>1. a + j \in 1 .. Len(E[N]) /\ N \in 1 .. N /\ (x + a) + j = x + (a + j)
    BY <1>3, <2>3, <2>4
  <2>2. s[x + (a + j)] = E[N][a + j]
    BY <1>2, <1>4, <2>1
  <2> QED BY <1>3, <1>6, <2>1, <2>2
<1>12. ASSUME NEW k \in 1 .. N + 1
       PROVE  P[k] = P[k - 1] + Len(C[k]) /\ \A j \in 1 .. Len(C[k]) : s[P[k - 1] + j] = C[k][j]
  <2>1. k \in 1 .. N - 1 \/ k = N \/ (k = N + 1 /\ k - 1 = N)
    OBVIOUS
  <2> QED BY <1>3, <1>8, <1>9, <1>10, <1>11, <2>1
<1>13. Laid(s, C, N + 1, P, 0)
  BY <1>6, <1>7, <1>12 DEF Laid
<1> QED BY <1>1, <1>13

(* the last two of m + 1 units as one, with the start code between them *)
LastTwo(us, m) == [k \in 1 .. m |-> IF k = m THEN us[m] \o StartCode(3) \o us[m + 1] ELSE us[k]]

LEMMA LastTwoIs ==
  ASSUME NEW us, NEW m \in Nat \ {0}, NEW z, Video(us, m + 1, z), z[m + 1] = 3,
         NEW y \in [1 .. m -> {3, 4}], \A k \in 1 .. m : y[k] = z[k]
  PROVE  Video(LastTwo(us, m), m, y) /\ Joined(Byte, Coded(us, z), Coded(LastTwo(us, m), y), m)
<1>1. /\ us \in Seq(Seq(Byte)) /\ Len(us) = m + 1 /\ z \in [1 .. m + 1 -> {3, 4}]
      /\ \A k \in 1 .. m + 1 : us[k] # <<>>
  BY DEF Video
<1>2. PICK a \in Seq(Byte) : a = us[m] /\ a # <<>>
  BY <1>1
<1>3. PICK b \in Seq(Byte) : b = us[m + 1] /\ b # <<>>
  BY <1>1
<1>4. PICK c \in Seq(Byte) : c = StartCode(3)
  BY StartCodeIs
<1>5. PICK f \in Seq(Byte) : f = StartCode(z[m])
  <2>1. z[m] \in {3, 4}
    BY <1>1
  <2> QED BY <2>1, StartCodeIs
<1>6. PICK v : v = LastTwo(us, m)
  OBVIOUS
<1>7. v[m] = (a \o c) \o b /\ \A k \in 1 .. m - 1 : v[k] = us[k]
  <2>3. PICK w : w = (us[m] \o StartCode(3)) \o us[m + 1]
    OBVIOUS
  <2>4. v = [k \in 1 .. m |-> IF k = m THEN w ELSE us[k]]
    BY <1>6, <2>3 DEF LastTwo
  <2>5. m \in 1 .. m
    OBVIOUS
  <2>6. v[m] = w
    BY <2>4, <2>5, Zenon
  <2>1. v[m] = (us[m] \o StartCode(3)) \o us[m + 1]
    BY <2>3, <2>6
  <2>2. \A k \in 1 .. m - 1 : v[k] = us[k]
    BY <1>6 DEF LastTwo
  <2> QED BY <1>2, <1>3, <1>4, <2>1, <2>2
<1>8. v[m] \in Seq(Byte) /\ v[m] # <<>>
  <2>1. PICK ac \in Seq(Byte) : ac = a \o c
    BY ConcatIs
  <2>2. ac \o b \in Seq(Byte) /\ Len(ac \o b) = Len(ac) + Len(b)
    BY ConcatIs
  <2>3. Len(ac) \in Nat /\ Len(b) \in Nat \ {0}
    BY <1>3
  <2>4. Len(ac \o b) # 0
    BY <2>2, <2>3
  <2> QED BY <1>7, <2>1, <2>2, <2>4
<1>9. \A k \in 1 .. m : v[k] \in Seq(Byte) /\ v[k] # <<>>
  <2>1. ASSUME NEW k \in 1 .. m PROVE v[k] \in Seq(Byte) /\ v[k] # <<>>
    <3>1. CASE k = m
      BY <1>8, <3>1
    <3>2. CASE k # m
      <4>1. k \in 1 .. m - 1 /\ k \in 1 .. m + 1
        BY <3>2
      <4>2. us[k] \in Seq(Byte) /\ us[k] # <<>>
        BY <1>1, <4>1
      <4> QED BY <1>7, <4>1, <4>2
    <3> QED BY <3>1, <3>2
  <2> QED BY <2>1
<1>10. v \in Seq(Seq(Byte)) /\ Len(v) = m
  <2>1. v = [k \in 1 .. m |-> v[k]]
    BY <1>6 DEF LastTwo
  <2>2. PICK D : D = Seq(Byte)
    OBVIOUS
  <2>3. v \in Seq(D) /\ Len(v) = m
    BY <1>9, <2>1, <2>2, IsSeq
  <2> QED BY <2>2, <2>3
<1>11. y \in [1 .. m -> {3, 4}] /\ \A k \in 1 .. m : y[k] = z[k]
  OBVIOUS
<1>12. Video(v, m, y)
  BY <1>9, <1>10, <1>11 DEF Video
<1>13. CodeChunks(Coded(us, z), us, m + 1, z) /\ CodeChunks(Coded(v, y), v, m, y)
  BY <1>12, CodedIs
<1>14. PICK C : C = Coded(us, z)
  OBVIOUS
<1>15. PICK E : E = Coded(v, y)
  OBVIOUS
<1>16. C \in Seq(Seq(Byte)) /\ Len(C) = m + 1 /\ \A k \in 1 .. m + 1 : C[k] = StartCode(z[k]) \o us[k]
  BY <1>13, <1>14 DEF CodeChunks
<1>17. E \in Seq(Seq(Byte)) /\ Len(E) = m /\ \A k \in 1 .. m : E[k] = StartCode(y[k]) \o v[k]
  BY <1>13, <1>15 DEF CodeChunks
<1>18. \A k \in 1 .. m - 1 : E[k] = C[k]
  <2>1. ASSUME NEW k \in 1 .. m - 1 PROVE E[k] = C[k]
    <3>1. k \in 1 .. m /\ k \in 1 .. m + 1
      OBVIOUS
    <3>2. v[k] = us[k]
      BY <1>7
    <3>3. y[k] = z[k]
      BY <1>11, <3>1
    <3>4. E[k] = StartCode(y[k]) \o v[k]
      BY <1>17, <3>1
    <3>5. C[k] = StartCode(z[k]) \o us[k]
      BY <1>16, <3>1
    <3> QED BY <3>2, <3>3, <3>4, <3>5
  <2> QED BY <2>1
<1>19. E[m] = C[m] \o C[m + 1]
  <2>1. m \in 1 .. m /\ m \in 1 .. m + 1 /\ m + 1 \in 1 .. m + 1
    OBVIOUS
  <2>2. C[m] = f \o a
    BY <1>2, <1>5, <1>16, <2>1
  <2>3. C[m + 1] = c \o b
    BY <1>3, <1>4, <1>16, <2>1
  <2>4. E[m] = f \o ((a \o c) \o b)
    BY <1>5, <1>7, <1>11, <1>17, <2>1
  <2>5. f \o ((a \o c) \o b) = (f \o a) \o (c \o b)
    <3>1. SameTogether(f, a, c, b)
      BY ConcatThrice
    <3> QED BY <3>1 DEF SameTogether
  <2> QED BY <2>2, <2>3, <2>4, <2>5
<1>20. Joined(Byte, C, E, m)
  BY <1>16, <1>17, <1>18, <1>19 DEF Joined
<1> QED BY <1>6, <1>12, <1>14, <1>15, <1>20

(* A stream of units is one of the units of which the last two are taken as one, and
   the other way round. *)
LEMMA StreamJoined ==
  ASSUME NEW d, NEW us, NEW m \in Nat \ {0}, NEW z, NEW P, IsStream(d, us, m + 1, z, P), z[m + 1] = 3,
         NEW y \in [1 .. m -> {3, 4}], \A k \in 1 .. m : y[k] = z[k],
         NEW Q, Q = [k \in 0 .. m |-> IF k = m THEN P[m + 1] ELSE P[k]]
  PROVE  IsStream(d, LastTwo(us, m), m, y, Q)
<1>1. d \in Seq(Byte) /\ Video(us, m + 1, z) /\ Laid(d, Coded(us, z), m + 1, P, 0)
  BY DEF IsStream
<1>2. Video(LastTwo(us, m), m, y) /\ Joined(Byte, Coded(us, z), Coded(LastTwo(us, m), y), m)
  BY <1>1, LastTwoIs
<1>3. Laid(d, Coded(LastTwo(us, m), y), m, Q, 0)
  BY <1>1, <1>2, ChunksJoined
<1> QED BY <1>1, <1>2, <1>3 DEF IsStream

LEMMA StreamSplit ==
  ASSUME NEW d, NEW us, NEW m \in Nat \ {0}, NEW x, Video(us, m + 1, x), NEW y, NEW Q,
         IsStream(d, LastTwo(us, m), m, y, Q)
  PROVE  \E z, P : IsStream(d, us, m + 1, z, P)
<1>1. PICK z : z = [k \in 1 .. m + 1 |-> IF k = m + 1 THEN 3 ELSE y[k]]
  OBVIOUS
<1>2. y \in [1 .. m -> {3, 4}] /\ d \in Seq(Byte) /\ Laid(d, Coded(LastTwo(us, m), y), m, Q, 0)
  BY DEF IsStream, Video
<1>3. z[m + 1] = 3 /\ \A k \in 1 .. m : z[k] = y[k]
  BY <1>1
<1>4. z \in [1 .. m + 1 -> {3, 4}]
  BY <1>1, <1>2, <1>3
<1>5. Video(us, m + 1, z)
  BY <1>4 DEF Video
<1>6. Joined(Byte, Coded(us, z), Coded(LastTwo(us, m), y), m)
  BY <1>2, <1>3, <1>5, LastTwoIs
<1>7. PICK P : Laid(d, Coded(us, z), m + 1, P, 0)
  BY <1>2, <1>6, ChunksSplit
<1>8. IsStream(d, us, m + 1, z, P)
  BY <1>2, <1>5, <1>7 DEF IsStream
<1> QED BY <1>8

-----------------------------------------------------------------------------
(***************************************************************************)
(* The turns of the first loop.                                            *)
(***************************************************************************)
(* what the k-th turn finds at the place it begins at: the start code, and the end of the
   k-th unit *)
Found(d, y, Q, m) ==
  \A k \in 1 .. m : StartCodeAt(d, Q[k - 1]) = y[k] /\ getEndOfNaluPosition(d, Q[k - 1] + y[k]) = Q[k]

(* Every unit in front of the last two is found. *)
LEMMA NotLastIsFound ==
  ASSUME NEW d, NEW us, NEW n, NEW z, NEW P, IsStream(d, us, n, z, P), LegalUnits(us, n),
         NEW k \in 1 .. n, k + 2 <= n
  PROVE  getEndOfNaluPosition(d, P[k - 1] + z[k]) = P[k]
<1>1. PICK N \in Nat, K \in Nat : N = n /\ K = k /\ K + 2 <= N
  <2>1. n \in Nat
    BY DEF IsStream, Video
  <2> QED BY <2>1
<1>2. /\ P[n] \in Nat /\ P[n] = Len(d) /\ \A i \in 0 .. n : P[i] + 4 * (n - i) <= P[n]
  <2>1. n \in 0 .. n
    BY <1>1
  <2> QED BY <2>1, UnitsFollow
<1>3. P[k] \in Nat
  <2>1. k \in 0 .. n
    BY <1>1
  <2> QED BY <2>1, UnitsFollow
<1>4. PICK x \in Nat : x = P[k]
  BY <1>3
<1>5. PICK w \in Nat : w = P[n]
  BY <1>2
<1>6. x + 4 * (N - K) <= w
  <2>1. k \in 0 .. n
    BY <1>1
  <2> QED BY <1>1, <1>2, <1>4, <1>5, <2>1
<1>7. x <= w - 5 /\ K < N
  BY <1>1, <1>6
<1>8. getEndOfNaluPosition(d, P[k - 1] + z[k]) = IF k < n /\ P[k] <= Len(d) - 5 THEN P[k] ELSE Len(d)
  BY EndOfNaluIs
<1> QED BY <1>1, <1>2, <1>4, <1>5, <1>7, <1>8

(* The last unit ends with the stream. *)
LEMMA LastIsFound ==
  ASSUME NEW d, NEW us, NEW n, NEW z, NEW P, IsStream(d, us, n, z, P), LegalUnits(us, n)
  PROVE  getEndOfNaluPosition(d, P[n - 1] + z[n]) = P[n] /\ P[n] = Len(d)
<1>1. n \in Nat \ {0}
  BY DEF IsStream, Video
<1>2. n \in 1 .. n /\ n \in 0 .. n /\ ~(n < n)
  BY <1>1
<1>3. P[n] = Len(d)
  BY <1>2, UnitsFollow
<1>4. getEndOfNaluPosition(d, P[n - 1] + z[n]) = IF n < n /\ P[n] <= Len(d) - 5 THEN P[n] ELSE Len(d)
  BY <1>2, EndOfNaluIs
<1> QED BY <1>2, <1>3, <1>4

(* The last but one ends with the stream too if the last has one byte behind a start code
   of three; otherwise it is found. *)
LEMMA LastButOneIsFound ==
  ASSUME NEW d, NEW us, NEW m \in Nat \ {0}, NEW z, NEW P, IsStream(d, us, m + 1, z, P), LegalUnits(us, m + 1)
  PROVE  getEndOfNaluPosition(d, P[m - 1] + z[m])
           = IF z[m + 1] = 3 /\ Len(us[m + 1]) = 1 THEN P[m + 1] ELSE P[m]
<1>1. m \in 1 .. m + 1 /\ m + 1 \in 1 .. m + 1 /\ (m + 1) - 1 = m /\ m < m + 1
  OBVIOUS
<1>2. /\ P[m] \in Nat /\ z[m + 1] \in {3, 4} /\ us[m + 1] \in Seq(Byte)
      /\ P[m + 1] = P[m] + (z[m + 1] + Len(us[m + 1]))
  BY <1>1, UnitIsHeld
<1>3. PICK l \in Nat \ {0} : l = Len(us[m + 1])
  <2>1. us[m + 1] # <<>>
    BY <1>1 DEF LegalUnits, Legal
  <2> QED BY <1>2, <2>1
<1>4. PICK x \in Nat : x = P[m]
  BY <1>2
<1>5. PICK w \in {3, 4} : w = z[m + 1]
  BY <1>2
<1>6. P[m + 1] = x + (w + l)
  BY <1>2, <1>3, <1>4, <1>5
<1>7. P[m + 1] = Len(d)
  BY LastIsFound
<1>8. getEndOfNaluPosition(d, P[m - 1] + z[m]) = IF m < m + 1 /\ P[m] <= Len(d) - 5 THEN P[m] ELSE Len(d)
  BY <1>1, EndOfNaluIs
<1>9. P[m] <= Len(d) - 5 <=> ~(w = 3 /\ l = 1)
  BY <1>4, <1>6, <1>7
<1> QED BY <1>1, <1>3, <1>5, <1>7, <1>8, <1>9

(* All units are found, where not the last of them is too short. *)
LEMMA AllAreFound ==
  ASSUME NEW d, NEW us, NEW n, NEW z, NEW P, IsStream(d, us, n, z, P), LegalUnits(us, n),
         n > 1 => ~(z[n] = 3 /\ Len(us[n]) = 1)
  PROVE  Found(d, z, P, n)
<1>1. n \in Nat \ {0}
  BY DEF IsStream, Video
<1>2. ASSUME NEW k \in 1 .. n PROVE getEndOfNaluPosition(d, P[k - 1] + z[k]) = P[k]
  <2>1. CASE k + 2 <= n
    BY <2>1, NotLastIsFound
  <2>2. CASE k = n
    BY <2>2, LastIsFound
  <2>3. CASE k + 1 = n
    <3>1. k \in Nat \ {0} /\ n > 1
      BY <1>1, <2>3
    <3>2. IsStream(d, us, k + 1, z, P) /\ LegalUnits(us, k + 1)
      BY <2>3
    <3>3. getEndOfNaluPosition(d, P[k - 1] + z[k])
            = IF z[k + 1] = 3 /\ Len(us[k + 1]) = 1 THEN P[k + 1] ELSE P[k]
      BY <3>1, <3>2, LastButOneIsFound
    <3> QED BY <2>3, <3>1, <3>3
  <2>4. k + 2 <= n \/ k = n \/ k + 1 = n
    BY <1>1
  <2> QED BY <2>1, <2>2, <2>3, <2>4
<1>3. \A k \in 1 .. n : StartCodeAt(d, P[k - 1]) = z[k]
  BY StartCodeAtIs
<1> QED BY <1>2, <1>3 DEF Found

(* Otherwise the last two are found as one. *)
LEMMA LastTwoAreFound ==
  ASSUME NEW d, NEW us, NEW m \in Nat \ {0}, NEW z, NEW P, IsStream(d, us, m + 1, z, P), LegalUnits(us, m + 1),
         z[m + 1] = 3, Len(us[m + 1]) = 1, NEW y, \A k \in 1 .. m : y[k] = z[k],
         NEW Q, Q = [k \in 0 .. m |-> IF k = m THEN P[m + 1] ELSE P[k]]
  PROVE  Found(d, y, Q, m)
<1>1. Q[m] = P[m + 1] /\ \A k \in 0 .. m - 1 : Q[k] = P[k]
  OBVIOUS
<1>2. ASSUME NEW k \in 1 .. m PROVE StartCodeAt(d, Q[k - 1]) = y[k] /\ getEndOfNaluPosition(d, Q[k - 1] + y[k]) = Q[k]
  <2>1. k \in 1 .. m + 1 /\ k - 1 \in 0 .. m - 1
    OBVIOUS
  <2>2. Q[k - 1] = P[k - 1] /\ y[k] = z[k]
    BY <1>1, <2>1
  <2>3. StartCodeAt(d, P[k - 1]) = z[k]
    BY <2>1, StartCodeAtIs
  <2>4. CASE k = m
    <3>1. getEndOfNaluPosition(d, P[m - 1] + z[m])
            = IF z[m + 1] = 3 /\ Len(us[m + 1]) = 1 THEN P[m + 1] ELSE P[m]
      BY LastButOneIsFound
    <3> QED BY <1>1, <2>2, <2>3, <2>4, <3>1
  <2>5. CASE k # m
    <3>1. k \in 0 .. m - 1 /\ k + 2 <= m + 1
      BY <2>5
    <3>2. getEndOfNaluPosition(d, P[k - 1] + z[k]) = P[k]
      BY <2>1, <3>1, NotLastIsFound
    <3>3. Q[k] = P[k]
      BY <1>1, <3>1
    <3> QED BY <2>2, <2>3, <3>2, <3>3
  <2> QED BY <2>4, <2>5
<1> QED BY <1>2 DEF Found

-----------------------------------------------------------------------------
(***************************************************************************)
(* The units of the encoder, and those that are multiplexed.               *)
(***************************************************************************)
VideoSource ==
  /\ coding \in Codings /\ longs \subseteq DOMAIN nalUnits
  /\ \E n \in Nat \ {0} : nalUnits \in [1 .. n -> Units[coding[1]]]

CodeSizes == [k \in 1 .. Len(nalUnits) |-> IF k \in longs THEN 4 ELSE 3]

Fits(us, n) == \A k \in 1 .. n : Len(us[k]) < Power(256, Precision)

(* A size with some room fits into its field. *)
LEMMA RoomIsEnough ==
  ASSUME NEW l \in Nat, l \div Power(256, Precision - 1) < 128
  PROVE  l < Power(256, Precision)
<1>1. PICK p \in Nat : p = Precision - 1 /\ Precision = p + 1
  BY StreamAssumption
<1>2. PICK x \in Nat \ {0} : x = Power(256, p) /\ Power(256, p + 1) = 256 * x
  <2>1. PICK b \in Nat \ {0} : b = 256
    OBVIOUS
  <2>2. Power(b, p) \in Nat \ {0} /\ Power(b, p + 1) = b * Power(b, p)
    BY PowerIs
  <2> QED BY <2>1, <2>2
<1>3. PICK q \in Nat, r \in 0 .. x - 1 : q = l \div x /\ l = x * q + r
  OBVIOUS
<1>4. q < 128
  BY <1>1, <1>2, <1>3
<1>5. x * q + x <= x * 128
  <2>1. q + 1 <= 128
    BY <1>4
  <2>2. x * (q + 1) <= x * 128
    BY <2>1
  <2>3. x * (q + 1) = x * q + x
    OBVIOUS
  <2> QED BY <2>2, <2>3
<1>6. l < 256 * x
  BY <1>3, <1>5
<1> QED BY <1>1, <1>2, <1>6

LEMMA SourceIs ==
  ASSUME VideoSource
  PROVE  \E n \in Nat \ {0} :
           /\ n = Len(nalUnits) /\ Video(nalUnits, n, CodeSizes) /\ LegalUnits(nalUnits, n)
           /\ \A k \in 1 .. n : Len(nalUnits[k]) + 4 < Power(256, Precision)
           /\ \A k \in 1 .. n : CodeSizes[k] = 3 <=> k \notin longs
<1>1. PICK n \in Nat \ {0} : nalUnits \in [1 .. n -> Units[coding[1]]]
  BY DEF VideoSource
<1>2. \A u \in Units[coding[1]] : Legal(u) /\ (Len(u) + 4) \div Power(256, Precision - 1) < 128
  BY StreamAssumption, SizeAssumption DEF VideoSource
<1>3. \A k \in 1 .. n : Legal(nalUnits[k]) /\ (Len(nalUnits[k]) + 4) \div Power(256, Precision - 1) < 128
  BY <1>1, <1>2
<1>4. \A k \in 1 .. n : nalUnits[k] \in Seq(Byte) /\ nalUnits[k] # <<>>
  BY <1>3 DEF Legal
<1>5. nalUnits \in Seq(Seq(Byte)) /\ Len(nalUnits) = n
  <2>1. nalUnits = [k \in 1 .. n |-> nalUnits[k]]
    BY <1>1
  <2>2. PICK D : D = Seq(Byte)
    OBVIOUS
  <2>3. nalUnits \in Seq(D) /\ Len(nalUnits) = n
    BY <1>4, <2>1, <2>2, IsSeq
  <2> QED BY <2>2, <2>3
<1>6. CodeSizes \in [1 .. n -> {3, 4}] /\ \A k \in 1 .. n : CodeSizes[k] = 3 <=> k \notin longs
  BY <1>5 DEF CodeSizes
<1>7. ASSUME NEW k \in 1 .. n PROVE Len(nalUnits[k]) + 4 < Power(256, Precision)
  <2>1. PICK l \in Nat : l = Len(nalUnits[k]) + 4
    BY <1>4
  <2>2. l \div Power(256, Precision - 1) < 128
    BY <1>3, <2>1
  <2>3. l < Power(256, Precision)
    BY <2>2, RoomIsEnough
  <2> QED BY <2>1, <2>3
<1>8. Video(nalUnits, n, CodeSizes) /\ LegalUnits(nalUnits, n)
  BY <1>3, <1>4, <1>5, <1>6 DEF Video, LegalUnits
<1> QED BY <1>5, <1>6, <1>7, <1>8

LEMMA EncoderStream ==
  ASSUME VideoSource
  PROVE  \E P : IsStream(ByteStream(nalUnits, longs), nalUnits, Len(nalUnits), CodeSizes, P)
<1>1. PICK n \in Nat \ {0} : n = Len(nalUnits) /\ Video(nalUnits, n, CodeSizes)
  BY SourceIs
<1>2. CodeChunks(Coded(nalUnits, CodeSizes), nalUnits, n, CodeSizes)
  BY <1>1, CodedIs
<1>3. PICK C \in Seq(Seq(Byte)) : C = Coded(nalUnits, CodeSizes) /\ Len(C) = n
  BY <1>2 DEF CodeChunks
<1>4. FlattenSeq(C) \in Seq(Byte) /\ \E P : Laid(FlattenSeq(C), C, n, P, 0)
  BY <1>3, FlattenLaid
<1>5. ByteStream(nalUnits, longs) = FlattenSeq(C)
  <2>1. DOMAIN nalUnits = 1 .. n
    BY <1>1 DEF Video
  <2>2. [k \in DOMAIN nalUnits |-> StartCode(IF k \in longs THEN 4 ELSE 3) \o nalUnits[k]] = C
    <3>1. \A k \in 1 .. n : CodeSizes[k] = IF k \in longs THEN 4 ELSE 3
      BY <1>1 DEF CodeSizes
    <3>2. C = [k \in 1 .. n |-> StartCode(CodeSizes[k]) \o nalUnits[k]]
      BY <1>1, <1>3 DEF Coded
    <3> QED BY <2>1, <3>1, <3>2
  <2> QED BY <2>2 DEF ByteStream
<1>6. PICK P : Laid(FlattenSeq(C), C, n, P, 0)
  BY <1>4
<1>7. IsStream(ByteStream(nalUnits, longs), nalUnits, n, CodeSizes, P)
  BY <1>1, <1>3, <1>4, <1>5, <1>6 DEF IsStream
<1> QED BY <1>1, <1>7

(* the units that the samples are *)
Kept == IF Hidden THEN Merged ELSE nalUnits

LEMMA MergedIs ==
  ASSUME NEW m \in Nat \ {0}, Len(nalUnits) = m + 1, nalUnits \in Seq(Seq(Byte))
  PROVE  Merged = LastTwo(nalUnits, m)
<1>1. PICK u : u = nalUnits[m] \o StartCode(3) \o nalUnits[m + 1]
  OBVIOUS
<1>2. PICK D : D = Seq(Byte)
  OBVIOUS
<1>9. PICK us \in Seq(D) : us = nalUnits /\ Len(us) = m + 1
  BY <1>2
<1>10. PICK l \in Nat : l = m - 1 /\ l <= Len(us)
  BY <1>9
<1>3. PICK s \in Seq(D) : s = SubSeq(nalUnits, 1, m - 1) /\ Len(s) = m - 1 /\ \A k \in 1 .. m - 1 : s[k] = nalUnits[k]
  <2>1. SubSeq(us, 1, l) \in Seq(D)
    BY <1>10
  <2>2. Len(SubSeq(us, 1, l)) = l
    BY <1>10
  <2>3. \A k \in 1 .. l : SubSeq(us, 1, l)[k] = us[k]
    BY <1>10
  <2> QED BY <1>9, <1>10, <2>1, <2>2, <2>3
<1>4. (m + 1) - 2 = m - 1 /\ (m + 1) - 1 = m
  OBVIOUS
<1>5. Merged = Append(s, u)
  BY <1>1, <1>3, <1>4 DEF Merged
<1>6. Append(s, u) = [k \in 1 .. m |-> IF k = m THEN u ELSE s[k]]
  BY <1>3
<1>7. LastTwo(nalUnits, m) = [k \in 1 .. m |-> IF k = m THEN u ELSE nalUnits[k]]
  BY <1>1 DEF LastTwo
<1>8. \A k \in 1 .. m : k # m => s[k] = nalUnits[k]
  BY <1>3
<1> QED BY <1>5, <1>6, <1>7, <1>8

(* The samples are those of a stream of m units at Q, behind start codes of the sizes y,
   that the search finds. *)
KeptStream(m, y, Q) ==
  /\ IsStream(ByteStream(nalUnits, longs), Kept, m, y, Q)
  /\ Found(ByteStream(nalUnits, longs), y, Q, m) /\ Fits(Kept, m)

(* a, of length l, with c and b behind it is longer by four *)
FourLonger(a, c, b, l) == Len((a \o c) \o b) = l + 4

LEMMA ThreeLengths ==
  ASSUME NEW D, NEW a \in Seq(D), NEW c \in Seq(D), NEW b \in Seq(D), NEW l, l = Len(a), Len(c) = 3, Len(b) = 1
  PROVE  FourLonger(a, c, b, l)
<1>1. PICK x \in Nat : x = l
  OBVIOUS
<1>2. PICK y \in Nat : y = Len(c)
  OBVIOUS
<1>3. PICK w \in Nat : w = Len(b)
  OBVIOUS
<1>4. PICK ac \in Seq(D) : ac = a \o c /\ Parts(ac, a, x, c, y)
  BY <1>1, <1>2, PartsOf
<1>5. Len(ac) = x + y
  BY <1>4 DEF Parts
<1>6. Parts(ac \o b, ac, x + y, b, w)
  BY <1>3, <1>5, PartsOf
<1>7. Len(ac \o b) = (x + y) + w
  BY <1>6 DEF Parts
<1> QED BY <1>1, <1>2, <1>3, <1>4, <1>7 DEF FourLonger

LEMMA LastTwoFit ==
  ASSUME NEW us \in Seq(Seq(Byte)), NEW m \in Nat \ {0}, Len(us) = m + 1,
         \A k \in 1 .. m + 1 : Len(us[k]) + 4 < Power(256, Precision), Len(us[m + 1]) = 1
  PROVE  Fits(LastTwo(us, m), m)
<1>1. PICK w : w = (us[m] \o StartCode(3)) \o us[m + 1]
  OBVIOUS
<1>2. PICK v : v = LastTwo(us, m) /\ v = [k \in 1 .. m |-> IF k = m THEN w ELSE us[k]]
  BY <1>1 DEF LastTwo
<1>3. PICK X \in Nat : X = Power(256, Precision)
  <2>1. PICK b \in Nat \ {0}, n \in Nat : b = 256 /\ n = Precision
    BY StreamAssumption
  <2>2. Power(b, n) \in Nat \ {0}
    BY PowerIs
  <2> QED BY <2>1, <2>2
<1>4. PICK a \in Seq(Byte) : a = us[m]
  OBVIOUS
<1>5. PICK b \in Seq(Byte) : b = us[m + 1] /\ Len(b) = 1
  OBVIOUS
<1>6. PICK c \in Seq(Byte) : c = StartCode(3) /\ Len(c) = 3
  BY StartCodeIs
<1>7. Len(w) = Len(a) + 4
  <2>1. PICK l : l = Len(a)
    OBVIOUS
  <2>2. PICK D : D = Byte /\ a \in Seq(D) /\ b \in Seq(D) /\ c \in Seq(D)
    OBVIOUS
  <2>3. FourLonger(a, c, b, l)
    BY <1>5, <1>6, <2>1, <2>2, ThreeLengths
  <2> QED BY <1>1, <1>4, <1>5, <1>6, <2>1, <2>3 DEF FourLonger
<1>8. ASSUME NEW k \in 1 .. m PROVE Len(v[k]) < X
  <2>1. k \in 1 .. m + 1 /\ m \in 1 .. m + 1
    OBVIOUS
  <2>2. CASE k = m
    <3>1. v[k] = w
      BY <1>2, <2>2, Zenon
    <3> QED BY <1>3, <1>4, <1>7, <2>1, <3>1
  <2>3. CASE k # m
    <3>1. v[k] = us[k]
      BY <1>2, <2>3, Zenon
    <3>2. PICK l \in Nat : l = Len(us[k])
      BY <2>1
    <3>3. l + 4 < X
      BY <1>3, <2>1, <3>2
    <3> QED BY <3>1, <3>2, <3>3
  <2> QED BY <2>2, <2>3
<1> QED BY <1>2, <1>3, <1>8 DEF Fits

LEMMA KeptIs ==
  ASSUME VideoSource
  PROVE  \E m, y, Q : m \in Nat \ {0} /\ KeptStream(m, y, Q)
<1>1. PICK n \in Nat \ {0} :
           /\ n = Len(nalUnits) /\ Video(nalUnits, n, CodeSizes) /\ LegalUnits(nalUnits, n)
           /\ \A k \in 1 .. n : Len(nalUnits[k]) + 4 < Power(256, Precision)
           /\ \A k \in 1 .. n : CodeSizes[k] = 3 <=> k \notin longs
  BY SourceIs
<1>2. PICK d : d = ByteStream(nalUnits, longs)
  OBVIOUS
<1>3. PICK P : IsStream(d, nalUnits, n, CodeSizes, P)
  BY <1>1, <1>2, EncoderStream
<1>4. nalUnits \in Seq(Seq(Byte))
  BY <1>1 DEF Video
<1>5. PICK z : z = CodeSizes
  OBVIOUS
<1>6. Hidden <=> n > 1 /\ z[n] = 3 /\ Len(nalUnits[n]) = 1
  <2>1. Last(nalUnits) = nalUnits[n]
    BY <1>1 DEF Last
  <2>2. n \in 1 .. n
    OBVIOUS
  <2> QED BY <1>1, <1>5, <2>1, <2>2 DEF Hidden
<1>7. CASE Hidden
  <2>1. PICK m \in Nat \ {0} : m + 1 = n
    <3>1. n - 1 \in Nat \ {0} /\ (n - 1) + 1 = n
      BY <1>6, <1>7
    <3> QED BY <3>1
  <2>2. Kept = LastTwo(nalUnits, m)
    BY <1>1, <1>4, <1>7, <2>1, MergedIs DEF Kept
  <2>3. PICK y : y = [k \in 1 .. m |-> z[k]]
    OBVIOUS
  <2>4. z \in [1 .. m + 1 -> {3, 4}]
    BY <1>1, <1>5, <2>1 DEF Video
  <2>5. y \in [1 .. m -> {3, 4}] /\ \A k \in 1 .. m : y[k] = z[k]
    BY <2>3, <2>4
  <2>6. PICK Q : Q = [k \in 0 .. m |-> IF k = m THEN P[m + 1] ELSE P[k]]
    OBVIOUS
  <2>7. IsStream(d, nalUnits, m + 1, z, P) /\ LegalUnits(nalUnits, m + 1) /\ z[m + 1] = 3 /\ Len(nalUnits[m + 1]) = 1
    BY <1>1, <1>3, <1>5, <1>6, <1>7, <2>1
  <2>8. IsStream(d, LastTwo(nalUnits, m), m, y, Q)
    BY <2>5, <2>6, <2>7, StreamJoined
  <2>9. Found(d, y, Q, m)
    BY <2>5, <2>6, <2>7, LastTwoAreFound
  <2>10. Fits(LastTwo(nalUnits, m), m)
    BY <1>1, <1>4, <2>1, <2>7, LastTwoFit
  <2>11. KeptStream(m, y, Q)
    BY <1>2, <2>2, <2>8, <2>9, <2>10 DEF KeptStream
  <2> QED BY <2>11
<1>8. CASE ~Hidden
  <2>1. Kept = nalUnits
    BY <1>8 DEF Kept
  <2>2. IsStream(d, nalUnits, n, z, P)
    BY <1>3, <1>5
  <2>3. Found(d, z, P, n)
    BY <1>1, <1>6, <1>8, <2>2, AllAreFound
  <2>4. Fits(nalUnits, n)
    <3>1. PICK X \in Nat : X = Power(256, Precision)
      <4>1. PICK b \in Nat \ {0}, p \in Nat : b = 256 /\ p = Precision
        BY StreamAssumption
      <4>2. Power(b, p) \in Nat \ {0}
        BY PowerIs
      <4> QED BY <4>1, <4>2
    <3>2. ASSUME NEW k \in 1 .. n PROVE Len(nalUnits[k]) < X
      <4>1. PICK l \in Nat : l = Len(nalUnits[k])
        <5>1. nalUnits[k] \in Seq(Byte)
          BY <1>1, <1>4
        <5> QED BY <5>1
      <4>2. l + 4 < X
        BY <1>1, <3>1, <4>1
      <4> QED BY <4>1, <4>2
    <3> QED BY <3>1, <3>2 DEF Fits
  <2>5. KeptStream(n, z, P)
    BY <1>2, <2>1, <2>2, <2>3, <2>4 DEF KeptStream
  <2> QED BY <2>5
<1> QED BY <1>7, <1>8

(* Streams in which the same chunks are laid are the same. *)
LEMMA SamePlaces ==
  ASSUME NEW C, NEW n \in Nat, NEW s, NEW P, Laid(s, C, n, P, 0), NEW t, NEW Q, Laid(t, C, n, Q, 0)
  PROVE  \A k \in 0 .. n : P[k] = Q[k]
<1> DEFINE T == {k \in 0 .. n : P[k] = Q[k]}
<1>1. 0 \in T
  BY DEF Laid
<1>2. ASSUME NEW k \in 1 .. n, k - 1 \in T PROVE k \in T
  <2>1. P[k] = P[k - 1] + Len(C[k]) /\ Q[k] = Q[k - 1] + Len(C[k])
    BY DEF Laid
  <2>2. P[k - 1] = Q[k - 1]
    BY <1>2
  <2> QED BY <2>1, <2>2
<1>3. \A k \in 0 .. n : k \in T
  <2> HIDE DEF T
  <2> QED BY <1>1, <1>2, PrefixInduction
<1> QED BY <1>3

(* the k-th element of s is one of a chunk *)
InChunk(s, C, n, P, k) ==
  \E l \in 1 .. n : \E j \in 1 .. Len(C[l]) : k = P[l - 1] + j /\ s[k] = C[l][j]

LEMMA PlaceFound ==
  ASSUME NEW D, NEW C \in Seq(Seq(D)), NEW n \in Nat, n <= Len(C), NEW s, NEW P, Laid(s, C, n, P, 0),
         NEW k \in 1 .. Len(s)
  PROVE  InChunk(s, C, n, P, k)
<1>1. k \in 0 + 1 .. Len(s)
  OBVIOUS
<1>2. \E l \in 1 .. n : \E j \in 1 .. Len(C[l]) : k = P[l - 1] + j /\ s[k] = C[l][j]
  BY <1>1, PlaceIsInChunk
<1> QED BY <1>2 DEF InChunk

LEMMA SameLaid ==
  ASSUME NEW D, NEW C \in Seq(Seq(D)), NEW n \in Nat, n <= Len(C), NEW s \in Seq(D), NEW P, Laid(s, C, n, P, 0),
         NEW t \in Seq(D), NEW Q, Laid(t, C, n, Q, 0)
  PROVE  s = t
<1>1. \A k \in 0 .. n : P[k] = Q[k]
  BY SamePlaces
<1>2. Len(s) = Len(t) /\ Len(s) \in Nat
  <2>1. Len(s) = P[n] /\ Len(t) = Q[n] /\ n \in 0 .. n
    BY DEF Laid
  <2> QED BY <1>1, <2>1
<1>3. ASSUME NEW i \in 1 .. Len(s) PROVE s[i] = t[i]
  <2>1. InChunk(s, C, n, P, i)
    BY PlaceFound
  <2>2. PICK l \in 1 .. n : \E j \in 1 .. Len(C[l]) : i = P[l - 1] + j /\ s[i] = C[l][j]
    BY <2>1 DEF InChunk
  <2>3. PICK j \in 1 .. Len(C[l]) : i = P[l - 1] + j /\ s[i] = C[l][j]
    BY <2>2
  <2>4. t[Q[l - 1] + j] = C[l][j]
    BY DEF Laid
  <2>5. l - 1 \in 0 .. n
    OBVIOUS
  <2> QED BY <1>1, <2>3, <2>4, <2>5
<1> QED BY <1>2, <1>3, SameSeq

(* Only the chunks that are laid matter. *)
LEMMA LaidElsewhere ==
  ASSUME NEW C, NEW E, NEW n, NEW s, NEW P, Laid(s, C, n, P, 0), \A k \in 1 .. n : C[k] = E[k]
  PROVE  Laid(s, E, n, P, 0)
BY DEF Laid

(* The bytes of a stream are what the stream holds there. *)
LEMMA BytesAre ==
  ASSUME NEW D, NEW s \in Seq(D), NEW E, NEW t \in Seq(E), NEW a \in Nat, NEW m \in Nat, m = Len(t), Holds(s, a, t)
  PROVE  Bytes(s, a, a + m) = t
<1>1. PICK b \in Nat : b = a + m /\ b <= Len(s)
  BY DEF Holds
<1>3. PICK u : u = SubSeq(s, a + 1, b)
  OBVIOUS
<1>4. u \in Seq(D) /\ Len(u) = m /\ \A j \in 1 .. m : u[j] = s[a + j]
  BY <1>1, <1>3
<1>5. \A j \in 1 .. m : u[j] = t[j]
  BY <1>4 DEF Holds
<1>6. u = t
  BY <1>4, <1>5, SameSeq
<1> QED BY <1>1, <1>3, <1>6 DEF Bytes

-----------------------------------------------------------------------------
(***************************************************************************)
(* The samples of a stream of units.                                       *)
(***************************************************************************)
LEMMA SampleSizeIs ==
  ASSUME NEW l \in Nat
  PROVE  /\ SampleSize(l) \in Seq(Byte) /\ Len(SampleSize(l)) = Precision
         /\ IsDigits(SampleSize(l), l, 256, Precision)
<1>1. PICK n \in Nat : n = Precision
  BY StreamAssumption
<1>2. PICK c : c = SampleSize(l) /\ c = [i \in 1 .. n |-> Digit(l, 256, n, i)]
  BY <1>1 DEF SampleSize
<1>3. ASSUME NEW i \in 1 .. n PROVE c[i] = Digit(l, 256, n, i) /\ c[i] \in Byte
  <2>1. c[i] = Digit(l, 256, n, i)
    BY <1>2
  <2>2. PICK b \in Nat \ {0}, j \in Nat : b = 256 /\ j = n - i
    OBVIOUS
  <2>3. Power(b, j) \in Nat \ {0}
    BY <2>2, PowerIs
  <2>4. PICK x \in Nat \ {0} : x = Power(b, j)
    BY <2>3
  <2>5. PICK v \in Nat : v = l \div x
    OBVIOUS
  <2>6. v % 256 \in 0 .. 255
    OBVIOUS
  <2> QED BY <2>1, <2>2, <2>4, <2>5, <2>6 DEF Digit, Byte
<1>4. c = [i \in 1 .. n |-> c[i]]
  BY <1>2
<1>5. c \in Seq(Byte) /\ Len(c) = n
  <2>1. \A i \in 1 .. n : c[i] \in Byte
    BY <1>3
  <2> QED BY <1>4, <2>1, IsSeq
<1>6. c \in Seq(Nat)
  <2>1. \A i \in 1 .. n : c[i] \in Nat
    BY <1>3 DEF Byte
  <2> QED BY <1>4, <2>1, IsSeq
<1> QED BY <1>1, <1>2, <1>3, <1>5, <1>6 DEF IsDigits

Sampled(us) == [k \in 1 .. Len(us) |-> SampleSize(Len(us[k])) \o us[k]]

SampleChunks(C, us, n) ==
  /\ C \in Seq(Seq(Byte)) /\ Len(C) = n
  /\ \A k \in 1 .. n : C[k] = SampleSize(Len(us[k])) \o us[k] /\ Len(C[k]) = Precision + Len(us[k])

LEMMA SampledIs ==
  ASSUME NEW us, NEW n, NEW z, Video(us, n, z)
  PROVE  SampleChunks(Sampled(us), us, n) /\ AsSamples(us) = FlattenSeq(Sampled(us))
<1>1. us \in Seq(Seq(Byte)) /\ n \in Nat /\ n = Len(us) /\ \A k \in 1 .. n : us[k] \in Seq(Byte)
  BY DEF Video
<1>2. PICK c : c = Sampled(us) /\ c = [k \in 1 .. n |-> c[k]] /\ \A k \in 1 .. n : c[k] = SampleSize(Len(us[k])) \o us[k]
  <2>2. PICK c : c = [k \in 1 .. n |-> SampleSize(Len(us[k])) \o us[k]]
    OBVIOUS
  <2>3. c = Sampled(us)
    BY <1>1, <2>2 DEF Sampled
  <2>4. DOMAIN c = 1 .. n /\ \A k \in 1 .. n : c[k] = SampleSize(Len(us[k])) \o us[k]
    BY <2>2
  <2>5. c = [k \in 1 .. n |-> c[k]]
    BY <2>2, <2>4
  <2> QED BY <2>3, <2>4, <2>5
<1>3. ASSUME NEW k \in 1 .. n PROVE c[k] \in Seq(Byte) /\ Len(c[k]) = Precision + Len(us[k])
  <2>1. PICK u \in Seq(Byte) : u = us[k]
    BY <1>1
  <2>2. PICK l \in Nat : l = Len(u)
    OBVIOUS
  <2>3. PICK s \in Seq(Byte) : s = SampleSize(l) /\ Len(s) = Precision
    BY SampleSizeIs
  <2>4. s \o u \in Seq(Byte) /\ Len(s \o u) = Len(s) + Len(u)
    BY ConcatIs
  <2> QED BY <1>2, <2>1, <2>2, <2>3, <2>4
<1>4. c \in Seq(Seq(Byte)) /\ Len(c) = n
  <2>1. \A k \in 1 .. n : c[k] \in Seq(Byte)
    BY <1>3
  <2>2. c = [k \in 1 .. n |-> c[k]]
    BY <1>2
  <2>3. PICK D : D = Seq(Byte)
    OBVIOUS
  <2>4. c \in Seq(D) /\ Len(c) = n
    BY <1>1, <2>1, <2>2, <2>3, IsSeq
  <2> QED BY <2>3, <2>4
<1>5. SampleChunks(Sampled(us), us, n)
  BY <1>2, <1>3, <1>4 DEF SampleChunks
<1>6. DOMAIN us = 1 .. Len(us)
  BY <1>1
<1> QED BY <1>5, <1>6 DEF AsSamples, Sampled

(* What is found where a sample has been laid: its size, and its bytes. *)
LEMMA SampleIsHeld ==
  ASSUME NEW s \in Seq(Byte), NEW us, NEW n, NEW z, Video(us, n, z), NEW R, Laid(s, Sampled(us), n, R, 0), NEW k \in 1 .. n
  PROVE  /\ R[k - 1] \in Nat /\ us[k] \in Seq(Byte)
         /\ R[k] = R[k - 1] + (Precision + Len(us[k]))
         /\ Holds(s, R[k - 1], SampleSize(Len(us[k]))) /\ Holds(s, R[k - 1] + Precision, us[k])
<1>1. n \in Nat /\ us[k] \in Seq(Byte)
  BY DEF Video
<1>2. PICK C \in Seq(Seq(Byte)) : /\ C = Sampled(us) /\ Len(C) = n
                                  /\ C[k] = SampleSize(Len(us[k])) \o us[k] /\ Len(C[k]) = Precision + Len(us[k])
  <2>1. SampleChunks(Sampled(us), us, n)
    BY SampledIs
  <2> QED BY <2>1 DEF SampleChunks
<1>3. R[k - 1] \in Nat /\ R[k] = R[k - 1] + Len(C[k]) /\ Holds(s, R[k - 1], C[k])
  <2>1. Laid(s, C, n, R, 0) /\ n <= Len(C)
    BY <1>1, <1>2
  <2> QED BY <1>1, <2>1, ChunkIsHeld
<1>4. PICK a \in Nat : a = R[k - 1]
  BY <1>3
<1>5. PICK u \in Seq(Byte) : u = us[k]
  BY <1>1
<1>7. PICK l \in Nat : l = Len(u)
  OBVIOUS
<1>8. PICK f \in Seq(Byte) : f = SampleSize(l) /\ Len(f) = Precision
  BY SampleSizeIs
<1>6. Holds(s, a, f) /\ Holds(s, a + Len(f), u)
  <2>1. Holds(s, a, f \o u) /\ Len(s) \in Nat
    BY <1>2, <1>3, <1>4, <1>5, <1>7, <1>8
  <2> QED BY <2>1, PartsAreHeld
<1> QED BY <1>1, <1>2, <1>3, <1>4, <1>5, <1>6, <1>7, <1>8

-----------------------------------------------------------------------------
(***************************************************************************)
(* The turns of the two loops.                                             *)
(***************************************************************************)
(* The places of the units are in the stream, and only the last ends with it. *)
LEMMA EndsWithLast ==
  ASSUME NEW d, NEW us, NEW n, NEW z, NEW P, IsStream(d, us, n, z, P), NEW k \in 1 .. n
  PROVE  P[k] \in Nat /\ (P[k] >= Len(d) <=> k = n)
<1>1. PICK N \in Nat, K \in Nat : N = n /\ K = k /\ K <= N
  <2>1. n \in Nat
    BY DEF IsStream, Video
  <2> QED BY <2>1
<1>2. /\ P[n] \in Nat /\ P[n] = Len(d) /\ \A i \in 0 .. n : P[i] + 4 * (n - i) <= P[n]
  <2>1. n \in 0 .. n
    BY <1>1
  <2> QED BY <2>1, UnitsFollow
<1>3. P[k] \in Nat
  <2>1. k \in 0 .. n
    BY <1>1
  <2> QED BY <2>1, UnitsFollow
<1>4. PICK x \in Nat, w \in Nat : x = P[k] /\ w = P[n]
  BY <1>2, <1>3
<1>5. x + 4 * (N - K) <= w
  <2>1. k \in 0 .. n
    BY <1>1
  <2> QED BY <1>1, <1>2, <1>4, <2>1
<1>6. x >= w => K = N
  BY <1>1, <1>5
<1>7. K = N => x = w
  BY <1>1, <1>4
<1> QED BY <1>1, <1>2, <1>3, <1>4, <1>6, <1>7

(* what a turn of the first loop reads at the place a: the unit u up to e *)
ReadsUnit(d, a, u, e) ==
  LET from == a + StartCodeAt(d, a)
  IN  /\ getEndOfNaluPosition(d, from) = e /\ e - from = Len(u) /\ Bytes(d, from, e) = u

LEMMA SampleTurn ==
  ASSUME NEW d, NEW us, NEW m, NEW y, NEW Q, IsStream(d, us, m, y, Q), Found(d, y, Q, m), NEW k \in 1 .. m
  PROVE  ReadsUnit(d, Q[k - 1], us[k], Q[k])
<1>1. /\ Q[k - 1] \in Nat /\ y[k] \in {3, 4} /\ us[k] \in Seq(Byte)
      /\ Q[k] = Q[k - 1] + (y[k] + Len(us[k]))
      /\ Holds(d, Q[k - 1] + y[k], us[k])
  BY UnitIsHeld
<1>2. d \in Seq(Byte)
  BY DEF IsStream
<1>3. PICK a \in Nat : a = Q[k - 1] + y[k]
  BY <1>1
<1>4. PICK u \in Seq(Byte) : u = us[k]
  BY <1>1
<1>5. PICK l \in Nat : l = Len(u)
  OBVIOUS
<1>6. Q[k] = a + l
  <2>1. PICK b \in Nat, c \in Nat : b = Q[k - 1] /\ c = y[k]
    BY <1>1
  <2> QED BY <1>1, <1>3, <1>4, <1>5, <2>1
<1>7. Bytes(d, a, a + l) = u
  <2>1. PICK D : D = Byte /\ d \in Seq(D) /\ u \in Seq(D)
    BY <1>2
  <2>2. Holds(d, a, u)
    BY <1>1, <1>3, <1>4
  <2> QED BY <1>5, <2>1, <2>2, BytesAre
<1>8. a + l - a = l
  OBVIOUS
<1>9. StartCodeAt(d, Q[k - 1]) = y[k] /\ getEndOfNaluPosition(d, Q[k - 1] + y[k]) = Q[k]
  BY DEF Found
<1> QED BY <1>3, <1>4, <1>5, <1>6, <1>7, <1>8, <1>9 DEF ReadsUnit

(* what a turn of the second loop reads at the place a: the size of the unit u, and u *)
ReadsSample(d, a, u, e) ==
  NaluEnd(d, a) = e /\ Bytes(d, a + Precision, e) = u

LEMMA BytesTurn ==
  ASSUME NEW s \in Seq(Byte), NEW us, NEW n, NEW z, Video(us, n, z), Fits(us, n),
         NEW R, Laid(s, Sampled(us), n, R, 0), NEW k \in 1 .. n
  PROVE  ReadsSample(s, R[k - 1], us[k], R[k])
<1>1. /\ R[k - 1] \in Nat /\ us[k] \in Seq(Byte)
      /\ R[k] = R[k - 1] + (Precision + Len(us[k]))
      /\ Holds(s, R[k - 1], SampleSize(Len(us[k]))) /\ Holds(s, R[k - 1] + Precision, us[k])
  BY SampleIsHeld
<1>2. PICK a \in Nat : a = R[k - 1]
  BY <1>1
<1>3. PICK u \in Seq(Byte) : u = us[k]
  BY <1>1
<1>4. PICK l \in Nat : l = Len(u)
  OBVIOUS
<1>5. PICK p \in Nat : p = Precision
  BY StreamAssumption
<1>6. PICK f \in Seq(Byte) : f = SampleSize(l) /\ Len(f) = p /\ IsDigits(f, l, 256, p)
  BY <1>5, SampleSizeIs
<1>7. PICK D : D = Byte /\ s \in Seq(D) /\ u \in Seq(D) /\ f \in Seq(D)
  OBVIOUS
<1>8. Bytes(s, a, a + p) = f
  <2>1. Holds(s, a, f)
    BY <1>1, <1>2, <1>3, <1>4, <1>6
  <2> QED BY <1>6, <1>7, <2>1, BytesAre
<1>9. SizeAt(s, a) = l
  <2>1. l < Power(256, p)
    BY <1>3, <1>4, <1>5 DEF Fits
  <2>2. PICK b \in Nat \ {0} : b = 256
    OBVIOUS
  <2>3. IsDigits(f, l, b, p)
    BY <1>6, <2>2
  <2>4. l < Power(b, p) => Number(f, b) = l
    BY <2>3, DigitsHold
  <2> QED BY <1>5, <1>8, <2>1, <2>2, <2>4 DEF SizeAt
<1>10. PICK c \in Nat : c = a + p
  OBVIOUS
<1>11. R[k] = c + l /\ NaluEnd(s, a) = c + l
  <2>1. R[k] = a + (p + l)
    BY <1>1, <1>2, <1>3, <1>4, <1>5
  <2>2. NaluEnd(s, a) = a + p + l
    BY <1>5, <1>9 DEF NaluEnd
  <2>3. a + (p + l) = c + l /\ a + p + l = c + l
    BY <1>10
  <2> QED BY <2>1, <2>2, <2>3
<1>12. Bytes(s, c, c + l) = u
  <2>1. Holds(s, c, u)
    BY <1>1, <1>2, <1>3, <1>5, <1>10
  <2> QED BY <1>4, <1>7, <2>1, BytesAre
<1> QED BY <1>2, <1>3, <1>5, <1>10, <1>11, <1>12 DEF ReadsSample

(* Samples too: only the last ends with the stream. *)
LEMMA SampleEnds ==
  ASSUME NEW s \in Seq(Byte), NEW us, NEW n, NEW z, Video(us, n, z),
         NEW R, Laid(s, Sampled(us), n, R, 0), NEW k \in 1 .. n
  PROVE  R[k] \in Nat /\ (R[k] >= Len(s) <=> k = n)
<1>1. PICK N \in Nat : N = n
  BY DEF Video
<1>2. R \in [0 .. n -> Nat] /\ Len(s) = R[n] /\ n \in 0 .. n /\ k \in 0 .. n
  BY <1>1 DEF Laid
<1>3. ASSUME k # n PROVE ~(R[k] >= R[n])
  <2>1. PICK j \in 1 .. n : j = k + 1 /\ j - 1 = k
    BY <1>1, <1>3
  <2>2. R[j] = R[k] + (Precision + Len(us[j])) /\ us[j] \in Seq(Byte)
    BY <2>1, SampleIsHeld
  <2>3. Precision \in Nat \ {0}
    BY StreamAssumption
  <2>4. PICK p \in Nat \ {0}, l \in Nat : p = Precision /\ l = Len(us[j])
    BY <2>2, <2>3
  <2>5. R[j] <= R[n]
    <3>1. PICK C \in Seq(Seq(Byte)) : C = Sampled(us) /\ Len(C) = n
      <4>1. SampleChunks(Sampled(us), us, n)
        BY SampledIs
      <4> QED BY <4>1 DEF SampleChunks
    <3>2. Laid(s, C, n, R, 0) /\ n <= Len(C) /\ n \in Nat /\ j \in 0 .. n /\ n \in j .. n
      BY <1>1, <3>1
    <3> QED BY <3>1, <3>2, PlacesGrow
  <2>6. PICK x \in Nat, w \in Nat, v \in Nat : x = R[k] /\ w = R[n] /\ v = R[j]
    <3>1. j \in 0 .. n
      BY <1>1
    <3> QED BY <1>2, <3>1
  <2>7. v = x + (p + l) /\ v <= w
    BY <2>2, <2>4, <2>5, <2>6
  <2>8. ~(x >= w)
    BY <2>4, <2>6, <2>7
  <2> QED BY <2>6, <2>8
<1>4. k = n => R[k] >= R[n]
  <2>1. R[n] \in Nat
    BY <1>2
  <2> QED BY <2>1
<1> QED BY <1>2, <1>3, <1>4

(* what k turns have made: the first k of the chunks *)
LaidUpTo(s, C, k) == s \in Seq(Byte) /\ \E S : Laid(s, C, k, S, 0)

LEMMA NothingIsLaid ==
  ASSUME NEW C
  PROVE  LaidUpTo(<<>>, C, 0)
<1>1. PICK S : S = [k \in 0 .. 0 |-> 0]
  OBVIOUS
<1>2. S \in [0 .. 0 -> Nat] /\ S[0] = 0
  BY <1>1
<1>3. 1 .. 0 = {}
  OBVIOUS
<1>4. Laid(<<>>, C, 0, S, 0)
  BY <1>2, <1>3 DEF Laid
<1> QED BY <1>4 DEF LaidUpTo

(* A chunk of two parts is laid behind the others. *)
LEMMA PartsAreLaid ==
  ASSUME NEW C \in Seq(Seq(Byte)), NEW k \in Nat \ {0}, k <= Len(C), NEW s, LaidUpTo(s, C, k - 1),
         NEW a \in Seq(Byte), NEW b \in Seq(Byte), C[k] = a \o b
  PROVE  LaidUpTo((s \o a) \o b, C, k)
<1>1. PICK D : D = Byte
  OBVIOUS
<1>2. PICK S : s \in Seq(D) /\ Laid(s, C, k - 1, S, 0)
  BY <1>1 DEF LaidUpTo
<1>3. (s \o a) \o b = s \o (a \o b)
  <2>1. a \in Seq(D) /\ b \in Seq(D) /\ s \in Seq(D)
    BY <1>1, <1>2
  <2>2. InEitherWay(s, a, b)
    BY <2>1, EitherWay
  <2> QED BY <2>2 DEF InEitherWay
<1>4. PICK j \in Nat : j = k - 1 /\ j + 1 = k /\ j < Len(C)
  OBVIOUS
<1>5. s \o C[j + 1] \in Seq(D) /\ \E Q : Laid(s \o C[j + 1], C, j + 1, Q, 0)
  BY <1>1, <1>2, <1>4, LaidGrows
<1> QED BY <1>1, <1>3, <1>4, <1>5 DEF LaidUpTo

LEMMA SamplesGrow ==
  ASSUME NEW us, NEW n, NEW z, Video(us, n, z), NEW k \in 1 .. n, NEW s, LaidUpTo(s, Sampled(us), k - 1)
  PROVE  LaidUpTo((s \o SampleSize(Len(us[k]))) \o us[k], Sampled(us), k)
<1>1. SampleChunks(Sampled(us), us, n)
  BY SampledIs
<1>2. PICK C \in Seq(Seq(Byte)) : C = Sampled(us) /\ Len(C) = n /\ C[k] = SampleSize(Len(us[k])) \o us[k]
  BY <1>1 DEF SampleChunks
<1>3. PICK u \in Seq(Byte) : u = us[k]
  BY DEF Video
<1>4. PICK f \in Seq(Byte) : f = SampleSize(Len(u))
  BY SampleSizeIs
<1>5. k \in Nat \ {0} /\ k <= Len(C)
  BY <1>2
<1>6. LaidUpTo((s \o f) \o u, C, k)
  BY <1>2, <1>3, <1>4, <1>5, PartsAreLaid
<1> QED BY <1>2, <1>3, <1>4, <1>6

LEMMA CodesGrow ==
  ASSUME NEW us, NEW n, NEW z, Video(us, n, z), NEW k \in 1 .. n, NEW s, LaidUpTo(s, Coded(us, z), k - 1)
  PROVE  LaidUpTo((s \o StartCode(z[k])) \o us[k], Coded(us, z), k)
<1>1. CodeChunks(Coded(us, z), us, n, z)
  BY CodedIs
<1>2. PICK C \in Seq(Seq(Byte)) : C = Coded(us, z) /\ Len(C) = n /\ C[k] = StartCode(z[k]) \o us[k]
  BY <1>1 DEF CodeChunks
<1>3. PICK u \in Seq(Byte) : u = us[k]
  BY DEF Video
<1>4. PICK f \in Seq(Byte) : f = StartCode(z[k])
  <2>1. z[k] \in {3, 4}
    BY DEF Video
  <2> QED BY <2>1, StartCodeIs
<1>5. k \in Nat \ {0} /\ k <= Len(C)
  BY <1>2
<1>6. LaidUpTo((s \o f) \o u, C, k)
  BY <1>2, <1>3, <1>4, <1>5, PartsAreLaid
<1> QED BY <1>2, <1>3, <1>4, <1>6

(* What all turns of the first loop have made are the samples. *)
LEMMA SamplesEnd ==
  ASSUME NEW us, NEW n, NEW z, Video(us, n, z), NEW s, LaidUpTo(s, Sampled(us), n)
  PROVE  s = AsSamples(us)
<1>1. SampleChunks(Sampled(us), us, n) /\ AsSamples(us) = FlattenSeq(Sampled(us))
  BY SampledIs
<1>2. PICK D : D = Byte
  OBVIOUS
<1>3. PICK C \in Seq(Seq(D)) : C = Sampled(us) /\ Len(C) = n
  BY <1>1, <1>2 DEF SampleChunks
<1>4. PICK N \in Nat \ {0} : N = n
  BY DEF Video
<1>5. PICK S : s \in Seq(D) /\ Laid(s, C, N, S, 0)
  BY <1>2, <1>3, <1>4 DEF LaidUpTo
<1>6. PICK t \in Seq(D) : t = FlattenSeq(C) /\ \E P : Laid(t, C, N, P, 0)
  BY <1>3, <1>4, FlattenLaid
<1>7. PICK P : Laid(t, C, N, P, 0)
  BY <1>6
<1>8. N <= Len(C)
  BY <1>3, <1>4
<1>9. s = t
  BY <1>5, <1>7, <1>8, SameLaid
<1> QED BY <1>1, <1>3, <1>6, <1>9

(* The sizes of later start codes are still open. *)
LEMMA LaterCodesOpen ==
  ASSUME NEW us, NEW n, NEW z, Video(us, n, z), NEW x, Video(us, n, x), NEW k \in 0 .. n,
         \A j \in 1 .. k : x[j] = z[j], NEW s, LaidUpTo(s, Coded(us, z), k)
  PROVE  LaidUpTo(s, Coded(us, x), k)
<1>1. CodeChunks(Coded(us, z), us, n, z) /\ CodeChunks(Coded(us, x), us, n, x)
  BY CodedIs
<1>2. PICK C : C = Coded(us, z) /\ \A j \in 1 .. n : C[j] = StartCode(z[j]) \o us[j]
  BY <1>1 DEF CodeChunks
<1>3. PICK E : E = Coded(us, x) /\ \A j \in 1 .. n : E[j] = StartCode(x[j]) \o us[j]
  BY <1>1 DEF CodeChunks
<1>4. \A j \in 1 .. k : j \in 1 .. n
  BY DEF Video
<1>5. \A j \in 1 .. k : C[j] = E[j]
  BY <1>2, <1>3, <1>4
<1>6. PICK S : s \in Seq(Byte) /\ Laid(s, C, k, S, 0)
  BY <1>2 DEF LaidUpTo
<1>7. Laid(s, E, k, S, 0)
  BY <1>5, <1>6, LaidElsewhere
<1> QED BY <1>3, <1>6, <1>7 DEF LaidUpTo

(* A size for the k-th start code. *)
LEMMA NextCode ==
  ASSUME NEW us, NEW n, NEW z, Video(us, n, z), NEW k \in 1 .. n, NEW c \in {3, 4},
         NEW s, LaidUpTo(s, Coded(us, z), k - 1)
  PROVE  \E x : Video(us, n, x) /\ x[k] = c /\ LaidUpTo(s, Coded(us, x), k - 1)
<1>1. z \in [1 .. n -> {3, 4}] /\ n \in Nat
  BY DEF Video
<1>2. PICK x : x = [z EXCEPT ![k] = c]
  OBVIOUS
<1>3. x \in [1 .. n -> {3, 4}] /\ x[k] = c
  BY <1>1, <1>2
<1>4. \A j \in 1 .. k - 1 : x[j] = z[j]
  <2>1. ASSUME NEW j \in 1 .. k - 1 PROVE x[j] = z[j]
    <3>1. j \in 1 .. n /\ j # k
      BY <1>1
    <3> QED BY <1>1, <1>2, <3>1
  <2> QED BY <2>1
<1>5. Video(us, n, x)
  BY <1>3 DEF Video
<1>6. k - 1 \in 0 .. n
  BY <1>1
<1>7. LaidUpTo(s, Coded(us, x), k - 1)
  BY <1>4, <1>5, <1>6, LaterCodesOpen
<1> QED BY <1>3, <1>5, <1>7

-----------------------------------------------------------------------------
(***************************************************************************)
(* The invariant of a video's way.                                         *)
(***************************************************************************)
(* k - 1 turns of the first loop are done *)
Sampling(m, y, Q, k) ==
  /\ KeptStream(m, y, Q) /\ k \in 1 .. m
  /\ startIndex = Q[k - 1] /\ LaidUpTo(data, Sampled(Kept), k - 1)

Collecting ==
  /\ conversion = "toSamples" /\ data_ = ByteStream(nalUnits, longs) /\ samples = <<>>
  /\ \E m, y, Q, k : Sampling(m, y, Q, k)

(* k - 1 turns of the second loop are done, the next start code has its size *)
Coding(m, z, R, k) ==
  /\ Video(Kept, m, z) /\ Fits(Kept, m) /\ k \in 1 .. m
  /\ samples \in Seq(Byte) /\ Laid(samples, Sampled(Kept), m, R, 0)
  /\ startIndex = R[k - 1] /\ z[k] = sizeStartCode /\ LaidUpTo(data, Coded(Kept, z), k - 1)

Replacing ==
  /\ conversion = "toBytes" /\ samples = AsSamples(Kept) /\ data_ = samples
  /\ \E m, z, R, k : Coding(m, z, R, k)

Arrived ==
  /\ conversion = "decode" /\ samples = AsSamples(Kept) /\ samples \in Seq(Byte) /\ data = <<>>
  /\ \E m, z, S : IsStream(data_, Kept, m, z, S)

VideoInv ==
  /\ VideoSource /\ startIndex \in Nat /\ sizeStartCode \in {3, 4}
  /\ Collecting \/ Replacing \/ Arrived

LEMMA InitVideo == VideoInit => VideoInv
<1> SUFFICES ASSUME VideoInit PROVE VideoInv
  OBVIOUS
<1>1. VideoSource
  <2>1. PICK n \in 1 .. MaxNalUnits : nalUnits \in [1 .. n -> Units[coding[1]]]
    BY DEF VideoInit
  <2>2. n \in Nat \ {0}
    BY StreamAssumption
  <2> QED BY <2>1, <2>2 DEF VideoInit, VideoSource
<1>2. PICK m, y, Q : m \in Nat \ {0} /\ KeptStream(m, y, Q)
  BY <1>1, KeptIs
<1>3. Sampling(m, y, Q, 1)
  <2>1. 1 \in 1 .. m /\ 1 - 1 = 0
    BY <1>2
  <2>2. Q[0] = 0
    BY <1>2 DEF KeptStream, IsStream, Laid
  <2>3. LaidUpTo(<<>>, Sampled(Kept), 0)
    BY NothingIsLaid
  <2> QED BY <1>2, <2>1, <2>2, <2>3 DEF Sampling, VideoInit
<1>4. Collecting
  BY <1>3 DEF Collecting, VideoInit
<1> QED BY <1>1, <1>4 DEF VideoInv, VideoInit

(* The units of the encoder do not change. *)
LEMMA SourceStays ==
  ASSUME UNCHANGED source
  PROVE  /\ VideoSource' <=> VideoSource
         /\ Kept' = Kept /\ ByteStream(nalUnits, longs)' = ByteStream(nalUnits, longs)
<1>1. coding' = coding /\ nalUnits' = nalUnits /\ longs' = longs
  BY DEF source
<1>2. Kept' = Kept
  <2>1. Hidden' <=> Hidden
    BY <1>1 DEF Hidden
  <2>2. Merged' = Merged
    BY <1>1 DEF Merged
  <2> QED BY <1>1, <2>1, <2>2 DEF Kept
<1>3. VideoSource' <=> VideoSource
  BY <1>1 DEF VideoSource
<1> QED BY <1>1, <1>2, <1>3

(* A turn that has made this and stopped at e goes on, or is the last of the loop. *)
TakesOver(e, made) ==
  /\ conversion = "toSamples" /\ UNCHANGED <<source, sizeStartCode>>
  /\ e >= Len(data_) => conversion' = "toBytes" /\ data_' = made /\ data' = <<>> /\ startIndex' = 0 /\ samples' = made
  /\ ~(e >= Len(data_)) => /\ conversion' = conversion /\ data_' = data_ /\ data' = made
                           /\ startIndex' = e /\ samples' = samples

PutsBack(e, made) ==
  /\ conversion = "toBytes" /\ UNCHANGED <<source, samples>> /\ startIndex' = e /\ sizeStartCode' \in {3, 4}
  /\ e >= Len(data_) => conversion' = "decode" /\ data_' = made /\ data' = <<>>
  /\ ~(e >= Len(data_)) => conversion' = conversion /\ data_' = data_ /\ data' = made

(* What a turn of the first loop does: it reads the unit u and takes it over. *)
LEMMA SampleStep ==
  ASSUME NaluToSample, NEW u, NEW e, ReadsUnit(data_, startIndex, u, e),
         NEW made, made = (data \o SampleSize(Len(u))) \o u
  PROVE  TakesOver(e, made)
<1>1. PICK from : from = startIndex + StartCodeAt(data_, startIndex)
  OBVIOUS
<1>2. getEndOfNaluPosition(data_, from) = e /\ e - from = Len(u) /\ Bytes(data_, from, e) = u
  BY <1>1 DEF ReadsUnit
<1>3. conversion = "toSamples" /\ UNCHANGED <<source, sizeStartCode>>
  BY DEF NaluToSample
<1>4. ASSUME e >= Len(data_)
      PROVE  conversion' = "toBytes" /\ data_' = made /\ data' = <<>> /\ startIndex' = 0 /\ samples' = made
  BY <1>1, <1>2, <1>4 DEF NaluToSample
<1>5. ASSUME ~(e >= Len(data_))
      PROVE  conversion' = conversion /\ data_' = data_ /\ data' = made /\ startIndex' = e /\ samples' = samples
  BY <1>1, <1>2, <1>5 DEF NaluToSample
<1> QED BY <1>3, <1>4, <1>5 DEF TakesOver

(* and one of the second *)
LEMMA BytesStep ==
  ASSUME NaluToBytes, NEW u, NEW e, ReadsSample(data_, startIndex, u, e), sizeStartCode \in {3, 4},
         NEW made, made = (data \o StartCode(sizeStartCode)) \o u
  PROVE  PutsBack(e, made)
<1>1. NaluEnd(data_, startIndex) = e /\ Bytes(data_, startIndex + Precision, e) = u
  BY DEF ReadsSample
<1>2. conversion = "toBytes" /\ UNCHANGED <<source, samples>> /\ startIndex' = e
  BY <1>1 DEF NaluToBytes
<1>3. sizeStartCode' \in {3, 4}
  <2>1. PICK end : end = NaluEnd(data_, startIndex)
    OBVIOUS
  <2>2. sizeStartCode' = IF end + Precision < Len(data_)
                         THEN (IF UseLongStartCode(data_, end) THEN 4 ELSE 3)
                         ELSE sizeStartCode
    BY <2>1 DEF NaluToBytes
  <2>3. sizeStartCode' = 4 \/ sizeStartCode' = 3 \/ sizeStartCode' = sizeStartCode
    BY <2>2, Zenon
  <2> QED BY <2>3
<1>4. ASSUME e >= Len(data_) PROVE conversion' = "decode" /\ data_' = made /\ data' = <<>>
  BY <1>1, <1>4 DEF NaluToBytes
<1>5. ASSUME ~(e >= Len(data_)) PROVE conversion' = conversion /\ data_' = data_ /\ data' = made
  BY <1>1, <1>5 DEF NaluToBytes
<1> QED BY <1>2, <1>3, <1>4, <1>5 DEF PutsBack

LEMMA SampleKeeps == VideoInv /\ NaluToSample => VideoInv'
<1> SUFFICES ASSUME VideoInv, NaluToSample PROVE VideoInv'
  OBVIOUS
<1>1. Collecting /\ VideoSource /\ startIndex \in Nat /\ sizeStartCode \in {3, 4}
  BY DEF VideoInv, Replacing, Arrived, NaluToSample
<1>2. PICK m, y, Q, k : Sampling(m, y, Q, k)
  BY <1>1 DEF Collecting
<1>3. PICK K : K = Kept
  OBVIOUS
<1>4. IsStream(data_, K, m, y, Q) /\ Found(data_, y, Q, m) /\ Fits(K, m)
  BY <1>1, <1>2, <1>3 DEF Sampling, KeptStream, Collecting
<1>5. k \in 1 .. m /\ startIndex = Q[k - 1] /\ LaidUpTo(data, Sampled(K), k - 1)
  BY <1>2, <1>3 DEF Sampling
<1>6. Video(K, m, y) /\ m \in Nat \ {0}
  BY <1>4 DEF IsStream, Video
<1>7. ReadsUnit(data_, startIndex, K[k], Q[k])
  BY <1>4, <1>5, SampleTurn
<1>8. Q[k] \in Nat /\ (Q[k] >= Len(data_) <=> k = m)
  BY <1>4, <1>5, EndsWithLast
<1>9. PICK made : made = (data \o SampleSize(Len(K[k]))) \o K[k]
  OBVIOUS
<1>10. LaidUpTo(made, Sampled(K), k)
  BY <1>5, <1>6, <1>9, SamplesGrow
<1>11. /\ UNCHANGED <<source, sizeStartCode>>
       /\ Q[k] >= Len(data_) => conversion' = "toBytes" /\ data_' = made /\ data' = <<>> /\ startIndex' = 0 /\ samples' = made
       /\ ~(Q[k] >= Len(data_)) => /\ conversion' = conversion /\ data_' = data_ /\ data' = made
                                   /\ startIndex' = Q[k] /\ samples' = samples
  <2>1. PICK u, e : u = K[k] /\ e = Q[k]
    OBVIOUS
  <2>2. TakesOver(e, made)
    BY <1>7, <1>9, <2>1, SampleStep
  <2> QED BY <2>1, <2>2 DEF TakesOver
<1>12. VideoSource' /\ Kept' = K /\ ByteStream(nalUnits, longs)' = ByteStream(nalUnits, longs)
  BY <1>1, <1>3, <1>11, SourceStays
<1>13. sizeStartCode' = sizeStartCode
  BY <1>11
<1>14. CASE k = m
  <2>1. conversion' = "toBytes" /\ data_' = made /\ data' = <<>> /\ startIndex' = 0 /\ samples' = made
    BY <1>8, <1>11, <1>14
  <2>2. made = AsSamples(K)
    BY <1>6, <1>10, <1>14, SamplesEnd
  <2>3. PICK R : made \in Seq(Byte) /\ Laid(made, Sampled(K), m, R, 0)
    BY <1>10, <1>14 DEF LaidUpTo
  <2>4. 1 \in 1 .. m /\ 1 - 1 = 0
    BY <1>6
  <2>5. LaidUpTo(<<>>, Coded(K, y), 1 - 1)
    BY <2>4, NothingIsLaid
  <2>6. PICK z : Video(K, m, z) /\ z[1] = sizeStartCode /\ LaidUpTo(<<>>, Coded(K, z), 1 - 1)
    BY <1>1, <1>6, <2>4, <2>5, NextCode
  <2>7. R[0] = 0
    BY <2>3 DEF Laid
  <2>8. Coding(m, z, R, 1)'
    BY <1>4, <1>12, <1>13, <2>1, <2>3, <2>4, <2>6, <2>7 DEF Coding
  <2>9. Replacing'
    BY <1>12, <2>1, <2>2, <2>8 DEF Replacing
  <2> QED BY <1>1, <1>12, <1>13, <2>1, <2>9 DEF VideoInv
<1>15. CASE k # m
  <2>1. conversion' = conversion /\ data_' = data_ /\ data' = made /\ startIndex' = Q[k] /\ samples' = samples
    BY <1>8, <1>11, <1>15
  <2>2. k + 1 \in 1 .. m /\ (k + 1) - 1 = k
    BY <1>5, <1>6, <1>15
  <2>3. KeptStream(m, y, Q)'
    BY <1>1, <1>4, <1>12 DEF KeptStream, Collecting
  <2>4. Sampling(m, y, Q, k + 1)'
    BY <1>10, <1>12, <2>1, <2>2, <2>3 DEF Sampling
  <2>5. Collecting'
    BY <1>1, <1>12, <2>1, <2>4 DEF Collecting
  <2> QED BY <1>1, <1>8, <1>12, <1>13, <2>1, <2>5 DEF VideoInv
<1> QED BY <1>14, <1>15

LEMMA BytesKeep == VideoInv /\ NaluToBytes => VideoInv'
<1> SUFFICES ASSUME VideoInv, NaluToBytes PROVE VideoInv'
  OBVIOUS
<1>1. Replacing /\ VideoSource /\ startIndex \in Nat /\ sizeStartCode \in {3, 4}
  BY DEF VideoInv, Collecting, Arrived, NaluToBytes
<1>2. PICK m, z, R, k : Coding(m, z, R, k)
  BY <1>1 DEF Replacing
<1>3. PICK K : K = Kept
  OBVIOUS
<1>4. /\ Video(K, m, z) /\ Fits(K, m) /\ k \in 1 .. m
      /\ data_ \in Seq(Byte) /\ Laid(data_, Sampled(K), m, R, 0)
      /\ startIndex = R[k - 1] /\ z[k] = sizeStartCode /\ LaidUpTo(data, Coded(K, z), k - 1)
  BY <1>1, <1>2, <1>3 DEF Coding, Replacing
<1>5. m \in Nat \ {0}
  BY <1>4 DEF Video
<1>6. ReadsSample(data_, startIndex, K[k], R[k])
  BY <1>4, BytesTurn
<1>7. R[k] \in Nat /\ (R[k] >= Len(data_) <=> k = m)
  BY <1>4, SampleEnds
<1>8. PICK made : made = (data \o StartCode(sizeStartCode)) \o K[k]
  OBVIOUS
<1>9. LaidUpTo(made, Coded(K, z), k)
  BY <1>4, <1>8, CodesGrow
<1>10. /\ UNCHANGED <<source, samples>> /\ startIndex' = R[k] /\ sizeStartCode' \in {3, 4}
       /\ R[k] >= Len(data_) => conversion' = "decode" /\ data_' = made /\ data' = <<>>
       /\ ~(R[k] >= Len(data_)) => conversion' = conversion /\ data_' = data_ /\ data' = made
  <2>1. PICK u, e : u = K[k] /\ e = R[k]
    OBVIOUS
  <2>2. PutsBack(e, made)
    BY <1>1, <1>6, <1>8, <2>1, BytesStep
  <2> QED BY <2>1, <2>2 DEF PutsBack
<1>11. VideoSource' /\ Kept' = K /\ ByteStream(nalUnits, longs)' = ByteStream(nalUnits, longs)
  BY <1>1, <1>3, <1>10, SourceStays
<1>12. samples' = samples
  BY <1>10
<1>13. CASE k = m
  <2>1. conversion' = "decode" /\ data_' = made /\ data' = <<>>
    BY <1>7, <1>10, <1>13
  <2>2. PICK S : made \in Seq(Byte) /\ Laid(made, Coded(K, z), m, S, 0)
    BY <1>9, <1>13 DEF LaidUpTo
  <2>3. IsStream(made, K, m, z, S)
    BY <1>4, <2>2 DEF IsStream
  <2>4. Arrived'
    BY <1>1, <1>3, <1>4, <1>11, <1>12, <2>1, <2>3 DEF Arrived, Replacing
  <2> QED BY <1>7, <1>10, <1>11, <2>4 DEF VideoInv
<1>14. CASE k # m
  <2>1. conversion' = conversion /\ data_' = data_ /\ data' = made /\ startIndex' = R[k]
    BY <1>7, <1>10, <1>14
  <2>2. k + 1 \in 1 .. m /\ (k + 1) - 1 = k
    BY <1>4, <1>5, <1>14
  <2>3. PICK j \in 1 .. m : j = k + 1 /\ j - 1 = k
    BY <2>2
  <2>4. PICK c \in {3, 4} : c = sizeStartCode'
    BY <1>10
  <2>5. LaidUpTo(made, Coded(K, z), j - 1)
    BY <1>9, <2>3
  <2>6. PICK x : Video(K, m, x) /\ x[j] = c /\ LaidUpTo(made, Coded(K, x), j - 1)
    BY <1>4, <2>5, NextCode
  <2>7. Coding(m, x, R, j)'
    BY <1>1, <1>4, <1>11, <1>12, <2>1, <2>3, <2>4, <2>6 DEF Coding, Replacing
  <2>8. Replacing'
    BY <1>1, <1>3, <1>11, <1>12, <2>1, <2>7 DEF Replacing
  <2> QED BY <1>7, <1>10, <1>11, <2>1, <2>8 DEF VideoInv
<1> QED BY <1>13, <1>14

LEMMA VideoStays == VideoInv /\ UNCHANGED videoVars => VideoInv'
<1> SUFFICES ASSUME VideoInv, UNCHANGED videoVars PROVE VideoInv'
  OBVIOUS
<1>1. /\ UNCHANGED source /\ conversion' = conversion /\ data_' = data_ /\ data' = data
      /\ startIndex' = startIndex /\ sizeStartCode' = sizeStartCode /\ samples' = samples
  BY DEF videoVars
<1>2. (VideoSource' <=> VideoSource) /\ Kept' = Kept /\ ByteStream(nalUnits, longs)' = ByteStream(nalUnits, longs)
  BY <1>1, SourceStays
<1>3. CASE Collecting
  <2>1. PICK m, y, Q, k : Sampling(m, y, Q, k)
    BY <1>3 DEF Collecting
  <2>2. KeptStream(m, y, Q)'
    BY <1>2, <2>1 DEF Sampling, KeptStream
  <2>3. Sampling(m, y, Q, k)'
    BY <1>1, <1>2, <2>1, <2>2 DEF Sampling
  <2> QED BY <1>1, <1>2, <1>3, <2>3 DEF VideoInv, Collecting
<1>4. CASE Replacing
  <2>1. PICK m, z, R, k : Coding(m, z, R, k)
    BY <1>4 DEF Replacing
  <2>2. Coding(m, z, R, k)'
    BY <1>1, <1>2, <2>1 DEF Coding
  <2> QED BY <1>1, <1>2, <1>4, <2>2 DEF VideoInv, Replacing
<1>5. CASE Arrived
  BY <1>1, <1>2, <1>5 DEF VideoInv, Arrived
<1> QED BY <1>3, <1>4, <1>5 DEF VideoInv

(* The conversions go on unit by unit as VideoInv says, until the video has arrived. *)
THEOREM VideoAlways == VideoSpec => []VideoInv
<1>1. VideoInv /\ [VideoNext]_videoVars => VideoInv'
  BY SampleKeeps, BytesKeep, VideoStays DEF VideoNext
<1> QED BY InitVideo, <1>1, PTL DEF VideoSpec

-----------------------------------------------------------------------------
(***************************************************************************)
(* What a decoder finds in a stream of legal units.                        *)
(***************************************************************************)
Codes(d) == {i \in 0 .. Len(d) - 3 : At(d, i) = 0 /\ At(d, i + 1) = 0 /\ At(d, i + 2) = 1}

(* the three bytes of the k-th start code *)
CodePlace(P, z, k) == P[k - 1] + z[k] - 3

LEMMA CodeIsThere ==
  ASSUME NEW d, NEW us, NEW n, NEW z, NEW P, IsStream(d, us, n, z, P), NEW k \in 1 .. n
  PROVE  CodePlace(P, z, k) \in Codes(d)
<1>1. /\ P[k - 1] \in Nat /\ z[k] \in {3, 4} /\ us[k] \in Seq(Byte)
      /\ Holds(d, P[k - 1], StartCode(z[k]))
  BY UnitIsHeld
<1>2. PICK a \in Nat : a = P[k - 1]
  BY <1>1
<1>3. PICK c \in {3, 4} : c = z[k]
  BY <1>1
<1>4. PICK l \in Nat : l = Len(d)
  BY DEF IsStream
<1>5. a + c <= l
  <2>1. Len(StartCode(c)) = c
    BY StartCodeIs
  <2> QED BY <1>1, <1>2, <1>3, <1>4, <2>1 DEF Holds
<1>6. /\ At(d, a) = 0 /\ At(d, a + 1) = 0
      /\ c = 3 => At(d, a + 2) = 1
      /\ c = 4 => At(d, a + 2) = 0 /\ At(d, a + 3) = 1
  BY <1>1, <1>2, <1>3, CodeIsHeld
<1>7. PICK i \in 0 .. l - 3 : i = a + c - 3
  BY <1>5
<1>8. At(d, i) = 0 /\ At(d, i + 1) = 0 /\ At(d, i + 2) = 1
  <2>1. CASE c = 3
    <3>1. i = a
      BY <1>7, <2>1
    <3> QED BY <1>6, <2>1, <3>1
  <2>2. CASE c = 4
    <3>1. i = a + 1 /\ i + 1 = a + 2 /\ i + 2 = a + 3
      BY <1>7, <2>2
    <3> QED BY <1>6, <2>2, <3>1
  <2> QED BY <2>1, <2>2
<1>9. CodePlace(P, z, k) = i
  BY <1>2, <1>3, <1>7 DEF CodePlace
<1> QED BY <1>4, <1>8, <1>9 DEF Codes

(* The bytes of a stream are those of a start code, or of the unit behind it. *)
LEMMA PlaceInStream ==
  ASSUME NEW d, NEW us, NEW n, NEW z, NEW P, IsStream(d, us, n, z, P), NEW i \in Nat, i < Len(d)
  PROVE  \E l \in 1 .. n : P[l - 1] <= i /\ i < P[l - 1] + (z[l] + Len(us[l]))
<1>1. Video(us, n, z) /\ d \in Seq(Byte) /\ n \in Nat
  BY DEF IsStream, Video
<1>2. CodeChunks(Coded(us, z), us, n, z)
  BY <1>1, CodedIs
<1>3. PICK C \in Seq(Seq(Byte)) : C = Coded(us, z) /\ Len(C) = n /\ \A k \in 1 .. n : Len(C[k]) = z[k] + Len(us[k])
  BY <1>2 DEF CodeChunks
<1>4. PICK h \in Nat : h = Len(d)
  BY <1>1
<1>5. PICK k \in 1 .. h : k = i + 1
  BY <1>4
<1>6. InChunk(d, C, n, P, k)
  <2>1. Laid(d, C, n, P, 0) /\ n <= Len(C) /\ k \in 1 .. Len(d)
    BY <1>1, <1>3, <1>4 DEF IsStream
  <2> QED BY <1>1, <2>1, PlaceFound
<1>7. PICK l \in 1 .. n : \E j \in 1 .. Len(C[l]) : k = P[l - 1] + j
  BY <1>6 DEF InChunk
<1>8. PICK j \in 1 .. Len(C[l]) : k = P[l - 1] + j
  BY <1>7
<1>9. P[l - 1] \in Nat /\ us[l] \in Seq(Byte) /\ z[l] \in {3, 4}
  BY UnitIsHeld
<1>10. PICK a \in Nat : a = P[l - 1]
  BY <1>9
<1>11. PICK b \in Nat : b = z[l] + Len(us[l])
  BY <1>9
<1>12. PICK x \in 1 .. b : x = j /\ i + 1 = a + x
  BY <1>3, <1>5, <1>8, <1>10, <1>11
<1>13. a <= i /\ i < a + b
  BY <1>12
<1> QED BY <1>10, <1>11, <1>13

LEMMA NoOtherCode ==
  ASSUME NEW d, NEW us, NEW n, NEW z, NEW P, IsStream(d, us, n, z, P), LegalUnits(us, n), NEW i \in Codes(d)
  PROVE  \E k \in 1 .. n : i = CodePlace(P, z, k)
<1>1. i \in 0 .. Len(d) - 3 /\ At(d, i) = 0 /\ At(d, i + 1) = 0 /\ At(d, i + 2) = 1
  BY DEF Codes
<1>2. i \in Nat /\ i < Len(d) /\ d \in Seq(Byte)
  <2>1. PICK h \in Nat : h = Len(d) /\ d \in Seq(Byte)
    BY DEF IsStream
  <2> QED BY <1>1, <2>1
<1>3. PICK k \in 1 .. n : P[k - 1] <= i /\ i < P[k - 1] + (z[k] + Len(us[k]))
  BY <1>2, PlaceInStream
<1>4. /\ P[k - 1] \in Nat /\ z[k] \in {3, 4} /\ us[k] \in Seq(Byte)
      /\ Holds(d, P[k - 1], StartCode(z[k])) /\ Holds(d, P[k - 1] + z[k], us[k])
  BY UnitIsHeld
<1>5. PICK a \in Nat : a = P[k - 1]
  BY <1>4
<1>6. PICK c \in {3, 4} : c = z[k]
  BY <1>4
<1>7. PICK l \in Nat : l = Len(us[k])
  BY <1>4
<1>8. a <= i /\ i < a + (c + l)
  BY <1>3, <1>5, <1>6, <1>7
<1>9. i < a + c
  <2>1. SUFFICES ASSUME ~(i < a + c) PROVE FALSE
    OBVIOUS
  <2>2. PICK b \in Nat : b = a + c /\ b <= i /\ i < b + l
    BY <1>2, <1>8, <2>1
  <2>3. Legal(us[k]) /\ Holds(d, b, us[k])
    BY <1>4, <1>5, <1>6, <2>2 DEF LegalUnits
  <2>4. At(d, i + 2) > 2
    BY <1>1, <1>2, <1>7, <2>2, <2>3, NoCodeInUnit
  <2> QED BY <1>1, <2>4
<1>10. /\ c = 3 => At(d, a + 2) = 1
       /\ c = 4 => At(d, a + 2) = 0 /\ At(d, a + 3) = 1
  BY <1>4, <1>5, <1>6, CodeIsHeld
<1>11. i = a + c - 3
  <2>1. CASE c = 3
    <3>1. i = a \/ i + 1 = a + 2 \/ i = a + 2
      BY <1>2, <1>8, <1>9, <2>1
    <3> QED BY <1>1, <1>10, <2>1, <3>1
  <2>2. CASE c = 4
    <3>1. (i = a /\ i + 2 = a + 2) \/ i = a + 1 \/ i + 1 = a + 3 \/ i = a + 3
      BY <1>2, <1>8, <1>9, <2>2
    <3>2. i = a + 1
      BY <1>1, <1>10, <2>2, <3>1
    <3> QED BY <2>2, <3>2
  <2> QED BY <2>1, <2>2
<1> QED BY <1>5, <1>6, <1>11 DEF CodePlace

-----------------------------------------------------------------------------
(* p goes up from one place to the next *)
Rising(p, n) == p \in [1 .. n -> Nat] /\ \A i, j \in 1 .. n : i < j => p[i] < p[j]

Upto(p, k) == {p[i] : i \in 1 .. k}

LEMMA UptoSize ==
  ASSUME NEW n \in Nat, NEW p, Rising(p, n), NEW k \in 0 .. n
  PROVE  IsFiniteSet(Upto(p, k)) /\ Cardinality(Upto(p, k)) = k
<1> DEFINE T == {m \in 0 .. n : IsFiniteSet(Upto(p, m)) /\ Cardinality(Upto(p, m)) = m}
<1>1. 0 \in T
  <2>1. Upto(p, 0) = {}
    BY DEF Upto
  <2> QED BY <2>1, FS_EmptySet
<1>2. ASSUME NEW m \in 1 .. n, m - 1 \in T PROVE m \in T
  <2>1. PICK j \in Nat : j = m - 1 /\ m = j + 1
    OBVIOUS
  <2>2. PICK S : S = Upto(p, j)
    OBVIOUS
  <2>3. IsFiniteSet(S) /\ Cardinality(S) = j
    BY <1>2, <2>1, <2>2
  <2>4. Upto(p, m) = S \cup {p[m]}
    <3>1. \A i : i \in 1 .. m <=> i \in 1 .. j \/ i = m
      BY <2>1
    <3> QED BY <2>2, <3>1 DEF Upto
  <2>5. p[m] \notin S
    <3>1. SUFFICES ASSUME NEW i \in 1 .. j, p[i] = p[m] PROVE FALSE
      BY <2>2 DEF Upto
    <3>2. i \in 1 .. n /\ i < m
      BY <2>1
    <3>3. p[i] < p[m] /\ p[i] \in Nat
      BY <3>2 DEF Rising
    <3> QED BY <3>1, <3>3
  <2>6. IsFiniteSet(S \cup {p[m]}) /\ Cardinality(S \cup {p[m]}) = j + 1
    BY <2>3, <2>5, FS_AddElement
  <2>7. m \in 0 .. n
    OBVIOUS
  <2> QED BY <2>1, <2>4, <2>6, <2>7
<1>3. \A m \in 0 .. n : m \in T
  <2> HIDE DEF T
  <2> QED BY <1>1, <1>2, PrefixInduction
<1> QED BY <1>3

Kth(S, k) == CHOOSE i \in S : Cardinality({j \in S : j <= i}) = k

(* The k-th of them is the one that k of them do not exceed. *)
LEMMA KthIs ==
  ASSUME NEW n \in Nat, NEW p, Rising(p, n), NEW S, S = Upto(p, n), NEW k \in 1 .. n
  PROVE  Kth(S, k) = p[k]
<1>1. ASSUME NEW m \in 1 .. n PROVE Cardinality({j \in S : j <= p[m]}) = m
  <2>1. {j \in S : j <= p[m]} = Upto(p, m)
    <3>1. ASSUME NEW i \in 1 .. n PROVE p[i] <= p[m] <=> i \in 1 .. m
      <4>1. p[i] \in Nat /\ p[m] \in Nat /\ (m < i => p[m] < p[i]) /\ (i < m => p[i] < p[m])
        BY DEF Rising
      <4>2. i = m => p[i] = p[m]
        OBVIOUS
      <4>3. i < m \/ i = m \/ m < i
        OBVIOUS
      <4> QED BY <4>1, <4>2, <4>3
    <3>2. \A i \in 1 .. m : i \in 1 .. n
      OBVIOUS
    <3> QED BY <3>1, <3>2 DEF Upto
  <2>2. m \in 0 .. n
    OBVIOUS
  <2> QED BY <2>1, <2>2, UptoSize
<1>2. p[k] \in S
  BY DEF Upto
<1>3. ASSUME NEW i \in S, Cardinality({j \in S : j <= i}) = k PROVE i = p[k]
  <2>1. PICK m \in 1 .. n : i = p[m]
    BY DEF Upto
  <2> QED BY <1>1, <1>3, <2>1
<1> QED BY <1>1, <1>2, <1>3 DEF Kth

LEMMA PlacesRise ==
  ASSUME NEW d, NEW us, NEW n, NEW z, NEW P, IsStream(d, us, n, z, P),
         NEW p, p = [k \in 1 .. n |-> CodePlace(P, z, k)]
  PROVE  Rising(p, n)
<1>1. n \in Nat
  BY DEF IsStream, Video
<1>2. ASSUME NEW k \in 1 .. n
      PROVE  /\ p[k] \in Nat /\ P[k - 1] \in Nat /\ P[k] \in Nat
             /\ P[k - 1] <= p[k] /\ p[k] < P[k]
  <2>1. /\ P[k - 1] \in Nat /\ z[k] \in {3, 4} /\ us[k] \in Seq(Byte)
        /\ P[k] = P[k - 1] + (z[k] + Len(us[k]))
    BY UnitIsHeld
  <2>2. PICK a \in Nat, c \in {3, 4}, l \in Nat : a = P[k - 1] /\ c = z[k] /\ l = Len(us[k])
    BY <2>1
  <2>3. p[k] = a + c - 3
    BY <2>2 DEF CodePlace
  <2>4. P[k] = a + (c + l)
    BY <2>1, <2>2
  <2>5. PICK v \in Nat : v = a + c - 3 /\ a <= v /\ v < a + (c + l)
    OBVIOUS
  <2>6. PICK e \in Nat : e = a + (c + l) /\ v < e
    BY <2>5
  <2>7. p[k] = v /\ P[k] = e
    BY <2>3, <2>4, <2>5, <2>6
  <2> QED BY <2>2, <2>5, <2>6, <2>7
<1>3. ASSUME NEW i \in 1 .. n, NEW j \in 1 .. n, i < j PROVE p[i] < p[j]
  <2>1. PICK m \in 0 .. n : m = j - 1 /\ i \in 0 .. m
    BY <1>1, <1>3
  <2>2. \A h \in 0 .. m : P[h] + 4 * (m - h) <= P[m]
    BY UnitsFollow
  <2>3. PICK a \in Nat : a = P[i]
    BY <1>2
  <2>4. PICK b \in Nat : b = P[m]
    BY <1>2, <2>1
  <2>5. a + 4 * (m - i) <= b
    BY <2>1, <2>2, <2>3, <2>4
  <2>6. a <= b
    BY <2>1, <2>3, <2>4, <2>5
  <2>7. PICK x \in Nat, y \in Nat : x = p[i] /\ y = p[j]
    BY <1>2
  <2>8. x < a /\ b <= y
    BY <1>2, <2>1, <2>3, <2>4, <2>7
  <2>9. x < y
    BY <2>3, <2>4, <2>6, <2>7, <2>8
  <2> QED BY <2>7, <2>9
<1>4. p \in [1 .. n -> Nat]
  BY <1>2
<1> QED BY <1>3, <1>4 DEF Rising

(* The end that is found is that of the unit, with the start code of the next one, or a
   zero of it, behind. *)
LEMMA UnitEnds ==
  ASSUME NEW d \in Seq(Byte), NEW u, Legal(u), NEW a \in Nat, NEW l \in Nat, l = Len(u), Holds(d, a, u),
         NEW to \in {a + l, a + l + 1}, to = a + l + 1 => At(d, a + l) = 0
  PROVE  Max({a} \cup {i \in a + 1 .. to : At(d, i - 1) # 0}) = a + l
<1> DEFINE S == {a} \cup {i \in a + 1 .. to : At(d, i - 1) # 0}
<1>1. PICK e \in Nat : e = a + l
  OBVIOUS
<1>2. u[l] # 0 /\ l \in 1 .. l
  BY DEF Legal
<1>3. to \in Nat /\ e <= to /\ a + 1 <= e
  BY <1>1, <1>2
<1>4. e \in S
  <2>1. d[a + l] = u[l]
    BY <1>2 DEF Holds
  <2>2. (e - 1) + 1 = a + l
    BY <1>1
  <2>3. At(d, e - 1) # 0
    BY <1>2, <2>1, <2>2 DEF At
  <2>4. e \in a + 1 .. to
    BY <1>3
  <2> QED BY <2>3, <2>4
<1>5. ASSUME NEW y \in S PROVE y \in Nat /\ y <= e /\ y <= to
  <2>1. CASE y = a
    BY <1>3, <2>1
  <2>2. CASE y # a
    <3>1. y \in a + 1 .. to /\ At(d, y - 1) # 0
      BY <2>2
    <3>2. y \in Nat /\ y <= to
      BY <1>3, <3>1
    <3>3. y <= e
      <4>1. SUFFICES ASSUME ~(y <= e) PROVE FALSE
        OBVIOUS
      <4>2. y = e + 1 /\ to = e + 1
        BY <1>1, <1>3, <3>2, <4>1
      <4>3. y - 1 = a + l /\ to = a + l + 1
        BY <1>1, <4>2
      <4> QED BY <3>1, <4>3
    <3> QED BY <3>2, <3>3
  <2> QED BY <2>1, <2>2
<1>6. S \subseteq Nat /\ S # {} /\ \A y \in S : y <= to
  BY <1>4, <1>5
<1> HIDE DEF S
<1>7. Max(S) \in S /\ e <= Max(S)
  BY <1>3, <1>4, <1>6, MaxIs
<1>8. PICK x \in S : x = Max(S) /\ e <= x
  BY <1>7
<1>9. x = e
  BY <1>5, <1>8
<1> QED BY <1>1, <1>8, <1>9 DEF S

(* the unit whose start code begins at the place i, up to the next one at t *)
UnitAt(d, i, t) ==
  LET End(from, to) == Max({from} \cup {j \in from + 1 .. to : At(d, j - 1) # 0})
  IN  Bytes(d, i + 3, End(i + 3, t))

(* the units of n start codes that begin at the places S *)
ParsedAt(d, S, n) ==
  [k \in 1 .. n |-> UnitAt(d, Kth(S, k), IF k < n THEN Kth(S, k + 1) ELSE Len(d))]

LEMMA UnitIsParsed ==
  ASSUME NEW d, NEW us, NEW n, NEW z, NEW P, IsStream(d, us, n, z, P), LegalUnits(us, n), NEW k \in 1 .. n
  PROVE  UnitAt(d, CodePlace(P, z, k), IF k < n THEN CodePlace(P, z, k + 1) ELSE Len(d)) = us[k]
<1>1. /\ P[k - 1] \in Nat /\ z[k] \in {3, 4} /\ us[k] \in Seq(Byte)
      /\ P[k] = P[k - 1] + (z[k] + Len(us[k]))
      /\ Holds(d, P[k - 1] + z[k], us[k])
  BY UnitIsHeld
<1>2. n \in Nat /\ d \in Seq(Byte) /\ Legal(us[k])
  BY DEF IsStream, Video, LegalUnits
<1>3. PICK x \in Nat, c \in {3, 4} : x = P[k - 1] /\ c = z[k]
  BY <1>1
<1>4. PICK a \in Nat : a = x + c
  OBVIOUS
<1>5. PICK u \in Seq(Byte) : u = us[k]
  BY <1>1
<1>6. PICK l \in Nat : l = Len(u)
  OBVIOUS
<1>7. P[k] = a + l
  BY <1>1, <1>3, <1>4, <1>5, <1>6
<1>8. CodePlace(P, z, k) + 3 = a
  <2>1. CodePlace(P, z, k) = x + c - 3
    BY <1>3 DEF CodePlace
  <2>2. x + c - 3 + 3 = a
    BY <1>4
  <2> QED BY <2>1, <2>2
<1>9. PICK to : to = IF k < n THEN CodePlace(P, z, k + 1) ELSE Len(d)
  OBVIOUS
<1>10. to \in {a + l, a + l + 1} /\ (to = a + l + 1 => At(d, a + l) = 0)
  <2>1. CASE k < n
    <3>1. PICK j \in 1 .. n : j = k + 1 /\ j - 1 = k
      BY <1>2, <2>1
    <3>2. P[j - 1] \in Nat /\ z[j] \in {3, 4} /\ Holds(d, P[j - 1], StartCode(z[j]))
      BY UnitIsHeld
    <3>3. PICK b \in Nat : b = P[k] /\ b = a + l
      BY <1>7
    <3>4. PICK w \in {3, 4} : w = z[j]
      BY <3>2
    <3>5. At(d, b) = 0
      BY <3>1, <3>2, <3>3, <3>4, CodeIsHeld
    <3>6. to = b + w - 3
      BY <1>9, <2>1, <3>1, <3>3, <3>4 DEF CodePlace
    <3>7. to = b \/ to = b + 1
      BY <3>6
    <3> QED BY <3>3, <3>5, <3>7
  <2>2. CASE ~(k < n)
    <3>1. k = n
      BY <1>2, <2>2
    <3>2. P[n] = Len(d)
      BY <3>1, LastIsFound
    <3>3. to = a + l
      BY <1>7, <1>9, <2>2, <3>1, <3>2
    <3> QED BY <3>3
  <2> QED BY <2>1, <2>2
<1>11. Holds(d, a, u) /\ Legal(u)
  BY <1>1, <1>2, <1>3, <1>4, <1>5
<1>12. Max({a} \cup {i \in a + 1 .. to : At(d, i - 1) # 0}) = a + l
  BY <1>2, <1>6, <1>10, <1>11, UnitEnds
<1>13. Bytes(d, a, a + l) = u
  <2>1. PICK D : D = Byte /\ d \in Seq(D) /\ u \in Seq(D)
    BY <1>2
  <2> QED BY <1>6, <1>11, <2>1, BytesAre
<1>14. UnitAt(d, CodePlace(P, z, k), to) = u
  BY <1>8, <1>12, <1>13 DEF UnitAt
<1> QED BY <1>5, <1>9, <1>14

(* The units that a decoder finds in a stream of legal units are those. *)
LEMMA ParsedIs ==
  ASSUME NEW d, NEW us, NEW n, NEW z, NEW P, IsStream(d, us, n, z, P), LegalUnits(us, n)
  PROVE  Parsed(d) = us
<1>1. n \in Nat /\ us \in Seq(Seq(Byte)) /\ n = Len(us)
  BY DEF IsStream, Video
<1>11. PICK p : p = [k \in 1 .. n |-> CodePlace(P, z, k)]
  OBVIOUS
<1>2. p = [k \in 1 .. n |-> CodePlace(P, z, k)] /\ \A k \in 1 .. n : p[k] = CodePlace(P, z, k)
  BY <1>11, Zenon
<1>3. Rising(p, n)
  BY <1>2, PlacesRise
<1>4. Codes(d) = Upto(p, n)
  <2>1. \A k \in 1 .. n : p[k] \in Codes(d)
    BY <1>2, CodeIsThere
  <2>2. \A i \in Codes(d) : \E k \in 1 .. n : i = p[k]
    BY <1>2, NoOtherCode
  <2> QED BY <2>1, <2>2 DEF Upto
<1>5. PICK S : S = Codes(d)
  OBVIOUS
<1>6. Cardinality(S) = n
  <2>1. n \in 0 .. n
    BY <1>1
  <2> QED BY <1>1, <1>3, <1>4, <1>5, <2>1, UptoSize
<1> DEFINE Code(k) == Kth(S, k)
           To(k) == IF k < n THEN Code(k + 1) ELSE Len(d)
<1>7. \A k \in 1 .. n : Code(k) = p[k]
  BY <1>1, <1>3, <1>4, <1>5, KthIs
<1>8. Parsed(d) = [k \in 1 .. n |-> UnitAt(d, Code(k), To(k))]
  <2>1. Parsed(d) = ParsedAt(d, Codes(d), Cardinality(Codes(d)))
    BY DEF Parsed, ParsedAt, Codes, UnitAt, Kth
  <2> QED BY <1>5, <1>6, <2>1 DEF ParsedAt
<1> HIDE DEF Code
<1>9. ASSUME NEW k \in 1 .. n PROVE UnitAt(d, Code(k), To(k)) = us[k]
  <2>1. UnitAt(d, CodePlace(P, z, k), IF k < n THEN CodePlace(P, z, k + 1) ELSE Len(d)) = us[k]
    BY UnitIsParsed
  <2>2. k < n => k + 1 \in 1 .. n
    BY <1>1
  <2>3. To(k) = IF k < n THEN CodePlace(P, z, k + 1) ELSE Len(d)
    BY <1>2, <1>7, <2>2
  <2>4. Code(k) = CodePlace(P, z, k)
    BY <1>2, <1>7
  <2> QED BY <2>1, <2>3, <2>4
<1>10. us = [k \in 1 .. n |-> us[k]]
  BY <1>1
<1> QED BY <1>8, <1>9, <1>10

(* It finds the units of the encoder in a stream of those that the samples are. *)
LEMMA KeptAreParsed ==
  ASSUME VideoSource, NEW d, NEW m, NEW z, NEW S, IsStream(d, Kept, m, z, S)
  PROVE  Parsed(d) = nalUnits
<1>1. PICK n \in Nat \ {0} : n = Len(nalUnits) /\ Video(nalUnits, n, CodeSizes) /\ LegalUnits(nalUnits, n)
  BY SourceIs
<1>2. CASE ~Hidden
  <2>1. Kept = nalUnits /\ m = n
    BY <1>1, <1>2 DEF Kept, IsStream, Video
  <2>2. IsStream(d, nalUnits, n, z, S)
    BY <2>1
  <2> QED BY <1>1, <2>2, ParsedIs
<1>3. CASE Hidden
  <2>1. PICK j \in Nat \ {0} : j + 1 = n
    <3>1. n > 1
      BY <1>1, <1>3 DEF Hidden
    <3>2. n - 1 \in Nat \ {0} /\ (n - 1) + 1 = n
      BY <3>1
    <3> QED BY <3>2
  <2>2. Kept = LastTwo(nalUnits, j)
    <3>1. nalUnits \in Seq(Seq(Byte))
      BY <1>1 DEF Video
    <3> QED BY <1>1, <1>3, <2>1, <3>1, MergedIs DEF Kept
  <2>3. m = j
    <3>1. m = Len(LastTwo(nalUnits, j))
      BY <2>2 DEF IsStream, Video
    <3>2. PICK v : v = LastTwo(nalUnits, j)
      OBVIOUS
    <3>3. DOMAIN v = 1 .. j
      BY <3>2 DEF LastTwo
    <3>4. v \in Seq(Seq(Byte)) /\ m = Len(v) /\ m \in Nat
      BY <2>2, <3>2 DEF IsStream, Video
    <3>5. DOMAIN v = 1 .. m
      BY <3>4
    <3> QED BY <3>3, <3>4, <3>5
  <2>4. IsStream(d, LastTwo(nalUnits, j), j, z, S) /\ Video(nalUnits, j + 1, CodeSizes)
    BY <1>1, <2>1, <2>2, <2>3
  <2>5. \E x, Q : IsStream(d, nalUnits, j + 1, x, Q)
    BY <2>4, StreamSplit
  <2>6. PICK x, Q : IsStream(d, nalUnits, n, x, Q)
    BY <2>1, <2>5
  <2> QED BY <1>1, <2>6, ParsedIs
<1> QED BY <1>2, <1>3

LEMMA VideoTyped == VideoInv => VideoTypeOK
<1> SUFFICES ASSUME VideoInv PROVE VideoTypeOK
  OBVIOUS
<1>1. VideoSource /\ startIndex \in Nat /\ sizeStartCode \in {3, 4}
  BY DEF VideoInv
<1>2. coding \in Codings /\ longs \subseteq DOMAIN nalUnits /\ nalUnits \in Seq(Units[coding[1]])
  <2>1. PICK n \in Nat \ {0} : nalUnits \in [1 .. n -> Units[coding[1]]]
    BY <1>1 DEF VideoSource
  <2>2. PICK U : U = Units[coding[1]]
    OBVIOUS
  <2>3. nalUnits = [k \in 1 .. n |-> nalUnits[k]] /\ \A k \in 1 .. n : nalUnits[k] \in U
    BY <2>1, <2>2
  <2>4. nalUnits \in Seq(U)
    BY <2>3, IsSeq
  <2> QED BY <1>1, <2>2, <2>4 DEF VideoSource
<1>3. conversion \in {"toSamples", "toBytes", "decode"} /\ data_ \in Seq(Byte) /\ data \in Seq(Byte) /\ samples \in Seq(Byte)
  <2>1. CASE Collecting
    <3>1. PICK m, y, Q, k : Sampling(m, y, Q, k)
      BY <2>1 DEF Collecting
    <3>2. data_ \in Seq(Byte)
      BY <2>1, <3>1 DEF Collecting, Sampling, KeptStream, IsStream
    <3>3. data \in Seq(Byte)
      BY <3>1 DEF Sampling, LaidUpTo
    <3> QED BY <2>1, <3>2, <3>3 DEF Collecting
  <2>2. CASE Replacing
    <3>1. PICK m, z, R, k : Coding(m, z, R, k)
      BY <2>2 DEF Replacing
    <3>2. samples \in Seq(Byte) /\ data \in Seq(Byte)
      BY <3>1 DEF Coding, LaidUpTo
    <3> QED BY <2>2, <3>2 DEF Replacing
  <2>3. CASE Arrived
    BY <2>3 DEF Arrived, IsStream
  <2> QED BY <2>1, <2>2, <2>3 DEF VideoInv
<1> QED BY <1>1, <1>2, <1>3 DEF VideoTypeOK

(* The buffers of the conversions hold bytes. *)
THEOREM VideoTypes == VideoSpec => []VideoTypeOK
BY VideoAlways, VideoTyped, PTL

LEMMA UnitsParsed == VideoInv => UnitsSurvive
<1> SUFFICES ASSUME VideoInv, conversion = "decode" PROVE Parsed(data_) = nalUnits
  BY DEF UnitsSurvive
<1>1. PICK m, z, S : IsStream(data_, Kept, m, z, S)
  BY DEF VideoInv, Collecting, Replacing, Arrived
<1>2. VideoSource
  BY DEF VideoInv
<1> QED BY <1>1, <1>2, KeptAreParsed

(* Whatever legal units a video has, and whatever start codes they had, the decoder is
   given these units (UnitsSurvive). *)
THEOREM UnitsReachTheDecoder == VideoSpec => []UnitsSurvive
BY VideoAlways, UnitsParsed, PTL

LEMMA SamplesMade == VideoInv => SamplesAreUnits
BY DEF VideoInv, Collecting, Replacing, Arrived, SamplesAreUnits, Kept

(* The samples that are multiplexed are the units, except for a last one of one byte
   behind a short start code, which is a part of the one before (SamplesAreUnits). *)
THEOREM SamplesOfTheUnits == VideoSpec => []SamplesAreUnits
BY VideoAlways, SamplesMade, PTL
===============================================================================
