---------------------------- MODULE InductionLemmas ----------------------------
(***************************************************************************)
(* Induction without an operator as parameter: a set of numbers has a      *)
(* least one, and what follows from it about functions that are defined by *)
(* recursion and about sums.  A function f[x \in S] == e is the CHOOSE of   *)
(* one that solves its equation, so that nothing is known of it until one   *)
(* is shown to exist; the lemmas below give one.                           *)
(***************************************************************************)
EXTENDS Integers, FiniteSetsExt, FiniteSetTheorems, WellFoundedInduction, TLAPS

(* A set of numbers has a least one. *)
LEMMA LeastNumber ==
  ASSUME NEW T, T \subseteq Nat, T # {}
  PROVE  \E x \in T : \A y \in T : x <= y
<1>1. PICK x \in T : \A y \in T : ~ (<<y, x>> \in OpToRel(<, Nat))
  BY NatLessThanWellFounded, WFMin
<1>2. OpToRel(<, Nat) = {ss \in Nat \X Nat : ss[1] < ss[2]}
  BY DEF OpToRel
<1>3. \A y \in T : x <= y
  <2>1. TAKE y \in T
  <2>2. x \in Nat /\ y \in Nat /\ <<y, x>> \in Nat \X Nat
    OBVIOUS
  <2>3. ~ (<<y, x>> \in {ss \in Nat \X Nat : ss[1] < ss[2]})
    BY <1>1, <1>2
  <2>4. ~ (y < x)
    BY <2>2, <2>3
  <2> QED BY <2>2, <2>4
<1> QED BY <1>3

(* A set of numbers below a bound has a largest one. *)
LEMMA LargestNumber ==
  ASSUME NEW T, T \subseteq Nat, T # {}, NEW b \in Nat, \A y \in T : y <= b
  PROVE  \E x \in T : \A y \in T : y <= x
<1> DEFINE D == {b - y : y \in T}
<1>1. D \subseteq Nat /\ D # {}
  <2>1. \A y \in T : b - y \in Nat
    OBVIOUS
  <2> QED BY <2>1
<1> HIDE DEF D
<1>2. PICK d \in D : \A e \in D : d <= e
  BY <1>1, LeastNumber
<1>3. PICK x \in T : d = b - x
  BY DEF D
<1>4. ASSUME NEW y \in T PROVE y <= x
  <2>1. b - y \in D
    BY DEF D
  <2>2. b - x <= b - y
    BY <1>2, <1>3, <2>1
  <2>3. x \in Nat /\ y \in Nat
    OBVIOUS
  <2> QED BY <2>2, <2>3
<1> QED BY <1>4

(* What holds for 0, and for a number as soon as it does for the one before, *)
(* holds up to n: the induction is over a set of numbers.                    *)
LEMMA PrefixInduction ==
  ASSUME NEW n \in Nat, NEW T, 0 \in T,
         \A k \in 1 .. n : k - 1 \in T => k \in T
  PROVE  \A k \in 0 .. n : k \in T
<1> DEFINE Bad == {k \in 0 .. n : k \notin T}
<1> SUFFICES ASSUME Bad # {} PROVE FALSE
  OBVIOUS
<1>1. Bad \subseteq Nat
  OBVIOUS
<1>2. PICK k \in Bad : \A j \in Bad : k <= j
  <2> HIDE DEF Bad
  <2> QED BY <1>1, LeastNumber
<1>3. k \in 1 .. n
  OBVIOUS
<1>4. k - 1 \notin Bad
  BY <1>2, <1>3
<1> QED BY <1>3, <1>4

(* step[k][d] is the value of a recursion in k if d is the one before. *)
StepsIn(step, ks, D) == \A k \in ks, d \in D : step[k][d] \in D

(* g is the recursion from c in the number first on. *)
Recursion(g, first, n, D, c, step) ==
  /\ g \in [first .. n -> D]
  /\ \A k \in first .. n : g[k] = IF k = first THEN c ELSE step[k][g[k - 1]]

(* A recursion along the numbers has a solution. *)
LEMMA PrefixRecursion ==
  ASSUME NEW D, NEW c \in D, NEW n \in Nat, NEW step, StepsIn(step, 1 .. n, D)
  PROVE  \E g : Recursion(g, 0, n, D, c, step)
<1> DEFINE Sol(m) == \E g : Recursion(g, 0, m, D, c, step)
           T == {m \in 0 .. n : Sol(m)}
<1>1. 0 \in T
  <2> DEFINE g == [k \in 0 .. 0 |-> c]
  <2>1. g \in [0 .. 0 -> D] /\ \A k \in 0 .. 0 : g[k] = c /\ k = 0
    OBVIOUS
  <2> HIDE DEF g
  <2>2. Sol(0)
    BY <2>1 DEF Recursion
  <2> QED BY <2>2
<1>2. ASSUME NEW m \in 1 .. n, m - 1 \in T
      PROVE  m \in T
  <2>1. PICK g : Recursion(g, 0, m - 1, D, c, step)
    BY <1>2
  <2>2. PICK v \in D : v = step[m][g[m - 1]]
    <3>1. m - 1 \in 0 .. m - 1 /\ g[m - 1] \in D
      BY <2>1 DEF Recursion
    <3> QED BY <3>1 DEF StepsIn
  <2> DEFINE h == [k \in 0 .. m |-> IF k = m THEN v ELSE g[k]]
  <2>3. h \in [0 .. m -> D] /\ h[m] = v /\ \A k \in 0 .. m - 1 : h[k] = g[k]
    BY <2>1 DEF Recursion
  <2> HIDE DEF h
  <2>4. ASSUME NEW k \in 0 .. m PROVE h[k] = IF k = 0 THEN c ELSE step[k][h[k - 1]]
    <3>1. CASE k = m
      <4>1. m - 1 \in 0 .. m - 1 /\ h[m - 1] = g[m - 1]
        BY <2>3
      <4> QED BY <3>1, <4>1, <2>2, <2>3
    <3>2. CASE k # m
      <4>1. k \in 0 .. m - 1 /\ h[k] = g[k]
        BY <2>3, <3>2
      <4>2. k # 0 => k - 1 \in 0 .. m - 1 /\ h[k - 1] = g[k - 1]
        BY <2>3, <3>2
      <4> QED BY <4>1, <4>2, <2>1 DEF Recursion
    <3> QED BY <3>1, <3>2
  <2>5. Sol(m)
    BY <2>3, <2>4 DEF Recursion
  <2> QED BY <2>5
<1> HIDE DEF T
<1>3. n \in 0 .. n /\ n \in T
  BY <1>1, <1>2, PrefixInduction
<1> QED BY <1>3 DEF T

(* The same for a recursion that begins with 1. *)
LEMMA RecursionFromOne ==
  ASSUME NEW D, NEW c \in D, NEW n \in Nat, NEW step, StepsIn(step, 2 .. n, D)
  PROVE  \E g : Recursion(g, 1, n, D, c, step)
<1>1. CASE n = 0
  <2> DEFINE g == [k \in 1 .. n |-> c]
  <2>1. g \in [1 .. n -> D] /\ \A k \in 1 .. n : FALSE
    BY <1>1
  <2> HIDE DEF g
  <2> QED BY <2>1 DEF Recursion
<1>2. CASE n # 0
  <2>1. PICK m \in Nat : m = n - 1
    BY <1>2
  <2>2. PICK after : \A k \in 1 .. m, d \in D : after[k][d] = step[k + 1][d]
    <3> DEFINE next == [k \in 1 .. m |-> [d \in D |-> step[k + 1][d]]]
    <3>1. \A k \in 1 .. m, d \in D : next[k][d] = step[k + 1][d]
      OBVIOUS
    <3> HIDE DEF next
    <3> QED BY <3>1
  <2>3. StepsIn(after, 1 .. m, D)
    BY <2>1, <2>2 DEF StepsIn
  <2>4. PICK h : Recursion(h, 0, m, D, c, after)
    BY <2>3, PrefixRecursion
  <2> DEFINE g == [k \in 1 .. n |-> h[k - 1]]
  <2>5. g \in [1 .. n -> D]
    BY <2>1, <2>4 DEF Recursion
  <2>6. \A k \in 1 .. n : g[k] = h[k - 1]
    OBVIOUS
  <2> HIDE DEF g
  <2>7. ASSUME NEW k \in 1 .. n, k # 1 PROVE g[k] = step[k][g[k - 1]]
    <3>1. k - 1 \in 1 .. m /\ k - 1 \in 1 .. n /\ (k - 1) - 1 \in 0 .. m /\ (k - 1) + 1 = k
      BY <2>1, <2>7
    <3>2. g[k] = after[k - 1][h[(k - 1) - 1]]
      <4>1. k - 1 \in 0 .. m /\ k - 1 # 0
        BY <3>1
      <4>2. g[k] = h[k - 1]
        BY <2>6
      <4> QED BY <2>4, <4>1, <4>2 DEF Recursion
    <3>4. g[k - 1] = h[(k - 1) - 1]
      BY <2>6, <3>1
    <3>3. h[(k - 1) - 1] \in D
      BY <2>4, <3>1 DEF Recursion
    <3> QED BY <2>2, <3>1, <3>2, <3>3, <3>4
  <2>8. ASSUME NEW k \in 1 .. n, k = 1 PROVE g[k] = c
    BY <2>4, <2>6, <2>8, <2>1 DEF Recursion
  <2> QED BY <2>5, <2>7, <2>8 DEF Recursion
<1> QED BY <1>1, <1>2

(* Two functions that agree in 1 and, where they agree, in the next number, *)
(* agree.                                                                   *)
LEMMA SameFromOne ==
  ASSUME NEW n \in Nat, NEW g, NEW h, g[1] = h[1],
         \A k \in 2 .. n : g[k - 1] = h[k - 1] => g[k] = h[k]
  PROVE  \A k \in 1 .. n : g[k] = h[k]
<1> DEFINE T == {k \in 0 .. n : k > 0 => g[k] = h[k]}
<1>1. 0 \in T
  OBVIOUS
<1>2. \A k \in 1 .. n : k - 1 \in T => k \in T
  OBVIOUS
<1>3. \A k \in 0 .. n : k \in T
  <2> HIDE DEF T
  <2> QED BY <1>1, <1>2, PrefixInduction
<1> QED BY <1>3

-----------------------------------------------------------------------------
(***************************************************************************)
(* Sums over finite sets.                                                  *)
(***************************************************************************)
(* What the fold of the community modules asks of its iterator, for the    *)
(* sum of f over the subsets of S.                                         *)
Iterates(g, f, S) ==
  g = [s \in SUBSET S |->
        IF s = {} THEN 0
        ELSE LET x == CHOOSE x \in s : TRUE IN f[x] + g[s \ {x}]]

(* The values of f over a set, added one by one in any order. *)
SumsOf(g, f, S) ==
  /\ g \in [SUBSET S -> Int]
  /\ g[{}] = 0
  /\ \A s \in SUBSET S : \A x \in s : g[s] = f[x] + g[s \ {x}]

(* the subsets of a finite set and their sizes *)
LEMMA SubsetSizes ==
  ASSUME NEW S, IsFiniteSet(S), NEW s \in SUBSET S
  PROVE  /\ IsFiniteSet(s) /\ Cardinality(s) \in 0 .. Cardinality(S)
         /\ Cardinality(s) = 0 <=> s = {}
         /\ \A x \in s : s \ {x} \in SUBSET S /\ Cardinality(s \ {x}) = Cardinality(s) - 1
<1>1. IsFiniteSet(s) /\ Cardinality(s) <= Cardinality(S)
  BY FS_Subset
<1>2. Cardinality(s) \in Nat /\ Cardinality(S) \in Nat
  BY <1>1, FS_CardinalityType
<1>3. Cardinality(s) = 0 <=> s = {}
  BY <1>1, FS_EmptySet
<1>4. ASSUME NEW x \in s PROVE s \ {x} \in SUBSET S /\ Cardinality(s \ {x}) = Cardinality(s) - 1
  BY <1>1, FS_RemoveElement
<1> QED BY <1>1, <1>2, <1>3, <1>4

(* The iterator exists. *)
LEMMA IteratorExists ==
  ASSUME NEW S, IsFiniteSet(S), NEW f \in [S -> Int]
  PROVE  \E g \in [SUBSET S -> Int] : Iterates(g, f, S)
<1> DEFINE Upto(m) == {s \in SUBSET S : Cardinality(s) <= m}
           Of(s) == CHOOSE x \in s : TRUE
           Value(g, s) == IF s = {} THEN 0 ELSE f[Of(s)] + g[s \ {Of(s)}]
           Sol(m) == \E g \in [Upto(m) -> Int] : \A s \in Upto(m) : g[s] = Value(g, s)
           n == Cardinality(S)
           T == {m \in 0 .. n : Sol(m)}
<1>1. n \in Nat
  BY FS_CardinalityType
<1>2. \A s \in SUBSET S : s # {} => Of(s) \in s
  OBVIOUS
<1> HIDE DEF Of
<1>3. 0 \in T
  <2>1. Upto(0) = {{}}
    <3>1. \A s \in SUBSET S : Cardinality(s) <= 0 <=> s = {}
      BY SubsetSizes
    <3> QED BY <3>1
  <2> DEFINE g == [s \in Upto(0) |-> 0]
  <2>2. g \in [Upto(0) -> Int] /\ \A s \in Upto(0) : s = {} /\ g[s] = 0
    BY <2>1
  <2> HIDE DEF g
  <2>3. Sol(0)
    <3> HIDE DEF Upto
    <3> QED BY <2>2
  <2>4. 0 \in 0 .. n
    <3> HIDE DEF n
    <3> QED BY <1>1
  <2> HIDE DEF Sol, n
  <2> QED BY <2>3, <2>4
<1>4. ASSUME NEW m \in 1 .. n, m - 1 \in T
      PROVE  m \in T
  <2>1. PICK g \in [Upto(m - 1) -> Int] : \A s \in Upto(m - 1) : g[s] = Value(g, s)
    BY <1>4
  <2> DEFINE h == [s \in Upto(m) |-> Value(g, s)]
  <2>2. \A s \in Upto(m) : s # {} => Of(s) \in s /\ Of(s) \in S /\ s \ {Of(s)} \in Upto(m - 1)
    BY <1>1, <1>2, SubsetSizes
  <2>3. \A s \in Upto(m) : Value(g, s) \in Int
    <3> HIDE DEF Upto
    <3> QED BY <2>2
  <2>4. h \in [Upto(m) -> Int]
    <3> HIDE DEF Value, Upto
    <3> QED BY <2>3
  <2>5. \A s \in Upto(m - 1) : s \in Upto(m) /\ h[s] = g[s]
    <3>1. \A s \in Upto(m - 1) : s \in Upto(m)
      BY <1>1, SubsetSizes
    <3> HIDE DEF Value, Upto
    <3> QED BY <2>1, <3>1
  <2>6. \A s \in Upto(m) : h[s] = Value(h, s)
    <3>1. \A s \in Upto(m) : h[s] = Value(g, s)
      OBVIOUS
    <3> HIDE DEF h, Upto
    <3> QED BY <2>2, <2>5, <3>1
  <2> HIDE DEF h, Value, Upto
  <2>7. Sol(m)
    BY <2>4, <2>6
  <2> QED BY <2>7
<1>5. n \in 0 .. n /\ n \in T
  <2> HIDE DEF T, n
  <2> QED BY <1>1, <1>3, <1>4, PrefixInduction
<1>6. Upto(n) = SUBSET S
  BY SubsetSizes
<1>7. PICK g \in [SUBSET S -> Int] : \A s \in SUBSET S : g[s] = Value(g, s)
  BY <1>5, <1>6
<1>8. g = [s \in SUBSET S |-> Value(g, s)]
  <2> HIDE DEF Value
  <2> QED BY <1>7
<1> QED BY <1>8 DEF Iterates, Of

(* It adds the values of f, in any order. *)
LEMMA IteratorSums ==
  ASSUME NEW S, IsFiniteSet(S), NEW f \in [S -> Int], NEW g, Iterates(g, f, S)
  PROVE  SumsOf(g, f, S)
<1> DEFINE Of(s) == CHOOSE x \in s : TRUE
           n == Cardinality(S)
           Any(s) == g[s] \in Int /\ \A x \in s : g[s] = f[x] + g[s \ {x}]
           T == {m \in 0 .. n : \A s \in SUBSET S : Cardinality(s) <= m => Any(s)}
<1>1. n \in Nat
  BY FS_CardinalityType
<1>2. /\ DOMAIN g = SUBSET S /\ g = [s \in SUBSET S |-> g[s]]
      /\ g[{}] = 0
      /\ \A s \in SUBSET S : s # {} => Of(s) \in s /\ g[s] = f[Of(s)] + g[s \ {Of(s)}]
  BY DEF Iterates
<1> HIDE DEF Of
<1>3. 0 \in T
  <2>1. \A s \in SUBSET S : Cardinality(s) <= 0 => s = {}
    BY SubsetSizes
  <2>2. Any({})
    BY <1>2
  <2>3. 0 \in 0 .. n
    <3> HIDE DEF n
    <3> QED BY <1>1
  <2> HIDE DEF Any, n
  <2> QED BY <2>1, <2>2, <2>3
<1>4. ASSUME NEW m \in 1 .. n, m - 1 \in T
      PROVE  m \in T
  <2>1. \A q \in SUBSET S : Cardinality(q) <= m - 1 => Any(q)
    BY <1>4
  <2>2. SUFFICES ASSUME NEW s \in SUBSET S, Cardinality(s) = m
                 PROVE  Any(s)
    <3>1. \A s \in SUBSET S : Cardinality(s) \in Nat
      BY SubsetSizes
    <3> HIDE DEF Any, n
    <3> QED BY <1>1, <2>1, <3>1
  <2>3. \A x \in s : s \ {x} \in SUBSET S /\ Cardinality(s \ {x}) = m - 1
    BY <2>2, SubsetSizes
  <2>4. s # {} /\ Of(s) \in s /\ g[s] = f[Of(s)] + g[s \ {Of(s)}]
    <3>1. Cardinality(s) # 0
      BY <2>2
    <3>2. s # {}
      BY <3>1, SubsetSizes
    <3> QED BY <1>2, <3>2
  <2>5. g[s] \in Int
    <3>1. g[s \ {Of(s)}] \in Int /\ f[Of(s)] \in Int
      <4>1. m - 1 <= m - 1
        BY <1>1
      <4> QED BY <2>1, <2>3, <2>4, <4>1
    <3> QED BY <2>4, <3>1
  <2>6. ASSUME NEW x \in s, x # Of(s)
        PROVE  g[s] = f[x] + g[s \ {x}]
    <3> DEFINE r == (s \ {x}) \ {Of(s)}
    <3>1. Of(s) \in s \ {x} /\ x \in s \ {Of(s)} /\ r = (s \ {Of(s)}) \ {x}
      BY <2>4, <2>6
    <3>2. Any(s \ {x}) /\ Any(s \ {Of(s)})
      <4> HIDE DEF Any
      <4>1. m - 1 <= m - 1
        BY <1>1
      <4> QED BY <2>1, <2>3, <2>4, <4>1
    <3>3. g[s \ {x}] = f[Of(s)] + g[r] /\ g[s \ {x}] \in Int
      BY <3>1, <3>2
    <3>4. g[s \ {Of(s)}] = f[x] + g[r]
      BY <3>1, <3>2
    <3>5. f[x] \in Int /\ f[Of(s)] \in Int /\ g[r] \in Int
      <4>1. f[x] \in Int /\ f[Of(s)] \in Int
        BY <2>4
      <4>2. s \ {x} \in SUBSET S /\ r \in SUBSET S
        OBVIOUS
      <4>3. Cardinality(r) = Cardinality(s \ {x}) - 1
        BY <3>1, <4>2, SubsetSizes
      <4>4. Any(r)
        <5>1. Cardinality(r) <= m - 1
          BY <2>3, <4>3
        <5> HIDE DEF Any, r
        <5> QED BY <2>1, <4>2, <5>1
      <4> QED BY <4>1, <4>4
    <3> HIDE DEF r
    <3> QED BY <2>4, <3>3, <3>4, <3>5
  <2> QED BY <2>4, <2>5, <2>6
<1>5. \A m \in 0 .. n : m \in T
  <2> HIDE DEF T, n
  <2> QED BY <1>1, <1>3, <1>4, PrefixInduction
<1>6. ASSUME NEW s \in SUBSET S
      PROVE  Any(s)
  <2>1. Cardinality(s) \in 0 .. n
    BY SubsetSizes
  <2> HIDE DEF Any, n
  <2> QED BY <1>5, <2>1
<1>7. g \in [SUBSET S -> Int]
  BY <1>2, <1>6
<1> QED BY <1>2, <1>6, <1>7 DEF SumsOf

(* A sum over a finite set is the last of sums over its subsets that grow   *)
(* by one value for each element.                                           *)
LEMMA SumOverSet ==
  ASSUME NEW S, IsFiniteSet(S), NEW f \in [S -> Int]
  PROVE  \E g : SumsOf(g, f, S) /\ g[S] = MapThenSumSet(LAMBDA i : f[i], S)
<1>1. \E g : Iterates(g, f, S)
  BY IteratorExists
<1>2. PICK v : v = MapThenSumSet(LAMBDA i : f[i], S)
  OBVIOUS
<1>3. \E g : Iterates(g, f, S) /\ g[S] = v
  BY <1>1, <1>2 DEF Iterates, MapThenSumSet, MapThenFoldSet
<1>4. \E g : SumsOf(g, f, S) /\ g[S] = v
  BY <1>3, IteratorSums
<1> QED BY <1>2, <1>4

AgreeOn(f, h, R) == \A x \in R : f[x] = h[x]

(* Sums depend on the values over their set only. *)
LEMMA SumsAgree ==
  ASSUME NEW S, IsFiniteSet(S), NEW f, NEW h, NEW g, NEW k, SumsOf(g, f, S), SumsOf(k, h, S),
         NEW R \in SUBSET S, AgreeOn(f, h, R)
  PROVE  g[R] = k[R]
<1> DEFINE n == Cardinality(R)
           T == {m \in 0 .. n : \A s \in SUBSET R : Cardinality(s) = m => g[s] = k[s]}
<1>1. IsFiniteSet(R)
  BY FS_Subset
<1>2. n \in Nat
  BY <1>1, FS_CardinalityType
<1>3. 0 \in T
  <2>1. \A s \in SUBSET R : Cardinality(s) = 0 => s = {}
    BY <1>1, SubsetSizes
  <2>2. 0 \in 0 .. n
    <3> HIDE DEF n
    <3> QED BY <1>2
  <2> HIDE DEF n
  <2> QED BY <2>1, <2>2 DEF SumsOf
<1>4. ASSUME NEW m \in 1 .. n, m - 1 \in T
      PROVE  m \in T
  <2>1. \A q \in SUBSET R : Cardinality(q) = m - 1 => g[q] = k[q]
    BY <1>4
  <2>2. ASSUME NEW s \in SUBSET R, Cardinality(s) = m
        PROVE  g[s] = k[s]
    <3>1. PICK x \in s : TRUE
      <4>1. Cardinality(s) # 0
        BY <2>2
      <4> QED BY <1>1, <4>1, SubsetSizes
    <3>2. g[s \ {x}] = k[s \ {x}]
      <4>1. s \ {x} \in SUBSET R /\ Cardinality(s \ {x}) = m - 1
        BY <1>1, <2>2, SubsetSizes
      <4> QED BY <2>1, <4>1
    <3>3. s \in SUBSET S /\ f[x] = h[x]
      BY DEF AgreeOn
    <3>4. g[s] = f[x] + g[s \ {x}] /\ k[s] = h[x] + k[s \ {x}]
      BY <3>1, <3>3 DEF SumsOf
    <3> QED BY <3>2, <3>3, <3>4
  <2> HIDE DEF n
  <2> QED BY <2>2
<1>5. \A m \in 0 .. n : m \in T
  <2> HIDE DEF T, n
  <2> QED BY <1>2, <1>3, <1>4, PrefixInduction
<1> QED BY <1>2, <1>5

(* A sum grows by what one of its values grows by. *)
LEMMA SumsGrow ==
  ASSUME NEW S, IsFiniteSet(S), NEW f \in [S -> Int], NEW h \in [S -> Int], NEW g, NEW k,
         SumsOf(g, f, S), SumsOf(k, h, S),
         NEW x \in S, \A y \in S : y # x => f[y] = h[y]
  PROVE  k[S] = g[S] + (h[x] - f[x])
<1>1. g[S \ {x}] = k[S \ {x}]
  <2>1. PICK R \in SUBSET S : R = S \ {x}
    OBVIOUS
  <2>2. AgreeOn(f, h, R)
    BY <2>1 DEF AgreeOn
  <2> QED BY <2>1, <2>2, SumsAgree
<1>2. g[S] = f[x] + g[S \ {x}] /\ k[S] = h[x] + k[S \ {x}]
  BY DEF SumsOf
<1>3. g[S \ {x}] \in Int
  BY DEF SumsOf
<1> QED BY <1>1, <1>2, <1>3

(* Sums of numbers are numbers, and those over a part are no larger. *)
LEMMA PartialSums ==
  ASSUME NEW S, IsFiniteSet(S), NEW f \in [S -> Nat], NEW g, SumsOf(g, f, S),
         NEW R \in SUBSET S
  PROVE  g[R] \in Nat /\ g[R] <= g[S]
<1> DEFINE Any(s) == g[s] \in Nat /\ \A q \in SUBSET s : g[q] \in Nat /\ g[q] <= g[s]
           n == Cardinality(S)
           T == {m \in 0 .. n : \A s \in SUBSET S : Cardinality(s) = m => Any(s)}
<1>1. n \in Nat
  BY FS_CardinalityType
<1>2. 0 \in T
  <2>1. \A s \in SUBSET S : Cardinality(s) = 0 => s = {}
    BY SubsetSizes
  <2>2. 0 \in 0 .. n
    <3> HIDE DEF n
    <3> QED BY <1>1
  <2>3. Any({})
    <3>1. g[{}] = 0 /\ \A q \in SUBSET {} : q = {}
      BY DEF SumsOf
    <3> QED BY <3>1
  <2> HIDE DEF n, Any
  <2> QED BY <2>1, <2>2, <2>3
<1>3. ASSUME NEW m \in 1 .. n, m - 1 \in T
      PROVE  m \in T
  <2>1. \A s \in SUBSET S : Cardinality(s) = m - 1 => Any(s)
    BY <1>3
  <2>2. ASSUME NEW s \in SUBSET S, Cardinality(s) = m
        PROVE  Any(s)
    <3>1. \A x \in s : Any(s \ {x}) /\ f[x] \in Nat /\ g[s] = f[x] + g[s \ {x}]
      <4>1. \A x \in s : s \ {x} \in SUBSET S /\ Cardinality(s \ {x}) = m - 1
        BY <2>2, SubsetSizes
      <4> HIDE DEF Any
      <4> QED BY <2>1, <4>1 DEF SumsOf
    <3>2. PICK x \in s : TRUE
      <4>1. Cardinality(s) # 0
        BY <2>2
      <4> QED BY <4>1, SubsetSizes
    <3>3. g[s] \in Nat
      <4>1. g[s \ {x}] \in Nat /\ f[x] \in Nat /\ g[s] = f[x] + g[s \ {x}]
        BY <3>1, <3>2
      <4> QED BY <4>1
    <3>4. ASSUME NEW q \in SUBSET s, q # s
          PROVE  g[q] \in Nat /\ g[q] <= g[s]
      <4>1. PICK y \in s : q \in SUBSET (s \ {y})
        BY <3>4
      <4>2. g[q] \in Nat /\ g[s \ {y}] \in Nat /\ g[q] <= g[s \ {y}]
        BY <3>1, <4>1
      <4> QED BY <3>1, <4>1, <4>2
    <3> QED BY <3>3, <3>4
  <2> HIDE DEF n, Any
  <2> QED BY <2>2
<1>4. \A m \in 0 .. n : m \in T
  <2> HIDE DEF T, n
  <2> QED BY <1>1, <1>2, <1>3, PrefixInduction
<1>5. Any(S)
  <2>1. n \in T
    <3> HIDE DEF T, n
    <3> QED BY <1>1, <1>4
  <2> HIDE DEF Any
  <2> QED BY <2>1
<1> QED BY <1>5

(* Multiples of M that differ by less than M are equal, and those that differ
   by less than two M are neighbours. *)
LEMMA Multiples ==
  ASSUME NEW p \in Nat, NEW q \in Nat, NEW M \in Nat \ {0}
  PROVE  /\ p > q => M * p >= M * q + M
         /\ p > q + 1 => M * p >= M * q + 2 * M
<1>1. ASSUME p > q PROVE M * p >= M * q + M
  <2> DEFINE d == p - q - 1
  <2>1. d \in Nat /\ p = q + 1 + d
    BY <1>1
  <2>2. M * p = M * q + M + M * d
    BY <2>1
  <2>3. M * d >= 0
    BY <2>1
  <2> QED BY <2>2, <2>3, <2>1
<1>2. ASSUME p > q + 1 PROVE M * p >= M * q + 2 * M
  <2> DEFINE d == p - q - 2
  <2>1. d \in Nat /\ p = q + 2 + d
    BY <1>2
  <2>2. M * p = M * q + 2 * M + M * d
    BY <2>1
  <2>3. M * d >= 0
    BY <2>1
  <2> QED BY <2>2, <2>3, <2>1
<1> QED BY <1>1, <1>2

(* The quotient and the remainder are the only ones. *)
LEMMA DivisionIs ==
  ASSUME NEW M \in Nat \ {0}, NEW p \in Nat, NEW r \in 0 .. M - 1
  PROVE  (M * p + r) \div M = p /\ (M * p + r) % M = r
<1>1. PICK x \in Nat : x = M * p + r
  OBVIOUS
<1>2. PICK q \in Nat, s \in 0 .. M - 1 : q = x \div M /\ s = x % M /\ x = M * q + s
  BY <1>1
<1>3. PICK a \in Nat, b \in Nat : a = M * p /\ b = M * q
  OBVIOUS
<1>4. p > q => a >= b + M
  BY <1>3, Multiples
<1>5. q > p => b >= a + M
  BY <1>3, Multiples
<1>6. p = q
  BY <1>1, <1>2, <1>3, <1>4, <1>5
<1>7. a = b
  BY <1>3, <1>6
<1>8. r = s
  BY <1>1, <1>2, <1>3, <1>7
<1> QED BY <1>1, <1>2, <1>6, <1>8
=============================================================================
