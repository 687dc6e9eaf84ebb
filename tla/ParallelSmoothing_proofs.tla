------------------------ MODULE ParallelSmoothing_proofs ------------------------
(***************************************************************************)
(* The smoothing of positions implements one simultaneous step, for any    *)
(* cloud and any number of workers, and leaves its result in the cloud; the*)
(* smoothing of colours computes the same and drops it.  The smoothing of  *)
(* normals works in place with vectors that its workers share: one worker  *)
(* goes through the points in order, and with several the iterations stay  *)
(* apart.                                                                  *)
(***************************************************************************)
EXTENDS ParallelSmoothing, NormalSmoothing, FiniteSetTheorems, TLAPS

(* a point that is being copied has one of its two values, and the new one as
   soon as it is processed *)
Copied(i) ==
  IF CopiesBack THEN /\ reconstruct[i] \in {original[i], temp[i]}
                     /\ Processed(i) => reconstruct[i] = temp[i]
  ELSE reconstruct[i] = original[i]

LoopInv ==
  /\ loop = "smooth" => /\ reconstruct = original
                        /\ \A i \in Items : Processed(i) => temp[i] = Smoothed(i, original)
  /\ loop = "copy" => /\ temp = AllSmoothed
                      /\ \A i \in Items : Copied(i)
  /\ loop = "done" => /\ temp = AllSmoothed
                      /\ reconstruct = IF CopiesBack THEN AllSmoothed ELSE original

IInv == TypeOK /\ LoopInv

-----------------------------------------------------------------------------
(* the first loop begins with nothing computed *)
LEMMA InitInv == Init => IInv
<1> SUFFICES ASSUME Init PROVE IInv
  OBVIOUS
<1>1. TypeOK
  BY SmoothingAssumption DEF Init, TypeOK, LoopTypeOK, Idle
<1>2. LoopInv
  BY DEF Init, LoopInv, Processed
<1> QED
  BY <1>1, <1>2 DEF IInv

(* every step of the two loops keeps the invariant *)
LEMMA NextInv == IInv /\ [Next]_vars => IInv'
<1> SUFFICES ASSUME IInv, [Next]_vars PROVE IInv'
  OBVIOUS
<1> USE DEF IInv
<1>1. ASSUME NEW w \in Workers, TakePoint(w)
      PROVE  IInv'
  <2> PICK k \in todo : Take(w, k)
    BY <1>1 DEF TakePoint
  <2>1. LoopTypeOK /\ LoopTypeOK'
    BY DEF TypeOK, LoopTypeOK, Take
  <2>2. TypeOK'
    BY <1>1, <2>1 DEF TypeOK, TakePoint
  <2>3. \A i \in Items : Processed(i)' => Processed(i)
    BY <2>1, ItemsAssumption DEF Take, Processed, LoopTypeOK
  <2>5. UNCHANGED <<kind, loop, reconstruct, temp, original>>
    BY <1>1 DEF TakePoint
  <2>6. LoopInv'
    BY <2>3, <2>5 DEF LoopInv, Copied, AllSmoothed, CopiesBack
  <2> QED
    BY <2>2, <2>6
<1>2. ASSUME NEW w \in Workers, SmoothPoint(w)
      PROVE  IInv'
  <2> DEFINE k == busy[w]
  <2>1. k \in Items /\ k # NoItem /\ Release(w)
    BY <1>2 DEF SmoothPoint, TypeOK, LoopTypeOK
  <2>2. LoopTypeOK /\ LoopTypeOK'
    BY <2>1 DEF TypeOK, LoopTypeOK, Release
  <2>3. /\ loop = "smooth" /\ UNCHANGED <<kind, loop, reconstruct, original>>
        /\ temp' = [temp EXCEPT ![k] = Smoothed(k, original)]
    BY <1>2 DEF SmoothPoint, LoopInv
  <2>4. Smoothed(k, original) \in Values
    BY <2>1, SmoothingAssumption DEF TypeOK
  <2>5. TypeOK'
    BY <2>2, <2>3, <2>4 DEF TypeOK
  <2>6. ASSUME NEW i \in Items, Processed(i)'
        PROVE  temp'[i] = Smoothed(i, original)
    <3>1. CASE i = k
      BY <2>1, <2>3, <3>1 DEF TypeOK
    <3>2. CASE i # k
      <4>1. Processed(i)
        BY <2>1, <2>6, <3>2 DEF Release, Processed
      <4>2. temp'[i] = temp[i]
        BY <2>1, <2>3, <3>2 DEF TypeOK
      <4> QED
        BY <2>3, <4>1, <4>2 DEF LoopInv
    <3> QED
      BY <3>1, <3>2
  <2>7. LoopInv'
    BY <2>3, <2>6 DEF LoopInv
  <2> QED
    BY <2>5, <2>7
<1>3. CASE EndSmoothing
  <2>1. LoopTypeOK'
    BY <1>3 DEF EndSmoothing, LoopTypeOK, StartLoop, Idle
  <2>2. TypeOK'
    BY <1>3, <2>1 DEF EndSmoothing, TypeOK
  <2>3. \A i \in Items : temp[i] = Smoothed(i, original)
    BY <1>3, ItemsAssumption DEF EndSmoothing, LoopInv, LoopEnded, Idle, Processed
  <2>4. temp = AllSmoothed
    BY <2>3 DEF AllSmoothed, TypeOK
  <2>5. loop' = "copy" /\ UNCHANGED <<kind, reconstruct, temp, original>> /\ todo' = Items
    BY <1>3 DEF EndSmoothing, StartLoop
  <2>6. reconstruct = original
    BY <1>3 DEF EndSmoothing, LoopInv
  <2>7. \A i \in Items : ~Processed(i)'
    BY <2>5 DEF Processed
  <2>8. LoopInv'
    BY <2>4, <2>5, <2>6, <2>7 DEF LoopInv, Copied, AllSmoothed, CopiesBack
  <2> QED
    BY <2>2, <2>8
<1>4. ASSUME NEW w \in Workers, CopyPoint(w)
      PROVE  IInv'
  <2> DEFINE k == busy[w]
  <2>1. k \in Items /\ k # NoItem /\ Release(w)
    BY <1>4 DEF CopyPoint, TypeOK, LoopTypeOK
  <2>2. LoopTypeOK /\ LoopTypeOK'
    BY <2>1 DEF TypeOK, LoopTypeOK, Release
  <2>3. /\ loop = "copy" /\ UNCHANGED <<kind, loop, temp, original>>
        /\ reconstruct' = IF CopiesBack THEN [reconstruct EXCEPT ![k] = temp[k]] ELSE reconstruct
    BY <1>4 DEF CopyPoint
  <2>4. TypeOK'
    BY <2>1, <2>2, <2>3 DEF TypeOK
  <2>5. ASSUME NEW i \in Items
        PROVE  Copied(i)'
    <3>1. CASE ~CopiesBack
      <4>1. reconstruct[i] = original[i]
        BY <2>3, <3>1 DEF LoopInv, Copied
      <4> QED
        BY <2>3, <3>1, <4>1 DEF Copied, CopiesBack
    <3>2. CASE CopiesBack /\ i = k
      BY <2>1, <2>3, <3>2 DEF Copied, CopiesBack, TypeOK
    <3>3. CASE CopiesBack /\ i # k
      <4>1. reconstruct'[i] = reconstruct[i] /\ temp'[i] = temp[i] /\ original'[i] = original[i]
        BY <2>1, <2>3, <3>3 DEF TypeOK
      <4>2. Processed(i)' => Processed(i)
        BY <2>1, <3>3 DEF Release, Processed
      <4> QED
        BY <2>3, <3>3, <4>1, <4>2 DEF LoopInv, Copied, CopiesBack
    <3> QED
      BY <3>1, <3>2, <3>3
  <2>6. LoopInv'
    BY <2>3, <2>5 DEF LoopInv, AllSmoothed, CopiesBack
  <2> QED
    BY <2>4, <2>6
<1>5. CASE EndCopy
  <2>1. loop = "copy" /\ loop' = "done" /\ UNCHANGED <<kind, reconstruct, temp, original, todo, busy>>
    BY <1>5 DEF EndCopy
  <2>2. TypeOK'
    BY <2>1 DEF TypeOK, LoopTypeOK
  <2>3. ASSUME NEW i \in Items
        PROVE  reconstruct[i] = IF CopiesBack THEN temp[i] ELSE original[i]
    <3>1. Processed(i) /\ Copied(i)
      BY <1>5, ItemsAssumption DEF EndCopy, LoopInv, LoopEnded, Idle, Processed
    <3> QED
      BY <3>1 DEF Copied
  <2>4. reconstruct = IF CopiesBack THEN temp ELSE original
    BY <2>3 DEF TypeOK
  <2>5. LoopInv'
    BY <2>1, <2>4 DEF LoopInv, AllSmoothed, CopiesBack
  <2> QED
    BY <2>2, <2>5
<1>6. CASE UNCHANGED vars
  <2>1. UNCHANGED <<kind, loop, reconstruct, temp, original, todo, busy>>
    BY <1>6 DEF vars
  <2>2. TypeOK'
    BY <2>1 DEF TypeOK, LoopTypeOK
  <2>3. LoopInv'
    BY <2>1 DEF LoopInv, Copied, AllSmoothed, CopiesBack, Processed
  <2> QED
    BY <2>2, <2>3
<1> QED
  BY <1>1, <1>2, <1>3, <1>4, <1>5, <1>6 DEF Next

(* The vectors of both passes keep their size and hold values only (the two
   functions, for any cloud and any arena). *)
THEOREM SmoothingTypes == Spec => []TypeOK
<1>1. IInv => TypeOK
  BY DEF IInv
<1> QED
  BY <1>1, InitInv, NextInv, PTL DEF Spec

(* When smoothPointCloud returns, every point has the position the rule gives
   it for the positions the cloud came with. *)
THEOREM GeometryIsSmoothed == Spec => []GeometrySmoothed
<1>1. IInv => GeometrySmoothed
  BY DEF IInv, TypeOK, LoopInv, Copied, GeometrySmoothed, AllSmoothed, CopiesBack
<1> QED
  BY <1>1, InitInv, NextInv, PTL DEF Spec

-----------------------------------------------------------------------------
(* the end of the loop that computes is the round of the abstract pass *)
LEMMA EndIsRound ==
  IInv /\ EndSmoothing => Rounds!Round
<1> SUFFICES ASSUME IInv, EndSmoothing PROVE Rounds!Round
  OBVIOUS
<1>1. loop = "smooth" /\ loop' = "copy" /\ temp' = temp /\ reconstruct = original
  BY DEF EndSmoothing, IInv, LoopInv
<1>2. reconstruct \in [Items -> Values] /\ temp \in [Items -> Values]
  BY DEF IInv, TypeOK
<1>3. \A i \in Items : temp[i] = Smoothed(i, reconstruct)
  BY ItemsAssumption DEF EndSmoothing, IInv, LoopInv, LoopEnded, Idle, Processed
<1>4. temp = [i \in Items |-> Smoothed(i, reconstruct)]
  BY <1>2, <1>3
<1>5. temp = [i \in Items |->
        [j \in Items |-> [v \in [Items -> Values] |-> Smoothed(j, v)]][i][reconstruct]]
  BY <1>2, <1>4
<1> QED
  BY <1>1, <1>5 DEF Rounds!Round

(* every step is the abstract round or changes nothing the mapping shows *)
LEMMA StepRefines ==
  IInv /\ [Next]_vars =>
    [Rounds!Round]_<<IF loop = "smooth" THEN reconstruct ELSE temp,
                     IF loop = "smooth" THEN 0 ELSE 1>>
<1> SUFFICES ASSUME IInv, [Next]_vars, ~EndSmoothing
             PROVE  /\ (loop = "smooth") <=> (loop' = "smooth")
                    /\ loop = "smooth" => UNCHANGED reconstruct
                    /\ loop # "smooth" => UNCHANGED temp
  BY EndIsRound
<1> QED
  BY DEF Next, TakePoint, SmoothPoint, CopyPoint, EndCopy, vars

(* The pass is one simultaneous step of all points, whatever the workers do
   (the two loops of smoothPointCloud). *)
THEOREM SmoothingIsSynchronous == Spec => Synchronous
<1>1. Init => Rounds!Init
  BY DEF Init, Rounds!Init
<1> QED
  BY <1>1, InitInv, NextInv, StepRefines, PTL DEF Spec, Synchronous, Rounds!Spec

-----------------------------------------------------------------------------
Latest(n) == n \in Normals /\ n[2] \in {iteration, iteration + 1}

(* the normals something is made of *)
Parts(mixture) == mixture.own \cup mixture.sum

(* the steps of the loop's body that find something in n1 *)
NeedSum == {"load", "add", "store"}

(* a worker that has no point is at the beginning of the body *)
StepInv ==
  /\ Exclusive
  /\ \A w \in Workers : busy[w] = NoItem => at[w] = <<"own", 0>>
  /\ \A w \in Workers : at[w][1] \in {"own", "store"} => at[w][2] = 0
  /\ \A w \in Workers : at[w][1] \in {"load", "add"} => at[w][2] > 0
  /\ iteration = Iterations => todo = Items /\ busy = Idle

(* the normals that have been replaced in this iteration are the processed ones *)
VersionInv ==
  \A i \in Items : version[i] = IF Processed(i) THEN iteration + 1 ELSE iteration

(* whoever has written the shared vectors since, has done so in this iteration *)
VectorInv ==
  \A w \in Workers :
    /\ at[w][1] # "own" => Latest(n0)
    /\ at[w][1] \in NeedSum => \A n \in Parts(n1) : Latest(n)
    /\ at[w][1] = "add" => Latest(n2)

MadeInv ==
  \A i \in Items : version[i] > 0 =>
    \A n \in Parts(madeOf[i]) : n[2] \in {version[i] - 1, version[i]}

NormalInv == NormalsTypeOK /\ StepInv /\ VersionInv /\ VectorInv /\ MadeInv

(* nothing has been replaced, and nobody has written the vectors *)
LEMMA InitNormalInv == NormalsInit => NormalInv
<1> SUFFICES ASSUME NormalsInit PROVE NormalInv
  OBVIOUS
<1>1. LoopTypeOK /\ busy = Idle /\ todo = Items /\ iteration = 0
  BY DEF NormalsInit, LoopTypeOK, Idle
<1>2. madeOf \in [Items -> Mixtures]
  BY DEF NormalsInit, NothingYet, Mixtures
<1>3. at \in [Workers -> Steps \X Nat]
  BY DEF NormalsInit, Steps
<1>4. version \in [Items -> 0 .. Iterations] /\ \A i \in Items : version[i] = 0
  BY NormalsAssumption DEF NormalsInit
<1>5. NormalsTypeOK
  <2>1. NothingYet \in Mixtures
    BY DEF NothingYet, Mixtures
  <2> QED BY <1>1, <1>2, <1>3, <1>4, <2>1, NormalsAssumption DEF NormalsInit, NormalsTypeOK
<1>6. \A w \in Workers : busy[w] = NoItem /\ at[w] = <<"own", 0>>
  BY <1>1 DEF NormalsInit, Idle
<1>7. StepInv
  BY <1>1, <1>6, ItemsAssumption, NormalsAssumption DEF StepInv, Exclusive
<1>8. VersionInv
  BY <1>1, <1>4 DEF VersionInv, Processed
<1>9. VectorInv
  BY <1>6 DEF VectorInv, NeedSum
<1>10. MadeInv
  BY <1>4 DEF MadeInv
<1> QED BY <1>5, <1>7, <1>8, <1>9, <1>10 DEF NormalInv

(* what taking and leaving a point does to the loop *)
LEMMA PointTaken ==
  ASSUME NormalsTypeOK, Exclusive, NEW w \in Workers, NEW i \in todo, Take(w, i)
  PROVE  /\ LoopTypeOK' /\ Exclusive'
         /\ busy'[w] = i /\ i \in Items
         /\ \A v \in Workers : v # w => busy'[v] = busy[v]
         /\ \A k \in Items : Processed(k)' <=> Processed(k)
<1>1. busy \in [Workers -> Items \cup {NoItem}] /\ todo \subseteq Items
  BY DEF NormalsTypeOK, LoopTypeOK
<1>2. busy' = [busy EXCEPT ![w] = i] /\ todo' = todo \ {i} /\ busy[w] = NoItem /\ i \in Items
  BY <1>1 DEF Take
<1>3. \A v \in Workers : busy'[v] = IF v = w THEN i ELSE busy[v]
  BY <1>1, <1>2
<1>4. LoopTypeOK'
  BY <1>1, <1>2 DEF LoopTypeOK
<1>5. Exclusive'
  BY <1>1, <1>2, <1>3, ItemsAssumption DEF Exclusive
<1>6. ASSUME NEW k \in Items PROVE Processed(k)' <=> Processed(k)
  BY <1>1, <1>2, <1>3, ItemsAssumption DEF Processed
<1> QED BY <1>2, <1>3, <1>4, <1>5, <1>6

LEMMA PointLeft ==
  ASSUME NormalsTypeOK, Exclusive, NEW w \in Workers, busy[w] # NoItem, Release(w)
  PROVE  /\ LoopTypeOK' /\ Exclusive'
         /\ busy'[w] = NoItem /\ busy[w] \in Items
         /\ \A v \in Workers : v # w => busy'[v] = busy[v]
         /\ ~Processed(busy[w])
         /\ \A k \in Items : Processed(k)' <=> Processed(k) \/ k = busy[w]
<1>1. busy \in [Workers -> Items \cup {NoItem}] /\ todo \subseteq Items
  BY DEF NormalsTypeOK, LoopTypeOK
<1>2. busy' = [busy EXCEPT ![w] = NoItem] /\ todo' = todo /\ busy[w] \in Items /\ busy[w] \notin todo
  BY <1>1 DEF Release, Exclusive
<1>3. \A v \in Workers : busy'[v] = IF v = w THEN NoItem ELSE busy[v]
  BY <1>1, <1>2
<1>4. LoopTypeOK'
  BY <1>1, <1>2 DEF LoopTypeOK
<1>5. Exclusive'
  BY <1>1, <1>2, <1>3, ItemsAssumption DEF Exclusive
<1>6. ~Processed(busy[w])
  BY DEF Processed
<1>7. ASSUME NEW k \in Items PROVE Processed(k)' <=> Processed(k) \/ k = busy[w]
  BY <1>1, <1>2, <1>3, ItemsAssumption DEF Processed, Exclusive
<1> QED BY <1>2, <1>3, <1>4, <1>5, <1>6, <1>7
(* a step of worker w within the body, to one that needs what is in the vectors *)
Within(w, step, j) ==
  /\ UNCHANGED <<threads, neighbours, version, madeOf, iteration, todo, busy>>
  /\ busy[w] # NoItem
  /\ step \in Steps \ {"own"} /\ j \in Nat
  /\ step \in {"load", "add"} => j > 0
  /\ step = "store" => j = 0
  /\ at' = [at EXCEPT ![w] = <<step, j>>]
  /\ n0' \in Normals \cup {<<>>} /\ n1' \in Mixtures /\ n2' \in Normals \cup {<<>>}
  /\ Latest(n0')
  /\ step # "reset" \/ (\E v \in Workers : v # w /\ at[v][1] \in NeedSum) => \A n \in Parts(n1') : Latest(n)
  /\ step = "add" \/ (\E v \in Workers : v # w /\ at[v][1] = "add") => Latest(n2')

(* such a step leaves the loop and the stored normals alone *)
LEMMA BodyStep ==
  ASSUME NormalInv, NEW w \in Workers, NEW step, NEW j, Within(w, step, j)
  PROVE  NormalInv'
<1>1. NormalsTypeOK /\ StepInv /\ VersionInv /\ VectorInv /\ MadeInv
  BY DEF NormalInv
<1> USE DEF Within
<1>2. at \in [Workers -> Steps \X Nat]
  BY <1>1 DEF NormalsTypeOK
<1>3. <<step, j>> \in Steps \X Nat
  OBVIOUS
<1>4. at' \in [Workers -> Steps \X Nat]
  BY <1>2, <1>3
<1>5. at'[w] = <<step, j>> /\ \A v \in Workers : v # w => at'[v] = at[v]
  BY <1>2
<1>6. at'[w][1] = step /\ at'[w][2] = j
  BY <1>5
<1>7. NormalsTypeOK'
  BY <1>1, <1>4, NormalsAssumption DEF NormalsTypeOK, LoopTypeOK
<1>8. StepInv'
  <2>1. Exclusive'
    BY <1>1 DEF StepInv, Exclusive
  <2>2. \A v \in Workers : busy'[v] = NoItem => at'[v] = <<"own", 0>>
    BY <1>1, <1>5 DEF StepInv
  <2>3. \A v \in Workers : at'[v][1] \in {"own", "store"} => at'[v][2] = 0
    BY <1>1, <1>5, <1>6 DEF StepInv
  <2>4. \A v \in Workers : at'[v][1] \in {"load", "add"} => at'[v][2] > 0
    BY <1>1, <1>5, <1>6 DEF StepInv
  <2>5. iteration' = Iterations => todo' = Items /\ busy' = Idle
    BY <1>1 DEF StepInv
  <2> QED BY <2>1, <2>2, <2>3, <2>4, <2>5 DEF StepInv, Idle
<1>9. VersionInv'
  BY <1>1 DEF VersionInv, Processed
<1>10. VectorInv'
  <2>1. iteration' = iteration
    OBVIOUS
  <2>2. ASSUME NEW v \in Workers, v # w
        PROVE  /\ at'[v][1] # "own" => Latest(n0')
               /\ at'[v][1] \in NeedSum => \A n \in Parts(n1') : Latest(n)
               /\ at'[v][1] = "add" => Latest(n2')
    BY <1>5, <2>2
  <2>3. /\ at'[w][1] # "own" => Latest(n0')
        /\ at'[w][1] \in NeedSum => \A n \in Parts(n1') : Latest(n)
        /\ at'[w][1] = "add" => Latest(n2')
    BY <1>6 DEF NeedSum
  <2> QED BY <2>1, <2>2, <2>3 DEF VectorInv, Latest
<1>11. MadeInv'
  BY <1>1 DEF MadeInv
<1> QED BY <1>7, <1>8, <1>9, <1>10, <1>11 DEF NormalInv

(* the normal a worker loads *)
LEMMA LoadedNormal ==
  ASSUME NormalInv, NEW i \in Items, iteration < Iterations
  PROVE  Normal(i) \in Normals /\ Normal(i)[1] = i /\ Normal(i)[2] = version[i] /\ Latest(Normal(i))
<1>1. version[i] \in 0 .. Iterations /\ version[i] \in {iteration, iteration + 1}
  BY DEF NormalInv, NormalsTypeOK, VersionInv
<1> QED BY <1>1 DEF Normal, Normals, Latest

(* a worker that is at a point is in an iteration *)
LEMMA AtPoint ==
  ASSUME NormalInv, NEW w \in Workers, at[w] # <<"own", 0>> \/ busy[w] # NoItem
  PROVE  /\ busy[w] \in Items /\ busy[w] # NoItem
         /\ iteration \in Nat /\ iteration < Iterations
         /\ Found(w) \in Seq(Items)
<1>1. busy[w] # NoItem
  BY DEF NormalInv, StepInv
<1>2. busy[w] \in Items
  BY <1>1 DEF NormalInv, NormalsTypeOK, LoopTypeOK
<1>3. iteration # Iterations /\ iteration \in 0 .. Iterations
  BY <1>1 DEF NormalInv, StepInv, NormalsTypeOK, Idle
<1>4. neighbours \in [Items -> Seq(Items)]
  BY NormalsAssumption DEF NormalInv, NormalsTypeOK
<1>5. Found(w) \in Seq(Items)
  BY <1>2, <1>4 DEF Found
<1>6. iteration \in Nat /\ iteration < Iterations
  BY <1>3, NormalsAssumption
<1> QED BY <1>1, <1>2, <1>5, <1>6

(* a point's own normal is one of this iteration or the one before *)
LEMMA LoadOwnStep == \A w \in Workers : NormalInv /\ LoadOwn(w) => NormalInv'
<1> SUFFICES ASSUME NEW w \in Workers, NormalInv, LoadOwn(w) PROVE NormalInv'
  OBVIOUS
<1>1. busy[w] \in Items /\ iteration < Iterations /\ iteration \in Nat
  BY AtPoint DEF LoadOwn
<1>2. n0' = Normal(busy[w]) /\ n0' \in Normals /\ n0'[2] \in {iteration, iteration + 1}
  BY <1>1, LoadedNormal DEF LoadOwn, Latest
<1>3. UNCHANGED <<threads, neighbours, version, madeOf, iteration, todo, busy, n1, n2>> /\ busy[w] # NoItem
  BY DEF LoadOwn
<1>4. at' = [at EXCEPT ![w] = <<"reset", 0>>]
  BY DEF LoadOwn
<1>5. n1 \in Mixtures /\ n2 \in Normals \cup {<<>>} /\ VectorInv
  BY DEF NormalInv, NormalsTypeOK
<1>6. Within(w, "reset", 0)
  BY <1>1, <1>2, <1>3, <1>4, <1>5 DEF Within, Latest, VectorInv, Steps
<1> QED BY <1>6, BodyStep

(* the empty sum has no normal of another iteration *)
LEMMA ResetSumStep == \A w \in Workers : NormalInv /\ ResetSum(w) => NormalInv'
<1> SUFFICES ASSUME NEW w \in Workers, NormalInv, ResetSum(w) PROVE NormalInv'
  OBVIOUS
<1>1. busy[w] \in Items /\ busy[w] # NoItem
  BY AtPoint DEF ResetSum
<1>3. UNCHANGED <<threads, neighbours, version, madeOf, iteration, todo, busy, n0, n2>>
      /\ n1' \in Mixtures /\ Parts(n1') = {}
  BY DEF ResetSum, NothingYet, Mixtures, Parts
<1>4. at' = [at EXCEPT ![w] = <<"load", 1>>] /\ at[w][1] # "own"
  BY DEF ResetSum
<1>5. n0 \in Normals \cup {<<>>} /\ n2 \in Normals \cup {<<>>} /\ VectorInv
  BY DEF NormalInv, NormalsTypeOK
<1>6. Latest(n0')
  BY <1>3, <1>4, <1>5 DEF VectorInv, Latest
<1>7. Within(w, "load", 1)
  BY <1>1, <1>3, <1>4, <1>5, <1>6 DEF Within, Latest, VectorInv, Steps
<1> QED BY <1>7, BodyStep

(* the worker keeps its neighbour when it goes on from loading to adding *)
LEMMA NextAction ==
  ASSUME NormalInv, NEW w \in Workers, at[w][1] = "load"
  PROVE  [at EXCEPT ![w][1] = "add"] = [at EXCEPT ![w] = <<"add", at[w][2]>>] /\ at[w][2] \in Nat /\ at[w][2] > 0
<1>1. at[w] \in Steps \X Nat
  BY DEF NormalInv, NormalsTypeOK
<1>2. [at[w] EXCEPT ![1] = "add"] = <<"add", at[w][2]>>
  BY <1>1
<1>3. at[w][2] \in Nat /\ at[w][2] > 0
  BY <1>1 DEF NormalInv, StepInv
<1> QED BY <1>2, <1>3

(* and so is a neighbour's, whoever has replaced it *)
LEMMA LoadNeighbourStep == \A w \in Workers : NormalInv /\ LoadNeighbour(w) => NormalInv'
<1> SUFFICES ASSUME NEW w \in Workers, NormalInv, LoadNeighbour(w) PROVE NormalInv'
  OBVIOUS
<1>1. at[w][1] = "load" /\ at[w][2] <= Len(Found(w)) /\ n2' = Normal(Found(w)[at[w][2]])
  BY DEF LoadNeighbour
<1>2. busy[w] # NoItem /\ iteration < Iterations /\ Found(w) \in Seq(Items) /\ iteration \in Nat
  BY <1>1, AtPoint
<1>3. UNCHANGED <<threads, neighbours, version, madeOf, iteration, todo, busy, n0, n1>>
  BY DEF LoadNeighbour
<1>4. at' = [at EXCEPT ![w] = <<"add", at[w][2]>>] /\ at[w][2] \in Nat /\ at[w][2] > 0
  BY <1>1, NextAction DEF LoadNeighbour
<1>5. Found(w)[at[w][2]] \in Items
  BY <1>1, <1>2, <1>4
<1>6. n2' \in Normals /\ n2'[2] \in {iteration, iteration + 1}
  BY <1>1, <1>2, <1>5, LoadedNormal DEF Latest
<1>7. n0 \in Normals \cup {<<>>} /\ n1 \in Mixtures /\ VectorInv
  BY DEF NormalInv, NormalsTypeOK
<1>8. Latest(n0')
  BY <1>1, <1>3, <1>7 DEF VectorInv, Latest
<1>9. Within(w, "add", at[w][2])
  BY <1>1, <1>2, <1>3, <1>4, <1>6, <1>7, <1>8 DEF Within, Latest, VectorInv, Steps, NeedSum
<1> QED BY <1>9, BodyStep

(* a mixture that gets one more normal *)
LEMMA JoinedMixture ==
  ASSUME NEW mixture \in Mixtures, NEW n \in Normals
  PROVE  /\ [mixture EXCEPT !.sum = @ \cup {n}] = [own |-> mixture.own, sum |-> mixture.sum \cup {n}]
         /\ [mixture EXCEPT !.own = @ \cup {n}] = [own |-> mixture.own \cup {n}, sum |-> mixture.sum]
         /\ [mixture EXCEPT !.sum = @ \cup {n}] \in Mixtures
         /\ [mixture EXCEPT !.own = @ \cup {n}] \in Mixtures
         /\ Parts([mixture EXCEPT !.sum = @ \cup {n}]) = Parts(mixture) \cup {n}
         /\ Parts([mixture EXCEPT !.own = @ \cup {n}]) = Parts(mixture) \cup {n}
<1>1. PICK own \in SUBSET Normals : mixture.own = own
  BY DEF Mixtures
<1>2. PICK sum \in SUBSET Normals : mixture.sum = sum
  BY DEF Mixtures
<1>3. mixture = [own |-> own, sum |-> sum]
  BY <1>1, <1>2 DEF Mixtures
<1>4. /\ [mixture EXCEPT !.sum = @ \cup {n}] = [own |-> own, sum |-> sum \cup {n}]
      /\ [mixture EXCEPT !.own = @ \cup {n}] = [own |-> own \cup {n}, sum |-> sum]
  BY <1>3
<1>5. own \cup {n} \in SUBSET Normals /\ sum \cup {n} \in SUBSET Normals
  OBVIOUS
<1>6. /\ [own |-> own, sum |-> sum \cup {n}] \in Mixtures
      /\ [own |-> own \cup {n}, sum |-> sum] \in Mixtures
  BY <1>5 DEF Mixtures
<1>7. /\ Parts([own |-> own, sum |-> sum \cup {n}]) = own \cup (sum \cup {n})
      /\ Parts([own |-> own \cup {n}, sum |-> sum]) = (own \cup {n}) \cup sum
      /\ Parts(mixture) = own \cup sum
  BY <1>3 DEF Parts
<1> QED BY <1>1, <1>2, <1>4, <1>6, <1>7

(* which makes a sum of such normals, whoever began it *)
LEMMA AddNeighbourStep == \A w \in Workers : NormalInv /\ AddNeighbour(w) => NormalInv'
<1> SUFFICES ASSUME NEW w \in Workers, NormalInv, AddNeighbour(w) PROVE NormalInv'
  OBVIOUS
<1>1. at[w][1] = "add" /\ n1' = [n1 EXCEPT !.sum = @ \cup {n2}] /\ at' = [at EXCEPT ![w] = <<"load", at[w][2] + 1>>]
  BY DEF AddNeighbour
<1>2. busy[w] # NoItem
  BY <1>1, AtPoint
<1>3. UNCHANGED <<threads, neighbours, version, madeOf, iteration, todo, busy, n0, n2>>
  BY DEF AddNeighbour
<1>4. at[w][2] \in Nat
  BY DEF NormalInv, NormalsTypeOK
<1>7. n0 \in Normals \cup {<<>>} /\ n1 \in Mixtures /\ n2 \in Normals \cup {<<>>} /\ VectorInv
  BY DEF NormalInv, NormalsTypeOK
<1>8. Latest(n0')
  BY <1>1, <1>3, <1>7 DEF VectorInv, Latest
<1>9. Latest(n2) /\ \A n \in Parts(n1) : Latest(n)
  BY <1>1, <1>7 DEF VectorInv, NeedSum
<1>10. n1' \in Mixtures /\ \A n \in Parts(n1') : Latest(n)
  <2>1. n2 \in Normals
    BY <1>9 DEF Latest
  <2>2. n1' \in Mixtures /\ Parts(n1') = Parts(n1) \cup {n2}
    BY <1>1, <1>7, <2>1, JoinedMixture
  <2> QED BY <1>9, <2>2
<1>11. PICK j \in Nat : j = at[w][2] + 1
  BY <1>4
<1>12. Latest(n2')
  BY <1>3, <1>9 DEF Latest
<1>13. j > 0 /\ at' = [at EXCEPT ![w] = <<"load", j>>]
  BY <1>1, <1>4, <1>11
<1>14. Within(w, "load", j)
  BY <1>2, <1>3, <1>7, <1>8, <1>10, <1>12, <1>13 DEF Within, Steps
<1> QED BY <1>14, BodyStep

(* as does weighing it against the own normal of whichever point n0 has *)
LEMMA WeighNormalStep == \A w \in Workers : NormalInv /\ WeighNormal(w) => NormalInv'
<1> SUFFICES ASSUME NEW w \in Workers, NormalInv, WeighNormal(w) PROVE NormalInv'
  OBVIOUS
<1>1. at[w][1] = "load" /\ n1' = [n1 EXCEPT !.own = @ \cup {n0}] /\ at' = [at EXCEPT ![w] = <<"store", 0>>]
  BY DEF WeighNormal
<1>2. busy[w] # NoItem
  BY <1>1, AtPoint
<1>3. UNCHANGED <<threads, neighbours, version, madeOf, iteration, todo, busy, n0, n2>>
  BY DEF WeighNormal
<1>4. n0 \in Normals \cup {<<>>} /\ n1 \in Mixtures /\ n2 \in Normals \cup {<<>>} /\ VectorInv
  BY DEF NormalInv, NormalsTypeOK
<1>5. Latest(n0) /\ Latest(n0') /\ \A n \in Parts(n1) : Latest(n)
  BY <1>1, <1>3, <1>4 DEF VectorInv, NeedSum, Latest
<1>6. n1' \in Mixtures /\ \A n \in Parts(n1') : Latest(n)
  <2>1. n0 \in Normals
    BY <1>5 DEF Latest
  <2>2. n1' \in Mixtures /\ Parts(n1') = Parts(n1) \cup {n0}
    BY <1>1, <1>4, <2>1, JoinedMixture
  <2> QED BY <1>5, <2>2
<1>7. \A v \in Workers : v # w /\ at[v][1] = "add" => Latest(n2')
  BY <1>3, <1>4 DEF VectorInv, Latest
<1>8. Within(w, "store", 0)
  BY <1>1, <1>2, <1>3, <1>4, <1>5, <1>6, <1>7 DEF Within, Steps
<1> QED BY <1>8, BodyStep

(* a point that is taken was not processed, nor is it now *)
LEMMA TakePointStep == \A w \in Workers : NormalInv /\ TakeNextPoint(w) => NormalInv'
<1> SUFFICES ASSUME NEW w \in Workers, NormalInv, TakeNextPoint(w) PROVE NormalInv'
  OBVIOUS
<1>1. PICK i \in todo : Take(w, i)
  BY DEF TakeNextPoint
<1>2. UNCHANGED <<threads, neighbours, version, madeOf, n0, n1, n2, at, iteration>> /\ iteration < Iterations
  BY DEF TakeNextPoint, work
<1>3. NormalsTypeOK /\ StepInv /\ VersionInv /\ VectorInv /\ MadeInv /\ Exclusive
  BY DEF NormalInv, StepInv
<1>4. /\ LoopTypeOK' /\ Exclusive' /\ busy'[w] = i /\ i \in Items
      /\ \A v \in Workers : v # w => busy'[v] = busy[v]
      /\ \A k \in Items : Processed(k)' <=> Processed(k)
  BY <1>1, <1>3, PointTaken
<1>5. NormalsTypeOK'
  BY <1>2, <1>3, <1>4, NormalsAssumption DEF NormalsTypeOK
<1>6. \A v \in Workers : busy'[v] = NoItem => at'[v] = <<"own", 0>>
  BY <1>2, <1>3, <1>4, ItemsAssumption DEF StepInv
<1>7. iteration' # Iterations
  BY <1>2, <1>3, NormalsAssumption DEF NormalsTypeOK
<1>8. StepInv'
  BY <1>2, <1>3, <1>4, <1>6, <1>7 DEF StepInv
<1>9. VersionInv'
  BY <1>2, <1>3, <1>4 DEF VersionInv
<1>10. VectorInv'
  BY <1>2, <1>3 DEF VectorInv, Latest
<1>11. MadeInv'
  BY <1>2, <1>3 DEF MadeInv
<1> QED BY <1>5, <1>8, <1>9, <1>10, <1>11 DEF NormalInv

(* what is stored is made of what was loaded in this iteration *)
LEMMA StoreNormalStep == \A w \in Workers : NormalInv /\ StoreNormal(w) => NormalInv'
<1> SUFFICES ASSUME NEW w \in Workers, NormalInv, StoreNormal(w) PROVE NormalInv'
  OBVIOUS
<1> DEFINE b == busy[w]
<1>1. at[w][1] = "store"
  BY DEF StoreNormal
<1>2. b \in Items /\ b # NoItem /\ iteration \in Nat /\ iteration < Iterations
  BY <1>1, AtPoint
<1>3. NormalsTypeOK /\ StepInv /\ VersionInv /\ VectorInv /\ MadeInv /\ Exclusive
  BY DEF NormalInv, StepInv
<1>4. /\ UNCHANGED <<threads, neighbours, n0, n1, n2, iteration>> /\ Release(w)
      /\ version' = [version EXCEPT ![b] = @ + 1]
      /\ madeOf' = [madeOf EXCEPT ![b] = n1]
      /\ at' = [at EXCEPT ![w] = <<"own", 0>>]
  BY DEF StoreNormal
<1>5. /\ LoopTypeOK' /\ Exclusive' /\ busy'[w] = NoItem
      /\ \A v \in Workers : v # w => busy'[v] = busy[v]
      /\ ~Processed(b)
      /\ \A k \in Items : Processed(k)' <=> Processed(k) \/ k = b
  BY <1>2, <1>3, <1>4, PointLeft
<1>6. version[b] = iteration /\ version \in [Items -> 0 .. Iterations]
  BY <1>2, <1>3, <1>5 DEF VersionInv, NormalsTypeOK
<1>7. version'[b] = iteration + 1 /\ \A k \in Items : k # b => version'[k] = version[k]
  BY <1>2, <1>4, <1>6
<1>8. iteration + 1 \in 0 .. Iterations
  BY <1>2, NormalsAssumption
<1>9. version' \in [Items -> 0 .. Iterations]
  BY <1>4, <1>6, <1>8
<1>10. \A n \in Parts(n1) : Latest(n)
  BY <1>1, <1>3 DEF VectorInv, NeedSum
<1>11. madeOf \in [Items -> Mixtures] /\ n1 \in Mixtures
  BY <1>3 DEF NormalsTypeOK
<1>12. madeOf'[b] = n1 /\ \A k \in Items : k # b => madeOf'[k] = madeOf[k]
  BY <1>2, <1>4, <1>11
<1>14. madeOf' \in [Items -> Mixtures]
  BY <1>4, <1>11
<1>17. at \in [Workers -> Steps \X Nat]
  BY <1>3 DEF NormalsTypeOK
<1>18. /\ at' \in [Workers -> Steps \X Nat]
       /\ at'[w] = <<"own", 0>> /\ \A v \in Workers : v # w => at'[v] = at[v]
  BY <1>4, <1>17 DEF Steps
<1>19. NormalsTypeOK'
  BY <1>3, <1>4, <1>5, <1>9, <1>14, <1>18 DEF NormalsTypeOK
<1>20. StepInv'
  <2>1. \A v \in Workers : busy'[v] = NoItem => at'[v] = <<"own", 0>>
    BY <1>3, <1>5, <1>18 DEF StepInv
  <2>2. at'[w][1] = "own" /\ at'[w][2] = 0
    BY <1>18
  <2>3. \A v \in Workers : at'[v][1] \in {"own", "store"} => at'[v][2] = 0
    BY <1>3, <1>18, <2>2 DEF StepInv
  <2>4. \A v \in Workers : at'[v][1] \in {"load", "add"} => at'[v][2] > 0
    BY <1>3, <1>18, <2>2 DEF StepInv
  <2>5. iteration' # Iterations
    BY <1>2, <1>4, NormalsAssumption
  <2> QED BY <1>5, <2>1, <2>3, <2>4, <2>5 DEF StepInv
<1>21. VersionInv'
  BY <1>3, <1>4, <1>5, <1>7 DEF VersionInv
<1>22. VectorInv'
  <2>1. at'[w][1] = "own"
    BY <1>18
  <2>2. ASSUME NEW v \in Workers, v # w
        PROVE  /\ at'[v][1] # "own" => Latest(n0')
               /\ at'[v][1] \in NeedSum => \A n \in Parts(n1') : Latest(n)
               /\ at'[v][1] = "add" => Latest(n2')
    BY <1>3, <1>4, <1>18, <2>2 DEF VectorInv, Latest
  <2>3. iteration' = iteration
    BY <1>4
  <2> QED BY <2>1, <2>2, <2>3 DEF VectorInv, Latest, NeedSum
<1>23. MadeInv'
  <2>1. \A n \in Parts(n1) : n[2] \in {version'[b] - 1, version'[b]}
    BY <1>2, <1>7, <1>10 DEF Latest
  <2>2. ASSUME NEW k \in Items, version'[k] > 0
        PROVE  \A n \in Parts(madeOf'[k]) : n[2] \in {version'[k] - 1, version'[k]}
    BY <1>3, <1>7, <1>12, <2>1, <2>2 DEF MadeInv
  <2> QED BY <2>2 DEF MadeInv
<1> QED BY <1>19, <1>20, <1>21, <1>22, <1>23 DEF NormalInv

(* an iteration ends when every normal has been replaced in it *)
LEMMA EndIterationStep == NormalInv /\ EndIteration => NormalInv'
<1> SUFFICES ASSUME NormalInv, EndIteration PROVE NormalInv'
  OBVIOUS
<1>1. /\ iteration < Iterations /\ iteration' = iteration + 1 /\ todo = {} /\ busy = Idle
      /\ todo' = Items /\ busy' = Idle
      /\ UNCHANGED <<threads, neighbours, version, madeOf, n0, n1, n2, at>>
  BY DEF EndIteration, LoopEnded, StartLoop, work
<1>2. NormalsTypeOK /\ StepInv /\ VersionInv /\ VectorInv /\ MadeInv
  BY DEF NormalInv
<1>3. iteration \in Nat /\ iteration' \in 0 .. Iterations
  BY <1>1, <1>2, NormalsAssumption DEF NormalsTypeOK
<1>4. LoopTypeOK'
  BY <1>1 DEF LoopTypeOK, Idle
<1>5. NormalsTypeOK'
  BY <1>1, <1>2, <1>3, <1>4 DEF NormalsTypeOK
<1>6. \A w \in Workers : busy[w] = NoItem /\ busy'[w] = NoItem
  BY <1>1 DEF Idle
<1>7. Exclusive'
  BY <1>1, <1>6, ItemsAssumption DEF Exclusive
<1>8. StepInv'
  BY <1>1, <1>2, <1>6, <1>7 DEF StepInv, Idle
<1>9. \A i \in Items : Processed(i) /\ ~Processed(i)'
  BY <1>1, <1>6, ItemsAssumption DEF Processed
<1>10. VersionInv'
  BY <1>1, <1>2, <1>9 DEF VersionInv
<1>11. \A w \in Workers : at'[w] = <<"own", 0>>
  BY <1>1, <1>2, <1>6 DEF StepInv
<1>12. VectorInv'
  BY <1>11 DEF VectorInv, NeedSum
<1>13. MadeInv'
  BY <1>1, <1>2 DEF MadeInv
<1> QED BY <1>5, <1>8, <1>10, <1>12, <1>13 DEF NormalInv

(* every step of the loop keeps the invariant *)
LEMMA NextNormalInv == NormalInv /\ [NormalsNext]_normalsVars => NormalInv'
<1> SUFFICES ASSUME NormalInv, [NormalsNext]_normalsVars PROVE NormalInv'
  OBVIOUS
<1>1. threads \subseteq Workers
  BY DEF NormalInv, NormalsTypeOK
<1>2. CASE UNCHANGED normalsVars
  <2>1. UNCHANGED <<threads, neighbours, version, madeOf, n0, n1, n2, at, iteration, todo, busy>>
    BY <1>2 DEF normalsVars, work
  <2>2. NormalsTypeOK' /\ StepInv'
    BY <2>1 DEF NormalInv, NormalsTypeOK, LoopTypeOK, StepInv, Exclusive, Idle
  <2>3. VersionInv' /\ VectorInv' /\ MadeInv'
    BY <2>1 DEF NormalInv, VersionInv, Processed, VectorInv, Latest, MadeInv
  <2> QED BY <2>2, <2>3 DEF NormalInv
<1>3. CASE \E w \in threads : \/ TakeNextPoint(w) \/ LoadOwn(w) \/ ResetSum(w)
                              \/ LoadNeighbour(w) \/ AddNeighbour(w)
                              \/ WeighNormal(w) \/ StoreNormal(w)
  BY <1>1, <1>3, TakePointStep, LoadOwnStep, ResetSumStep, LoadNeighbourStep, AddNeighbourStep,
     WeighNormalStep, StoreNormalStep
<1>4. CASE EndIteration
  BY <1>4, EndIterationStep
<1> QED BY <1>2, <1>3, <1>4 DEF NormalsNext

(* Whatever the workers of smoothNormals do to each other's vectors, no point is
   more than one iteration in front of another one, and a normal is only made of
   normals of its own iteration and the one before. *)
THEOREM IterationsStayInStep == NormalsSpec => []IterationsInStep
<1>1. NormalInv => IterationsInStep
  BY DEF NormalInv, VersionInv, MadeInv, IterationsInStep, Parts
<1> QED BY <1>1, InitNormalInv, NextNormalInv, PTL DEF NormalsSpec


-----------------------------------------------------------------------------
(* the first neighbours of a worker's point, as they are *)
Loaded(w, m) == {Normal(Found(w)[j]) : j \in 1 .. m}

(* what a point is smoothed with when one worker goes through them in order *)
InTurn(i) == {<<k, IF k < i THEN version[i] ELSE version[i] - 1>> : k \in Neighbours(i)}

(* the only worker has everything to itself: what is taken lies in front of what
   is not, and the vectors hold what it has put there *)
AloneInv(w) ==
  /\ \A v \in Workers : v # w => busy[v] = NoItem
  /\ \A i \in Items \ todo, k \in todo : i < k
  /\ busy[w] # NoItem => \A i \in Items \ todo : i <= busy[w]
  /\ at[w][1] # "own" => n0 = Normal(busy[w])
  /\ at[w][1] = "load" => at[w][2] <= Len(Found(w)) + 1
  /\ at[w][1] = "add" => at[w][2] <= Len(Found(w)) /\ n2 = Normal(Found(w)[at[w][2]])
  /\ at[w][1] \in {"load", "add"} => n1 = [own |-> {}, sum |-> Loaded(w, at[w][2] - 1)]
  /\ at[w][1] = "store" => n1 = [own |-> {Normal(busy[w])}, sum |-> Loaded(w, Len(Found(w)))]
  /\ \A i \in Items : version[i] > 0 =>
       madeOf[i] = [own |-> {<<i, version[i] - 1>>}, sum |-> InTurn(i)]

OrderInv == \A w \in Workers : threads = {w} => AloneInv(w)

(* the only worker begins at the beginning *)
LEMMA OrderInit == NormalsInit => OrderInv
<1> SUFFICES ASSUME NormalsInit, NEW w \in Workers PROVE AloneInv(w)
  BY DEF OrderInv
<1>1. \A v \in Workers : busy[v] = NoItem /\ at[v] = <<"own", 0>>
  BY DEF NormalsInit, Idle
<1>2. Items \ todo = {} /\ \A i \in Items : version[i] = 0
  BY DEF NormalsInit
<1> QED BY <1>1, <1>2 DEF AloneInv

(* with one worker the points in front of its own are the replaced ones *)
LEMMA InFront ==
  ASSUME NormalInv, NEW w \in Workers, AloneInv(w), busy[w] # NoItem, NEW k \in Items
  PROVE  version[k] = IF k < busy[w] THEN iteration + 1 ELSE iteration
<1>1. busy[w] \in Items /\ busy[w] \notin todo
  BY DEF NormalInv, NormalsTypeOK, LoopTypeOK, StepInv, Exclusive
<1>2. Processed(k) <=> k \notin todo /\ k # busy[w]
  BY ItemsAssumption DEF Processed, AloneInv
<1>3. k \in Nat /\ busy[w] \in Nat
  BY <1>1, NormalsAssumption
<1>4. k < busy[w] => k \notin todo
  BY <1>1, <1>3 DEF AloneInv
<1>5. k \notin todo /\ k # busy[w] => k < busy[w]
  BY <1>1, <1>3 DEF AloneInv
<1> QED BY <1>2, <1>3, <1>4, <1>5 DEF NormalInv, VersionInv

(* a step within the body that fills the vectors *)
LEMMA AloneInBody ==
  ASSUME NormalInv, NEW w \in Workers, AloneInv(w), NEW step, NEW j, Within(w, step, j),
         n0' = Normal(busy[w]),
         step = "load" => j <= Len(Found(w)) + 1,
         step = "add" => j <= Len(Found(w)) /\ n2' = Normal(Found(w)[j]),
         step \in {"load", "add"} => n1' = [own |-> {}, sum |-> Loaded(w, j - 1)],
         step = "store" => n1' = [own |-> {Normal(busy[w])}, sum |-> Loaded(w, Len(Found(w)))]
  PROVE  AloneInv(w)'
<1>1. UNCHANGED <<neighbours, version, madeOf, iteration, todo, busy>>
  BY DEF Within
<1>2. at \in [Workers -> Steps \X Nat]
  BY DEF NormalInv, NormalsTypeOK
<1>3. at'[w] = <<step, j>>
  BY <1>2 DEF Within
<1>4. at'[w][1] = step /\ at'[w][2] = j
  BY <1>3
<1>5. Found(w)' = Found(w) /\ \A i : Normal(i)' = Normal(i) /\ InTurn(i)' = InTurn(i)
  BY <1>1 DEF Found, Normal, InTurn, Neighbours
<1>6. \A m : Loaded(w, m)' = Loaded(w, m)
  BY <1>5 DEF Loaded
<1>7. /\ at'[w][1] # "own" => n0' = Normal(busy[w])'
      /\ at'[w][1] = "load" => at'[w][2] <= Len(Found(w)') + 1
  BY <1>1, <1>4, <1>5 DEF Normal
<1>8. at'[w][1] = "add" => at'[w][2] <= Len(Found(w)') /\ n2' = Normal(Found(w)[at[w][2]])'
  BY <1>1, <1>4, <1>5 DEF Normal
<1>9. at'[w][1] \in {"load", "add"} => n1' = [own |-> {}, sum |-> Loaded(w, at[w][2] - 1)']
  BY <1>1, <1>4, <1>5 DEF Loaded, Normal
<1>10. at'[w][1] = "store" => n1' = [own |-> {Normal(busy[w])'}, sum |-> Loaded(w, Len(Found(w)))']
  BY <1>1, <1>4, <1>5 DEF Loaded, Normal
<1> QED BY <1>1, <1>5, <1>7, <1>8, <1>9, <1>10 DEF AloneInv


(* each step of the only worker: it loads its point's normal, *)
LEMMA AloneLoadOwn == ASSUME NormalInv, NEW w \in Workers, AloneInv(w), LoadOwn(w) PROVE AloneInv(w)'
<1>1. busy[w] \in Items /\ iteration < Iterations
  BY AtPoint DEF LoadOwn
<1>2. n0' = Normal(busy[w]) /\ Latest(n0') /\ n0' \in Normals
  BY <1>1, LoadedNormal DEF LoadOwn
<1>3. Within(w, "reset", 0)
  BY <1>2 DEF LoadOwn, Within, NormalInv, NormalsTypeOK, VectorInv, Steps
<1> QED BY <1>2, <1>3, AloneInBody

(* empties the sum, *)
LEMMA AloneResetSum == ASSUME NormalInv, NEW w \in Workers, AloneInv(w), ResetSum(w) PROVE AloneInv(w)'
<1>1. at[w][1] = "reset" /\ n1' = [own |-> {}, sum |-> {}] /\ n0' = n0 /\ n2' = n2
  BY DEF ResetSum, NothingYet
<1>2. busy[w] # NoItem /\ Found(w) \in Seq(Items)
  BY <1>1, AtPoint
<1>3. Latest(n0')
  BY <1>1 DEF NormalInv, VectorInv
<1>4. Within(w, "load", 1)
  BY <1>1, <1>2, <1>3 DEF ResetSum, Within, NormalInv, NormalsTypeOK, VectorInv, Steps, Mixtures, Parts
<1>5. n1' = [own |-> {}, sum |-> Loaded(w, 1 - 1)] /\ 1 <= Len(Found(w)) + 1
  <2>1. 1 .. 1 - 1 = {}
    OBVIOUS
  <2>2. Loaded(w, 1 - 1) = {}
    BY <2>1 DEF Loaded
  <2>3. Len(Found(w)) \in Nat
    BY <1>2
  <2>4. 1 <= Len(Found(w)) + 1
    BY <2>3
  <2>5. n1' = [own |-> {}, sum |-> Loaded(w, 1 - 1)]
    BY <1>1, <2>2, Zenon
  <2> QED BY <2>4, <2>5
<1>6. n0' = Normal(busy[w])
  BY <1>1 DEF AloneInv
<1> QED BY <1>4, <1>5, <1>6, AloneInBody

(* loads the next neighbour, as it is now, *)
LEMMA AloneLoadNeighbour == ASSUME NormalInv, NEW w \in Workers, AloneInv(w), LoadNeighbour(w) PROVE AloneInv(w)'
<1>1. at[w][1] = "load" /\ at[w][2] <= Len(Found(w)) /\ n2' = Normal(Found(w)[at[w][2]]) /\ n0' = n0 /\ n1' = n1
  BY DEF LoadNeighbour
<1>2. busy[w] # NoItem /\ iteration < Iterations /\ Found(w) \in Seq(Items)
  BY <1>1, AtPoint
<1>3. at' = [at EXCEPT ![w] = <<"add", at[w][2]>>] /\ at[w][2] \in Nat /\ at[w][2] > 0
  BY <1>1, NextAction DEF LoadNeighbour
<1>4. Found(w)[at[w][2]] \in Items
  BY <1>1, <1>2, <1>3
<1>5. Latest(n2') /\ n2' \in Normals
  BY <1>1, <1>2, <1>4, LoadedNormal
<1>6. Latest(n0') /\ (\A n \in Parts(n1') : Latest(n)) /\ n0 \in Normals \cup {<<>>} /\ n1 \in Mixtures
  BY <1>1 DEF NormalInv, VectorInv, NormalsTypeOK, NeedSum
<1>7. Within(w, "add", at[w][2])
  BY <1>1, <1>2, <1>3, <1>5, <1>6 DEF LoadNeighbour, Within, Steps
<1>8. n0' = Normal(busy[w]) /\ n1' = [own |-> {}, sum |-> Loaded(w, at[w][2] - 1)]
  BY <1>1 DEF AloneInv
<1> QED BY <1>1, <1>7, <1>8, AloneInBody

(* adds it to the ones before, *)
LEMMA AloneAddNeighbour == ASSUME NormalInv, NEW w \in Workers, AloneInv(w), AddNeighbour(w) PROVE AloneInv(w)'
<1>1. /\ at[w][1] = "add" /\ n1' = [n1 EXCEPT !.sum = @ \cup {n2}]
      /\ at' = [at EXCEPT ![w] = <<"load", at[w][2] + 1>>] /\ n0' = n0 /\ n2' = n2
  BY DEF AddNeighbour
<1>2. busy[w] # NoItem
  BY <1>1, AtPoint
<1>3. at[w][2] \in Nat /\ at[w][2] > 0
  BY <1>1 DEF NormalInv, NormalsTypeOK, StepInv
<1>4. Latest(n0) /\ (\A n \in Parts(n1) : Latest(n)) /\ Latest(n2) /\ n1 \in Mixtures
  BY <1>1 DEF NormalInv, NormalsTypeOK, VectorInv, NeedSum
<1>5. PICK j \in Nat : j = at[w][2] + 1
  BY <1>3
<1>6. n0' = Normal(busy[w]) /\ at[w][2] <= Len(Found(w)) /\ n2 = Normal(Found(w)[at[w][2]])
      /\ n1 = [own |-> {}, sum |-> Loaded(w, at[w][2] - 1)]
  BY <1>1 DEF AloneInv
<1>7. 1 .. at[w][2] = (1 .. at[w][2] - 1) \cup {at[w][2]} /\ j - 1 = at[w][2]
  BY <1>3, <1>5
<1>8. n1' = [own |-> {}, sum |-> Loaded(w, j - 1)]
  <2>1. Loaded(w, at[w][2]) = Loaded(w, at[w][2] - 1) \cup {n2}
    BY <1>6, <1>7 DEF Loaded
  <2> QED BY <1>1, <1>6, <1>7, <2>1
<1>9. j <= Len(Found(w)) + 1
  <2>1. Len(Found(w)) \in Nat
    BY <1>1, AtPoint
  <2> QED BY <1>3, <1>5, <1>6, <2>1
<1>10. n1' \in Mixtures /\ \A n \in Parts(n1') : Latest(n)
  <2>1. n2 \in Normals
    BY <1>4 DEF Latest
  <2>2. n1' \in Mixtures /\ Parts(n1') = Parts(n1) \cup {n2}
    BY <1>1, <1>4, <2>1, JoinedMixture
  <2> QED BY <1>4, <2>2
<1>11. Within(w, "load", j)
  <2>1. UNCHANGED <<threads, neighbours, version, madeOf, iteration, todo, busy, n0, n2>>
    BY DEF AddNeighbour
  <2>2. Latest(n0') /\ Latest(n2') /\ n0 \in Normals \cup {<<>>} /\ n2 \in Normals \cup {<<>>}
    BY <1>4, <2>1 DEF NormalInv, NormalsTypeOK, Latest
  <2>3. j > 0 /\ at' = [at EXCEPT ![w] = <<"load", j>>]
    BY <1>1, <1>3, <1>5
  <2> QED BY <1>2, <1>10, <2>1, <2>2, <2>3 DEF Within, Steps
<1> QED BY <1>6, <1>8, <1>9, <1>11, AloneInBody

(* weighs the sum of all of them against its point's normal, *)
LEMMA AloneWeighNormal == ASSUME NormalInv, NEW w \in Workers, AloneInv(w), WeighNormal(w) PROVE AloneInv(w)'
<1>1. /\ at[w][1] = "load" /\ at[w][2] > Len(Found(w)) /\ n1' = [n1 EXCEPT !.own = @ \cup {n0}]
      /\ at' = [at EXCEPT ![w] = <<"store", 0>>] /\ n0' = n0 /\ n2' = n2
  BY DEF WeighNormal
<1>2. busy[w] # NoItem /\ Found(w) \in Seq(Items)
  BY <1>1, AtPoint
<1>3. Latest(n0) /\ (\A n \in Parts(n1) : Latest(n)) /\ n1 \in Mixtures
  BY <1>1 DEF NormalInv, NormalsTypeOK, VectorInv, NeedSum
<1>4. at[w][2] - 1 = Len(Found(w))
  <2>1. at[w][2] <= Len(Found(w)) + 1
    BY <1>1 DEF AloneInv
  <2>2. at[w][2] \in Nat /\ Len(Found(w)) \in Nat
    BY <1>2 DEF NormalInv, NormalsTypeOK
  <2> QED BY <1>1, <2>1, <2>2
<1>5. n0' = Normal(busy[w]) /\ n1 = [own |-> {}, sum |-> Loaded(w, Len(Found(w)))]
  BY <1>1, <1>4 DEF AloneInv
<1>6. n1' = [own |-> {Normal(busy[w])}, sum |-> Loaded(w, Len(Found(w)))]
  BY <1>1, <1>5
<1>7. n1' \in Mixtures /\ \A n \in Parts(n1') : Latest(n)
  <2>1. n0 \in Normals
    BY <1>3 DEF Latest
  <2>2. n1' \in Mixtures /\ Parts(n1') = Parts(n1) \cup {n0}
    BY <1>1, <1>3, <2>1, JoinedMixture
  <2> QED BY <1>3, <2>2
<1>8. Within(w, "store", 0)
  BY <1>1, <1>2, <1>3, <1>7 DEF WeighNormal, Within, NormalInv, NormalsTypeOK, VectorInv, Latest, Steps
<1> QED BY <1>5, <1>6, <1>8, AloneInBody

(* takes the first point that is left, *)
LEMMA AloneTakePoint ==
  ASSUME NormalInv, NEW w \in Workers, threads = {w}, AloneInv(w), TakeNextPoint(w) PROVE AloneInv(w)'
<1>1. PICK i \in todo : InOrder(i) /\ Take(w, i)
  BY DEF TakeNextPoint
<1>2. UNCHANGED <<threads, neighbours, version, madeOf, n0, n1, n2, at, iteration>>
  BY DEF TakeNextPoint, work
<1>3. NormalsTypeOK /\ Exclusive
  BY DEF NormalInv, StepInv
<1>4. /\ busy'[w] = i /\ i \in Items
      /\ \A v \in Workers : v # w => busy'[v] = busy[v]
  BY <1>1, <1>3, PointTaken
<1>5. todo' = todo \ {i} /\ todo \subseteq Items /\ busy[w] = NoItem
  BY <1>1, <1>3 DEF Take, NormalsTypeOK, LoopTypeOK
<1>6. \A k \in todo : i <= k
  BY <1>1, FS_Singleton DEF InOrder
<1>7. \A k \in todo' : i < k
  BY <1>4, <1>5, <1>6, NormalsAssumption
<1>8. \A l \in Items \ todo', k \in todo' : l < k
  BY <1>5, <1>7 DEF AloneInv
<1>9. \A l \in Items \ todo' : l <= i
  BY <1>1, <1>4, <1>5, NormalsAssumption DEF AloneInv
<1>10. at'[w] = <<"own", 0>>
  BY <1>2, <1>5 DEF NormalInv, StepInv
<1>11. \A l \in Items : InTurn(l)' = InTurn(l)
  BY <1>2 DEF InTurn, Neighbours
<1> QED BY <1>2, <1>4, <1>8, <1>9, <1>10, <1>11 DEF AloneInv

(* and stores a normal that is made of all of its neighbours *)
LEMMA AloneStoreNormal ==
  ASSUME NormalInv, NEW w \in Workers, AloneInv(w), StoreNormal(w) PROVE AloneInv(w)'
<1>1. at[w][1] = "store"
  BY DEF StoreNormal
<1> PICK b \in Items : b = busy[w]
  BY <1>1, AtPoint
<1>2. b \in Items /\ b # NoItem /\ iteration \in Nat /\ Found(w) \in Seq(Items)
  BY <1>1, AtPoint
<1>3. NormalsTypeOK /\ Exclusive
  BY DEF NormalInv, StepInv
<1>4. /\ UNCHANGED <<threads, neighbours, n0, n1, n2, iteration>> /\ Release(w)
      /\ version' = [version EXCEPT ![b] = @ + 1]
      /\ madeOf' = [madeOf EXCEPT ![b] = n1]
      /\ at' = [at EXCEPT ![w] = <<"own", 0>>]
  BY DEF StoreNormal
<1>5. /\ busy'[w] = NoItem /\ todo' = todo
      /\ \A v \in Workers : v # w => busy'[v] = busy[v]
  BY <1>2, <1>3, <1>4, PointLeft DEF Release
<1>6. \A k \in Items : version[k] = IF k < b THEN iteration + 1 ELSE iteration
  BY <1>2, InFront
<1>7. version \in [Items -> 0 .. Iterations] /\ b \in Nat /\ Items \subseteq Nat
  BY <1>2, <1>3, NormalsAssumption DEF NormalsTypeOK
<1>8. version[b] = iteration
  BY <1>2, <1>6, <1>7
<1>9. version'[b] = iteration + 1 /\ \A k \in Items : k # b => version'[k] = version[k]
  BY <1>2, <1>4, <1>7, <1>8
<1>10. Normal(b) = <<b, iteration>>
  BY <1>8 DEF Normal
<1>12. n1 = [own |-> {<<b, iteration>>}, sum |-> {Normal(Found(w)[j]) : j \in 1 .. Len(Found(w))}]
  BY <1>1, <1>10 DEF AloneInv, Loaded
<1>13. Neighbours(b) = {Found(w)[j] : j \in 1 .. Len(Found(w))} /\ Neighbours(b) \subseteq Items
  BY <1>2 DEF Neighbours, ToSet, Found
<1>14. \A k \in Neighbours(b) : Normal(k) = <<k, IF k < b THEN iteration + 1 ELSE iteration>>
  BY <1>6, <1>13 DEF Normal
<1>15. n1.sum = {Normal(k) : k \in Neighbours(b)}
  BY <1>12, <1>13
<1>16. n1.sum = {<<k, IF k < b THEN iteration + 1 ELSE iteration>> : k \in Neighbours(b)}
  BY <1>14, <1>15
<1>17. neighbours' = neighbours /\ \A k : Neighbours(k)' = Neighbours(k)
  BY <1>4 DEF Neighbours
<1>18. InTurn(b)' = {<<k, IF k < b THEN iteration + 1 ELSE iteration>> : k \in Neighbours(b)}
  <2>1. version'[b] - 1 = iteration
    BY <1>2, <1>9
  <2> QED BY <1>9, <1>17, <2>1 DEF InTurn
<1>19. madeOf'[b] = n1 /\ \A k \in Items : k # b => madeOf'[k] = madeOf[k]
  BY <1>2, <1>3, <1>4 DEF NormalsTypeOK
<1>20. madeOf'[b] = [own |-> {<<b, version'[b] - 1>>}, sum |-> InTurn(b)']
  <2>1. n1 = [own |-> {<<b, iteration>>}, sum |-> n1.sum]
    BY <1>12
  <2>2. version'[b] - 1 = iteration
    BY <1>2, <1>9
  <2> QED BY <1>16, <1>18, <1>19, <2>1, <2>2
<1>21. \A k \in Items : k # b => InTurn(k)' = InTurn(k)
  BY <1>9, <1>17 DEF InTurn
<1>22. \A i \in Items : version'[i] > 0 => madeOf'[i] = [own |-> {<<i, version'[i] - 1>>}, sum |-> InTurn(i)']
  BY <1>9, <1>19, <1>20, <1>21 DEF AloneInv
<1>23. at'[w][1] = "own"
  BY <1>3, <1>4 DEF NormalsTypeOK
<1> QED BY <1>5, <1>22, <1>23 DEF AloneInv

(* the next iteration begins as the first one did *)
LEMMA AloneEndIteration ==
  ASSUME NormalInv, NEW w \in Workers, AloneInv(w), EndIteration PROVE AloneInv(w)'
<1>1. /\ busy = Idle /\ todo' = Items /\ busy' = Idle
      /\ UNCHANGED <<neighbours, version, madeOf, at>>
  BY DEF EndIteration, LoopEnded, StartLoop, work
<1>2. \A v \in Workers : busy[v] = NoItem /\ busy'[v] = NoItem
  BY <1>1 DEF Idle
<1>3. at'[w] = <<"own", 0>>
  BY <1>1, <1>2 DEF NormalInv, StepInv
<1>4. \A i \in Items : InTurn(i)' = InTurn(i)
  BY <1>1 DEF InTurn, Neighbours
<1> QED BY <1>1, <1>2, <1>3, <1>4 DEF AloneInv

(* so that the order is kept as long as nobody else works *)
LEMMA OrderNext == NormalInv /\ OrderInv /\ [NormalsNext]_normalsVars => OrderInv'
<1> SUFFICES ASSUME NormalInv, OrderInv, [NormalsNext]_normalsVars, NEW w \in Workers, threads' = {w}
             PROVE  AloneInv(w)'
  BY DEF OrderInv
<1>1. threads' = threads
  BY DEF NormalsNext, TakeNextPoint, LoadOwn, ResetSum, LoadNeighbour, AddNeighbour,
         WeighNormal, StoreNormal, EndIteration, normalsVars
<1>2. AloneInv(w)
  BY <1>1 DEF OrderInv
<1>3. CASE UNCHANGED normalsVars
  <2>1. UNCHANGED <<threads, neighbours, version, madeOf, n0, n1, n2, at, iteration, todo, busy>>
    BY <1>3 DEF normalsVars, work
  <2> QED BY <1>2, <2>1 DEF AloneInv, InTurn, Neighbours, Loaded, Found, Normal
<1>4. CASE \E v \in threads : \/ TakeNextPoint(v) \/ LoadOwn(v) \/ ResetSum(v)
                              \/ LoadNeighbour(v) \/ AddNeighbour(v)
                              \/ WeighNormal(v) \/ StoreNormal(v)
  <2>1. threads = {w}
    BY <1>1
  <2>2. \/ TakeNextPoint(w) \/ LoadOwn(w) \/ ResetSum(w)
        \/ LoadNeighbour(w) \/ AddNeighbour(w) \/ WeighNormal(w) \/ StoreNormal(w)
    BY <1>4, <2>1
  <2> QED BY <1>2, <2>1, <2>2, AloneTakePoint, AloneLoadOwn, AloneResetSum, AloneLoadNeighbour,
             AloneAddNeighbour, AloneWeighNormal, AloneStoreNormal
<1>5. CASE EndIteration
  BY <1>2, <1>5, AloneEndIteration
<1> QED BY <1>3, <1>4, <1>5 DEF NormalsNext

(* With one worker smoothNormals makes every normal of the one it replaces and
   its neighbours' latest ones: those of the points in front from the same
   iteration, those of the points behind from the one before. *)
THEOREM NormalsAreSmoothedInOrder == NormalsSpec => []SmoothedInOrder
<1>1. NormalInv /\ OrderInv => SmoothedInOrder
  <2> SUFFICES ASSUME NormalInv, OrderInv, Cardinality(threads) = 1, NEW i \in Items, version[i] > 0
               PROVE  madeOf[i] = [own |-> {<<i, version[i] - 1>>}, sum |-> InTurn(i)]
    BY DEF SmoothedInOrder, InTurn
  <2>1. threads \in SUBSET Workers
    BY DEF NormalInv, NormalsTypeOK
  <2>2. IsFiniteSet(threads)
    BY <2>1, NormalsAssumption, FS_Subset
  <2>3. PICK w : threads = {w}
    BY <2>2, FS_Singleton
  <2>4. AloneInv(w)
    BY <2>1, <2>3 DEF OrderInv
  <2> QED BY <2>4 DEF AloneInv
<1> QED BY <1>1, InitNormalInv, NextNormalInv, OrderInit, OrderNext, PTL DEF NormalsSpec

(* The shared vectors hold normals, and every worker is at a step of its
   neighbour loop (smoothNormals, for any cloud and any number of workers). *)
THEOREM NormalTypes == NormalsSpec => []NormalsTypeOK
<1>1. NormalInv => NormalsTypeOK
  BY DEF NormalInv
<1> QED BY <1>1, InitNormalInv, NextNormalInv, PTL DEF NormalsSpec

================================================================================
