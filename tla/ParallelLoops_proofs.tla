-------------------------- MODULE ParallelLoops_proofs --------------------------
(***************************************************************************)
(* Three components that are made of parallel loops.  First the group      *)
(* loader: what a load leaves behind, for groups of any length, any number *)
(* of workers and any set of missing files.  Then the refinement of the    *)
(* segmentation: it implements simultaneous rounds, for any cloud, any     *)
(* number of workers and of iterations.  Last the parameters that a group  *)
(* changes after a parallel loop has summed up distances.                  *)
(***************************************************************************)
EXTENDS FrameLoader, SegmentationRefinement, GroupParameters, InductionLemmas, FiniteSetTheorems, TLAPS

(* the vector ends at a missing frame as soon as one has been dealt with *)
SizeInv == size \in missing \/ (size = FrameCount /\ \A m \in missing : ~Processed(m))

(* a frame in front of every gap is kept once it has been read *)
BeforeGaps(k) == \A m \in missing : m > k

LoadedInv == \A k \in Items : BeforeGaps(k) /\ Processed(k) => element[k] = "loaded"

(* with the last file missing, its element is there until its own task ends *)
LastInv == missing \subseteq {FrameCount - 1} =>
             /\ fault = "none"
             /\ size = FrameCount \/ (size = FrameCount - 1 /\ Processed(FrameCount - 1))

ReturnedInv == returned => LoopEnded

IInv == TypeOK /\ Exclusive /\ SizeInv /\ LoadedInv /\ LastInv /\ ReturnedInv

-----------------------------------------------------------------------------
(* no step of a worker gives two workers the same item *)
LEMMA ExclusiveSteps ==
  ASSUME LoopTypeOK, Exclusive
  PROVE  /\ \A w \in Workers, i \in todo : Take(w, i) => Exclusive'
         /\ \A w \in Workers : Release(w) => Exclusive'
<1>1. ASSUME NEW w \in Workers, NEW i \in todo, Take(w, i)
      PROVE  Exclusive'
  <2>1. \A v \in Workers : busy'[v] = IF v = w THEN i ELSE busy[v]
    BY <1>1 DEF Take, LoopTypeOK
  <2> QED
    BY <1>1, <2>1 DEF Exclusive, Take
<1>2. ASSUME NEW w \in Workers, Release(w)
      PROVE  Exclusive'
  <2>1. \A v \in Workers : busy'[v] = IF v = w THEN NoItem ELSE busy[v]
    BY <1>2 DEF Release, LoopTypeOK
  <2> QED
    BY <1>2, <2>1, ItemsAssumption DEF Exclusive, Release, LoopTypeOK
<1> QED
  BY <1>1, <1>2

(* What is processed stays so, until the loop is entered again. *)
LEMMA ProcessedStays ==
  ASSUME LoopTypeOK, NEW i \in Items, Processed(i)
  PROVE  /\ \A w \in Workers, k \in todo : Take(w, k) => Processed(i)'
         /\ \A w \in Workers : Release(w) => Processed(i)'
<1>1. ASSUME NEW w \in Workers, NEW k \in todo, Take(w, k)
      PROVE  Processed(i)'
  <2>1. k # i
    BY DEF Processed
  <2>2. \A v \in Workers : busy'[v] = IF v = w THEN k ELSE busy[v]
    BY <1>1 DEF Take, LoopTypeOK
  <2> QED
    BY <1>1, <2>1, <2>2 DEF Processed, Take
<1>2. ASSUME NEW w \in Workers, Release(w)
      PROVE  Processed(i)'
  <2>1. \A v \in Workers : busy'[v] = IF v = w THEN NoItem ELSE busy[v]
    BY <1>2 DEF Release, LoopTypeOK
  <2> QED
    BY <1>2, <2>1, ItemsAssumption DEF Processed, Release
<1> QED
  BY <1>1, <1>2

-----------------------------------------------------------------------------
(* a load begins with a vector of the group's length and nothing loaded *)
LEMMA InitInv == Init => IInv
<1> SUFFICES ASSUME Init PROVE IInv
  OBVIOUS
<1>1. LoopTypeOK
  BY DEF Init, LoopTypeOK, Idle
<1>2. TypeOK
  <2>1. size \in 0 .. FrameCount
    BY FrameAssumption DEF Init
  <2>2. element \in [Items -> {"empty", "loaded", "destroyed"}]
    BY DEF Init
  <2>3. missing \subseteq Items /\ resizing \subseteq {w \in Workers : busy[w] \in missing}
    BY DEF Init
  <2>4. fault \in {"none", "index", "destroyed", "overlap"} /\ returned \in BOOLEAN
    BY DEF Init
  <2> QED
    BY <1>1, <2>1, <2>2, <2>3, <2>4 DEF TypeOK
<1>3. Exclusive
  BY ItemsAssumption DEF Init, Exclusive, Idle
<1>4. \A i \in Items : ~Processed(i)
  BY DEF Init, Processed
<1>5. SizeInv /\ LoadedInv /\ LastInv /\ ReturnedInv
  BY <1>4 DEF Init, SizeInv, LoadedInv, LastInv, ReturnedInv
<1> QED
  BY <1>2, <1>3, <1>5 DEF IInv

(* one step of a worker, or the end of the loop, keeps the invariant *)
LEMMA NextInv == IInv /\ [Next]_vars => IInv'
<1> SUFFICES ASSUME IInv, [Next]_vars PROVE IInv'
  OBVIOUS
<1> USE DEF IInv
<1>a. FrameCount \in Nat /\ FrameCount > 0 /\ FrameCount - 1 \in Items
  BY FrameAssumption
<1>b. LoopTypeOK
  BY DEF TypeOK
<1>1. ASSUME NEW w \in Workers, TakeFrame(w)
      PROVE  IInv'
  <2> PICK i \in todo : Take(w, i) /\ (IF i < size THEN element' = [element EXCEPT ![i] = "empty"] /\ UNCHANGED fault
                                        ELSE fault' = "index" /\ UNCHANGED element)
    BY <1>1 DEF TakeFrame
  <2>1. UNCHANGED <<missing, size, resizing, returned>> /\ fault = "none"
    BY <1>1 DEF TakeFrame
  <2>2. i \in Items
    BY <1>b DEF LoopTypeOK
  <2>3. LoopTypeOK' /\ Exclusive'
    BY <1>b, ExclusiveSteps DEF LoopTypeOK, Take
  <2>4. \A k \in Items : Processed(k)' => Processed(k) /\ k # i
    BY <1>b, ItemsAssumption DEF Processed, Take, LoopTypeOK
  <2>5. TypeOK'
    <3>1. \A v \in resizing : busy[v] \in missing /\ busy'[v] = busy[v]
      BY ItemsAssumption DEF TypeOK, Take, LoopTypeOK
    <3>2. resizing' \subseteq {v \in Workers : busy'[v] \in missing'}
      BY <2>1, <3>1 DEF TypeOK
    <3> QED
      BY <2>1, <2>2, <2>3, <3>2 DEF TypeOK
  <2>6. SizeInv'
    BY <2>1, <2>4 DEF SizeInv, TypeOK
  <2>7. LoadedInv'
    <3> SUFFICES ASSUME NEW k \in Items, BeforeGaps(k)', Processed(k)'
                 PROVE  element'[k] = "loaded"
      BY DEF LoadedInv
    <3>1. element[k] = "loaded" /\ k # i
      BY <2>1, <2>4 DEF LoadedInv, BeforeGaps
    <3> QED
      BY <3>1 DEF TypeOK
  <2>8. LastInv'
    <3> SUFFICES ASSUME missing \subseteq {FrameCount - 1}
                 PROVE  /\ fault' = "none"
                        /\ size = FrameCount \/ (size = FrameCount - 1 /\ Processed(FrameCount - 1)')
      BY <2>1 DEF LastInv
    <3>1. Processed(FrameCount - 1) => i # FrameCount - 1 /\ Processed(FrameCount - 1)'
      BY <1>a, <1>b, ProcessedStays DEF Processed
    <3>2. i < size
      BY <1>a, <2>2, <3>1, FrameAssumption DEF LastInv
    <3> QED
      BY <2>1, <3>1, <3>2 DEF LastInv
  <2>9. ReturnedInv'
    BY <2>1 DEF ReturnedInv, LoopEnded
  <2> QED
    BY <2>3, <2>5, <2>6, <2>7, <2>8, <2>9
<1>2. ASSUME NEW w \in Workers, ReadFrame(w)
      PROVE  IInv'
  <2> DEFINE i == busy[w]
  <2>1. i \in Items /\ i \notin missing /\ i # NoItem /\ Release(w)
    BY <1>2, ItemsAssumption DEF ReadFrame
  <2>2. UNCHANGED <<missing, size, resizing, fault, returned>> /\ element' = [element EXCEPT ![i] = "loaded"]
    BY <1>2 DEF ReadFrame
  <2>3. LoopTypeOK' /\ Exclusive'
    BY <1>b, <2>1, ExclusiveSteps DEF LoopTypeOK, Release
  <2>4. \A k \in Items : Processed(k)' => k = i \/ Processed(k)
    BY <2>1 DEF Release, Processed
  <2>5. TypeOK'
    <3>1. \A v \in resizing : busy[v] \in missing /\ busy'[v] = busy[v]
      BY <2>1 DEF TypeOK, Release, LoopTypeOK
    <3>2. resizing' \subseteq {v \in Workers : busy'[v] \in missing'}
      BY <2>2, <3>1 DEF TypeOK
    <3> QED
      BY <2>1, <2>2, <2>3, <3>2 DEF TypeOK
  <2>6. SizeInv'
    BY <2>1, <2>2, <2>4 DEF SizeInv, TypeOK
  <2>7. LoadedInv'
    BY <2>1, <2>2, <2>4 DEF LoadedInv, BeforeGaps, TypeOK
  <2>8. LastInv'
    BY <1>a, <1>b, <2>1, <2>2, ProcessedStays DEF LastInv
  <2>9. ReturnedInv'
    BY <2>1, <2>2 DEF ReturnedInv, LoopEnded, Idle
  <2> QED
    BY <2>3, <2>5, <2>6, <2>7, <2>8, <2>9
<1>3. ASSUME NEW w \in Workers, BeginResize(w)
      PROVE  IInv'
  <2>1. /\ UNCHANGED <<missing, size, element, returned, todo, busy>>
        /\ busy[w] \in missing /\ w \notin resizing /\ resizing' = resizing \cup {w}
        /\ fault' = IF resizing = {} THEN "none" ELSE "overlap"
    BY <1>3 DEF BeginResize
  <2>2. TypeOK'
    BY <2>1 DEF TypeOK, LoopTypeOK
  <2>3. Exclusive' /\ ReturnedInv'
    BY <2>1 DEF Exclusive, ReturnedInv, LoopEnded
  <2>4. SizeInv' /\ LoadedInv'
    BY <2>1 DEF SizeInv, LoadedInv, BeforeGaps, Processed
  <2>5. missing \subseteq {FrameCount - 1} => resizing = {}
    <3> SUFFICES ASSUME missing \subseteq {FrameCount - 1}, NEW v \in resizing
                 PROVE  FALSE
      OBVIOUS
    <3>1. v \in Workers /\ busy[v] = FrameCount - 1 /\ busy[w] = FrameCount - 1
      BY <2>1 DEF TypeOK
    <3>2. FrameCount - 1 # NoItem
      BY <1>a, ItemsAssumption
    <3>3. v = w
      BY <3>1, <3>2 DEF Exclusive
    <3> QED
      BY <2>1, <3>3
  <2>6. LastInv'
    BY <2>1, <2>5 DEF LastInv, Processed
  <2> QED
    BY <2>2, <2>3, <2>4, <2>6
<1>4. ASSUME NEW w \in Workers, EndResize(w)
      PROVE  IInv'
  <2> DEFINE n == busy[w]
  <2>1. /\ UNCHANGED <<missing, returned>>
        /\ w \in resizing /\ resizing' = resizing \ {w} /\ Release(w)
        /\ size' = n /\ element' = Resized(n)
        /\ fault' = IF CutsReader(n) THEN "destroyed" ELSE "none"
    BY <1>4 DEF EndResize, NewSize
  <2>2. n \in missing /\ n \in Items /\ n # NoItem
    BY <2>1, ItemsAssumption DEF TypeOK
  <2>3. LoopTypeOK' /\ Exclusive'
    BY <1>b, <2>1, ExclusiveSteps DEF LoopTypeOK, Release
  <2>4. \A k \in Items : Processed(k)' => k = n \/ Processed(k)
    BY <2>1 DEF Release, Processed
  <2>5. TypeOK'
    <3>1. \A v \in resizing' : busy[v] \in missing /\ busy'[v] = busy[v] /\ v \in Workers
      BY <2>1 DEF TypeOK, Release, LoopTypeOK
    <3>2. resizing' \subseteq {v \in Workers : busy'[v] \in missing'}
      BY <2>1, <3>1
    <3>3. n \in 0 .. FrameCount
      BY <1>a, <2>2, FrameAssumption
    <3>4. element' \in [Items -> {"empty", "loaded", "destroyed"}]
      BY <2>1 DEF Resized, TypeOK
    <3>5. missing' \subseteq Items /\ fault' \in {"none", "index", "destroyed", "overlap"}
      BY <2>1 DEF TypeOK
    <3> QED
      BY <2>1, <2>3, <3>2, <3>3, <3>4, <3>5 DEF TypeOK
  <2>6. SizeInv'
    BY <2>1, <2>2 DEF SizeInv
  <2>7. LoadedInv'
    <3> SUFFICES ASSUME NEW k \in Items, BeforeGaps(k)', Processed(k)'
                 PROVE  element'[k] = "loaded"
      BY DEF LoadedInv
    <3>1. k < n /\ BeforeGaps(k)
      BY <1>a, <2>1, <2>2, FrameAssumption DEF BeforeGaps
    <3>2. element[k] = "loaded"
      BY <1>a, <2>2, <2>4, <3>1, FrameAssumption DEF LoadedInv
    <3>3. k < size
      <4>1. size \in missing \/ size = FrameCount
        BY DEF SizeInv
      <4> QED
        BY <1>a, <3>1, <4>1, FrameAssumption DEF BeforeGaps
    <3> QED
      BY <1>a, <2>1, <2>2, <3>1, <3>2, <3>3, FrameAssumption DEF Resized, TypeOK
  <2>8. LastInv'
    <3> SUFFICES ASSUME missing \subseteq {FrameCount - 1}
                 PROVE  fault' = "none" /\ size' = FrameCount - 1 /\ Processed(FrameCount - 1)'
      BY <2>1 DEF LastInv
    <3>1. n = FrameCount - 1
      BY <2>2
    <3>2. ~CutsReader(n)
      <4> SUFFICES ASSUME NEW v \in Workers, busy[v] \in Items \ missing, busy[v] >= n
                   PROVE  FALSE
        BY DEF CutsReader
      <4>1. busy[v] = FrameCount - 1
        BY <1>a, <3>1, FrameAssumption
      <4> QED
        BY <2>2, <3>1, <4>1
    <3>3. Processed(FrameCount - 1)'
      <4>1. n \notin todo
        BY <2>1 DEF TypeOK, Exclusive
      <4>2. ASSUME NEW v \in Workers
            PROVE  busy'[v] # n
        <5>1. CASE v = w
          BY <2>1, <2>2, <5>1 DEF Release, LoopTypeOK, TypeOK
        <5>2. CASE v # w
          <6>1. busy'[v] = busy[v] /\ w \in Workers
            BY <2>1, <5>2 DEF Release, LoopTypeOK, TypeOK
          <6> QED
            BY <2>2, <5>2, <6>1 DEF Exclusive
        <5> QED
          BY <5>1, <5>2
      <4> QED
        BY <2>1, <3>1, <4>1, <4>2 DEF Processed, Release
    <3> QED
      BY <2>1, <3>1, <3>2, <3>3
  <2>9. ReturnedInv'
    BY <2>1, <2>2 DEF ReturnedInv, LoopEnded, Idle, TypeOK
  <2> QED
    BY <2>3, <2>5, <2>6, <2>7, <2>8, <2>9
<1>5. CASE Return
  <2>1. UNCHANGED <<missing, size, element, resizing, fault, todo, busy>> /\ returned' = TRUE /\ LoopEnded
    BY <1>5 DEF Return
  <2>2. TypeOK' /\ Exclusive'
    BY <2>1 DEF TypeOK, LoopTypeOK, Exclusive
  <2>3. SizeInv' /\ LoadedInv' /\ LastInv'
    BY <2>1 DEF SizeInv, LoadedInv, BeforeGaps, LastInv, Processed
  <2>4. ReturnedInv'
    BY <2>1 DEF ReturnedInv, LoopEnded, Idle
  <2> QED
    BY <2>2, <2>3, <2>4
<1>6. CASE UNCHANGED vars
  <2>1. UNCHANGED <<missing, size, element, resizing, fault, returned, todo, busy>>
    BY <1>6 DEF vars
  <2>2. TypeOK' /\ Exclusive'
    BY <2>1 DEF TypeOK, LoopTypeOK, Exclusive
  <2>3. SizeInv' /\ LoadedInv' /\ LastInv' /\ ReturnedInv'
    BY <2>1 DEF SizeInv, LoadedInv, BeforeGaps, LastInv, Processed, ReturnedInv, LoopEnded, Idle
  <2> QED
    BY <2>2, <2>3
<1> QED
  BY <1>1, <1>2, <1>3, <1>4, <1>5, <1>6 DEF Next

(* The vector, its elements and the workers keep their types, whatever files are
   missing (PCCGroupOfFrames::load). *)
THEOREM LoaderTypes == Spec => []TypeOK
<1>1. IInv => TypeOK
  BY DEF IInv
<1> QED
  BY <1>1, InitInv, NextInv, PTL DEF Spec

-----------------------------------------------------------------------------
(* A group of which at most the last file is missing is loaded without a fault,
   in whatever order and by however many workers (PCCGroupOfFrames::load). *)
THEOREM LastMissingIsSafe == Spec => []LastMayBeMissing
<1>1. IInv => LastMayBeMissing
  BY DEF IInv, LastInv, LastMayBeMissing
<1> QED
  BY <1>1, InitInv, NextInv, PTL DEF Spec

(* The length the encoder goes on with is the group's or the number of one of
   the missing frames (PCCGroupOfFrames::load, its caller compressVideo). *)
THEOREM CountIsThatOfMissing == Spec => []CountIsOfMissing
<1>1. IInv => CountIsOfMissing
  <2> SUFFICES ASSUME IInv, returned
               PROVE  size \in IF missing = {} THEN {FrameCount} ELSE missing
    BY DEF CountIsOfMissing
  <2>1. \A m \in missing : Processed(m)
    BY ItemsAssumption DEF IInv, ReturnedInv, TypeOK, LoopEnded, Idle, Processed
  <2> QED
    BY <2>1 DEF IInv, SizeInv
<1> QED
  BY <1>1, InitInv, NextInv, PTL DEF Spec

(* Every frame in front of the first gap has been read from its file. *)
THEOREM FramesBeforeGapAreLoaded == Spec => []LoadedUpToGap
<1>1. IInv => LoadedUpToGap
  <2> SUFFICES ASSUME IInv, returned, NEW k \in 0 .. size - 1, \A m \in missing : ~(m <= k)
               PROVE  element[k] = "loaded"
    BY DEF LoadedUpToGap
  <2>1. k \in Items
    BY FrameAssumption DEF IInv, TypeOK
  <2>2. BeforeGaps(k)
    BY <2>1, FrameAssumption DEF BeforeGaps, IInv, TypeOK
  <2> QED
    BY <2>1, <2>2, ItemsAssumption DEF IInv, LoadedInv, ReturnedInv, LoopEnded, Idle, Processed
<1> QED
  BY <1>1, InitInv, NextInv, PTL DEF Spec
-----------------------------------------------------------------------------
(***************************************************************************)
(* The refinement of the segmentation.  Nothing of the loader is used here:*)
(* its assumption that items are numbers, in particular, is not.           *)
(***************************************************************************)
(* where the loops are in the work of an iteration *)
Progress == loop # "done" <=> iteration < Iterations

RefinementInv == RefinementTypeOK /\ Progress /\ LoopsComplete

-----------------------------------------------------------------------------
(* The counts of a point are those of at most all points. *)
LEMMA ScoreType ==
  ASSUME NEW i \in Items, NEW labels \in [Items -> Labels]
  PROVE  ScoreOf(i, labels) \in Counts
<1> SUFFICES ASSUME NEW j \in Labels
             PROVE  Cardinality({n \in Adjacent[i] : labels[n] = j}) \in 0 .. Cardinality(Items)
  BY DEF ScoreOf, Counts
<1> DEFINE S == {n \in Adjacent[i] : labels[n] = j}
<1>1. S \subseteq Items
  BY RefinementAssumption
<1>2. IsFiniteSet(Items)
  BY ItemsAssumption
<1>3. IsFiniteSet(S) /\ Cardinality(S) <= Cardinality(Items)
  BY <1>1, <1>2, FS_Subset
<1>4. Cardinality(S) \in Nat /\ Cardinality(Items) \in Nat
  BY <1>2, <1>3, FS_CardinalityType
<1> QED
  BY <1>3, <1>4

(* a label chosen by the scores is one of the labels *)
LEMMA LabelType ==
  ASSUME NEW i \in Items, NEW labels \in [Items -> Labels]
  PROVE  NewLabel(i, labels) \in Labels
BY ScoreType, RefinementAssumption DEF NewLabel

-----------------------------------------------------------------------------
(* refinement begins with an empty score and label loop *)
LEMMA RefinementInitInv == RefinementInit => RefinementInv
<1> SUFFICES ASSUME RefinementInit PROVE RefinementInv
  OBVIOUS
<1>1. RefinementTypeOK
  <2>1. LoopTypeOK
    BY DEF RefinementInit, Idle, LoopTypeOK
  <2>2. Cardinality(Items) \in Nat
    BY ItemsAssumption, FS_CardinalityType
  <2>3. scoresSmooth \in [Items -> Counts]
    BY <2>2 DEF RefinementInit, Counts
  <2> QED
    BY <2>1, <2>3, RefinementAssumption DEF RefinementInit, RefinementTypeOK, LoopAt
<1>2. Progress
  BY RefinementAssumption DEF RefinementInit, Progress, LoopAt
<1>3. LoopsComplete
  <2>1. loop # "label"
    BY DEF RefinementInit, LoopAt
  <2>2. \A i \in Items : ~Processed(i)
    BY DEF RefinementInit, Processed
  <2> QED
    BY <2>1, <2>2 DEF LoopsComplete
<1> QED
  BY <1>1, <1>2, <1>3 DEF RefinementInv

(* every step of the loops and the exchange keeps the invariant *)
LEMMA RefinementNextInv == RefinementInv /\ [RefinementNext]_refinementVars => RefinementInv'
<1> SUFFICES ASSUME RefinementInv, [RefinementNext]_refinementVars PROVE RefinementInv'
  OBVIOUS
<1> USE DEF RefinementInv
<1>1. ASSUME NEW w \in Workers, TakePoint(w)
      PROVE  RefinementInv'
  <2> PICK k \in todo : Take(w, k)
    BY <1>1 DEF TakePoint
  <2>1. LoopTypeOK /\ LoopTypeOK'
    BY DEF RefinementTypeOK, LoopTypeOK, Take
  <2>2. RefinementTypeOK'
    BY <1>1, <2>1 DEF RefinementTypeOK, TakePoint
  <2>3. Progress'
    BY <1>1 DEF Progress, TakePoint
  <2>4. \A i \in Items : Processed(i)' => Processed(i)
    BY <2>1, ItemsAssumption DEF Take, Processed, LoopTypeOK
  <2>5. LoopsComplete'
    <3>1. UNCHANGED <<loop, partition, tempPartition, scoresSmooth>>
      BY <1>1 DEF TakePoint
    <3> QED
      BY <2>4, <3>1 DEF LoopsComplete, ScoreOf, NewLabel
  <2> QED
    BY <2>2, <2>3, <2>5
<1>2. ASSUME NEW w \in Workers, ScorePoint(w)
      PROVE  RefinementInv'
  <2> DEFINE k == busy[w]
  <2>1. k \in Items /\ k # NoItem /\ Release(w)
    BY <1>2 DEF ScorePoint, RefinementTypeOK, LoopTypeOK
  <2>2. LoopTypeOK /\ LoopTypeOK'
    BY <2>1 DEF RefinementTypeOK, LoopTypeOK, Release
  <2>3. ScoreOf(k, partition) \in Counts
    BY <2>1, ScoreType DEF RefinementTypeOK
  <2>4. RefinementTypeOK'
    BY <1>2, <2>2, <2>3 DEF RefinementTypeOK, ScorePoint
  <2>5. Progress'
    BY <1>2 DEF Progress, ScorePoint
  <2>6. ASSUME NEW i \in Items, Processed(i)'
        PROVE  scoresSmooth'[i] = ScoreOf(i, partition)
    <3>1. CASE i = k
      BY <1>2, <2>1, <3>1 DEF ScorePoint, RefinementTypeOK
    <3>2. CASE i # k
      <4>1. Processed(i)
        BY <2>1, <2>6, <3>2 DEF Release, Processed
      <4>2. scoresSmooth'[i] = scoresSmooth[i]
        BY <1>2, <2>1, <3>2 DEF ScorePoint, RefinementTypeOK
      <4> QED
        BY <1>2, <4>1, <4>2 DEF LoopsComplete, ScorePoint
    <3> QED
      BY <3>1, <3>2
  <2>7. LoopsComplete'
    BY <1>2, <2>6 DEF LoopsComplete, ScorePoint, ScoreOf
  <2> QED
    BY <2>4, <2>5, <2>7
<1>3. ASSUME NEW w \in Workers, LabelPoint(w)
      PROVE  RefinementInv'
  <2> DEFINE k == busy[w]
  <2>1. k \in Items /\ k # NoItem /\ Release(w)
    BY <1>3 DEF LabelPoint, RefinementTypeOK, LoopTypeOK
  <2>2. LoopTypeOK /\ LoopTypeOK'
    BY <2>1 DEF RefinementTypeOK, LoopTypeOK, Release
  <2>3. scoresSmooth[k] = ScoreOf(k, partition)
    BY <1>3, <2>1 DEF LoopsComplete, LabelPoint
  <2>4. tempPartition' = [tempPartition EXCEPT ![k] = NewLabel(k, partition)]
    BY <1>3, <2>3 DEF LabelPoint, NewLabel
  <2>5. NewLabel(k, partition) \in Labels
    BY <2>1, LabelType DEF RefinementTypeOK
  <2>6. RefinementTypeOK'
    BY <1>3, <2>2, <2>4, <2>5 DEF RefinementTypeOK, LabelPoint
  <2>7. Progress'
    BY <1>3 DEF Progress, LabelPoint
  <2>8. ASSUME NEW i \in Items, Processed(i)'
        PROVE  tempPartition'[i] = NewLabel(i, partition)
    <3>1. CASE i = k
      BY <2>1, <2>4, <3>1 DEF RefinementTypeOK
    <3>2. CASE i # k
      <4>1. Processed(i)
        BY <2>1, <2>8, <3>2 DEF Release, Processed
      <4>2. tempPartition'[i] = tempPartition[i]
        BY <2>1, <2>4, <3>2 DEF RefinementTypeOK
      <4> QED
        BY <1>3, <4>1, <4>2 DEF LoopsComplete, LabelPoint
    <3> QED
      BY <3>1, <3>2
  <2>9. UNCHANGED <<loop, partition, scoresSmooth>> /\ loop = "label"
    BY <1>3 DEF LabelPoint
  <2>10. LoopsComplete'
    BY <2>8, <2>9 DEF LoopsComplete, ScoreOf, NewLabel
  <2> QED
    BY <2>6, <2>7, <2>10
<1>4. CASE EndScores
  <2>1. LoopTypeOK'
    BY <1>4 DEF EndScores, LoopTypeOK, StartLoop, Idle
  <2>2. RefinementTypeOK'
    BY <1>4, <2>1 DEF EndScores, RefinementTypeOK
  <2>3. Progress'
    BY <1>4 DEF Progress, EndScores
  <2>4. \A i \in Items : scoresSmooth[i] = ScoreOf(i, partition)
    BY <1>4, ItemsAssumption DEF EndScores, LoopsComplete, LoopEnded, Idle, Processed
  <2>5. \A i \in Items : ~Processed(i)'
    BY <1>4 DEF EndScores, StartLoop, Processed
  <2>6. loop' = "label" /\ UNCHANGED <<partition, scoresSmooth>>
    BY <1>4 DEF EndScores
  <2>7. LoopsComplete'
    BY <2>4, <2>5, <2>6 DEF LoopsComplete, ScoreOf
  <2> QED
    BY <2>2, <2>3, <2>7
<1>5. CASE SwapPartitions
  <2>1. LoopTypeOK'
    BY <1>5 DEF SwapPartitions, LoopTypeOK, StartLoop, Idle
  <2>2. iteration < Iterations /\ iteration \in Nat /\ Iterations \in Nat
    BY <1>5, RefinementAssumption DEF SwapPartitions, Progress, RefinementTypeOK
  <2>3. RefinementTypeOK'
    BY <1>5, <2>1, <2>2 DEF SwapPartitions, RefinementTypeOK, LoopAt
  <2>4. Progress'
    BY <1>5, <2>2 DEF SwapPartitions, Progress, LoopAt
  <2>5. \A i \in Items : ~Processed(i)'
    BY <1>5 DEF SwapPartitions, StartLoop, Processed
  <2>6. loop' # "label"
    BY <1>5 DEF SwapPartitions, LoopAt
  <2>7. LoopsComplete'
    BY <2>5, <2>6 DEF LoopsComplete
  <2> QED
    BY <2>3, <2>4, <2>7
<1>6. CASE UNCHANGED refinementVars
  <2>1. UNCHANGED <<loop, iteration, partition, tempPartition, scoresSmooth, todo, busy>>
    BY <1>6 DEF refinementVars
  <2>2. RefinementTypeOK'
    BY <2>1 DEF RefinementTypeOK, LoopTypeOK
  <2>3. Progress'
    BY <2>1 DEF Progress
  <2>4. LoopsComplete'
    BY <2>1 DEF LoopsComplete, ScoreOf, NewLabel, Processed
  <2> QED
    BY <2>2, <2>3, <2>4
<1> QED
  BY <1>1, <1>2, <1>3, <1>4, <1>5, <1>6 DEF RefinementNext

(* Labels stay labels and counts stay below the number of points, in both of the
   vectors the passes exchange (refineSegmentation). *)
THEOREM RefinementTypes == RefinementSpec => []RefinementTypeOK
<1>1. RefinementInv => RefinementTypeOK
  BY DEF RefinementInv
<1> QED
  BY <1>1, RefinementInitInv, RefinementNextInv, PTL DEF RefinementSpec

(* Results are never used before they are all there: a loop is entered with the
   complete results of the loop before it (refineSegmentation). *)
THEOREM LoopsAreComplete == RefinementSpec => []LoopsComplete
<1>1. RefinementInv => LoopsComplete
  BY DEF RefinementInv
<1> QED
  BY <1>1, RefinementInitInv, RefinementNextInv, PTL DEF RefinementSpec

-----------------------------------------------------------------------------
(* An exchange of the vectors is a simultaneous round. *)
LEMMA SwapIsRound == RefinementInv /\ SwapPartitions => Rounds!Round
<1> SUFFICES ASSUME RefinementInv, SwapPartitions PROVE Rounds!Round
  OBVIOUS
<1>1. iteration < Iterations
  BY DEF RefinementInv, Progress, SwapPartitions
<1>2. ASSUME NEW i \in Items
      PROVE  tempPartition[i] = NewLabel(i, partition)
  BY ItemsAssumption DEF RefinementInv, LoopsComplete, SwapPartitions, LoopEnded, Idle, Processed
<1>3. partition \in [Items -> Labels] /\ tempPartition \in [Items -> Labels]
  BY DEF RefinementInv, RefinementTypeOK
<1>4. partition' = [i \in Items |-> NewLabel(i, partition)]
  <2>1. partition' = [i \in Items |-> tempPartition[i]]
    BY <1>3 DEF SwapPartitions
  <2> QED
    BY <1>2, <2>1
<1>5. partition' = [i \in Items |->
        [j \in Items |-> [labels \in [Items -> Labels] |-> NewLabel(j, labels)]][i][partition]]
  BY <1>3, <1>4
<1>6. iteration' = iteration + 1
  BY DEF SwapPartitions
<1> QED
  BY <1>1, <1>5, <1>6 DEF Rounds!Round

(* every step is the abstract round or changes nothing the mapping shows *)
LEMMA StepRefines ==
  RefinementInv /\ [RefinementNext]_refinementVars => [Rounds!Round]_<<partition, iteration>>
<1> SUFFICES ASSUME RefinementInv, [RefinementNext]_refinementVars, ~SwapPartitions
             PROVE  UNCHANGED <<partition, iteration>>
  BY SwapIsRound
<1> QED
  BY DEF RefinementNext, TakePoint, ScorePoint, LabelPoint, EndScores, refinementVars

(* The labels go through the simultaneous rounds of the abstract
   specification, whatever the workers do (refineSegmentation). *)
THEOREM RefinementIsSynchronous == RefinementSpec => Synchronous
<1>1. RefinementInit => Rounds!Init
  BY DEF RefinementInit, Rounds!Init
<1> QED
  BY <1>1, RefinementInitInv, RefinementNextInv, StepRefines, PTL DEF RefinementSpec, Synchronous, Rounds!Spec

-----------------------------------------------------------------------------
(***************************************************************************)
(* What a group leaves in the parameters of the encoder, for any number of *)
(* groups, frames and workers and any distances: the reconstruction mode is *)
(* put back, the last addition to the shared sum always counts and no       *)
(* addition counts twice, and the tiles added for raw points stay.          *)
(***************************************************************************)
(* the parameters outside of the reconstruction mode are those of the options,
   except for the tiles *)
TilesInv ==
  /\ params.rawPointsPatch = options.rawPointsPatch
  /\ params.tileSegmentationType = options.tileSegmentationType
  /\ params.numMaxTilePerFrame = options.numMaxTilePerFrame + (IF HasRawTile(options) THEN GroupsStarted ELSE 0)

(* encode's locals hold the mode of the options while a group is coded *)
ModeInv ==
  /\ phase \in {"start", "segment"} => ModeOf(params) = ModeOf(options)
  /\ phase # "start" => ModeOf(original) = ModeOf(options)

Far == \A i \in Items : distance[i] >= Threshold * Cardinality(Items)

(* a frame that has been added makes the sum at least as large as its distance,
   whatever was lost *)
SumInv ==
  phase = "segment" => (Far /\ (\E i \in Items : Processed(i)) => TooFar(sum))

(* only a worker with a frame has read the sum, and the loop is over outside of
   the segmentation *)
WorkersInv ==
  /\ \A w \in Workers : read[w] # NotRead => busy[w] # NoItem
  /\ phase # "segment" => busy = Idle
  /\ phase # "start" => group < MaxGroups

DecidedInv ==
  /\ Decided /\ HasMode(options) /\ Far => ~HasMode(params)
  /\ phase = "code" /\ options.tileSegmentationType = 1 => params.numMaxTilePerFrame = PlacedTiles

GroupInv == ParametersTypeOK /\ TilesInv /\ ModeInv /\ SumInv /\ WorkersInv /\ DecidedInv

-----------------------------------------------------------------------------
(* the bound the sum of distances is compared with *)
LEMMA LimitType == Threshold * Cardinality(Items) \in Nat
<1>1. Cardinality(Items) \in Nat
  BY ItemsAssumption, FS_CardinalityType
<1> QED
  BY <1>1, ParametersAssumption

(* the encoder begins with the options and no group *)
LEMMA GroupInitInv == GroupInit => GroupInv
<1> SUFFICES ASSUME GroupInit PROVE GroupInv
  OBVIOUS
<1>1. options \in Parameters /\ params = options /\ original = options
  BY ParametersAssumption DEF GroupInit
<1>2. ParametersTypeOK
  BY <1>1, ParametersAssumption DEF GroupInit, ParametersTypeOK, LoopTypeOK, Idle, NotRead
<1>3. TilesInv
  BY <1>1 DEF GroupInit, TilesInv, GroupsStarted, Parameters
<1>4. ModeInv /\ SumInv /\ WorkersInv /\ DecidedInv
  BY <1>1 DEF GroupInit, ModeInv, SumInv, WorkersInv, DecidedInv, Decided, NotRead
<1> QED
  BY <1>2, <1>3, <1>4 DEF GroupInv

(* the steps of the segmentation change the sum and the workers only *)
LEMMA SegmentSteps ==
  ASSUME GroupInv, phase = "segment", UNCHANGED <<groupVars, params, phase>>,
         LoopTypeOK', sum' \in Nat, read' \in [Workers -> Nat \cup {NotRead}], SumInv',
         \A w \in Workers : read'[w] # NotRead => busy'[w] # NoItem
  PROVE  GroupInv'
<1>1. UNCHANGED <<options, original, distance, group, params, phase>>
  BY DEF groupVars
<1>2. ParametersTypeOK'
  BY <1>1 DEF GroupInv, ParametersTypeOK
<1>3. TilesInv'
  BY <1>1 DEF GroupInv, TilesInv, GroupsStarted
<1>4. ModeInv'
  BY <1>1 DEF GroupInv, ModeInv
<1>5. WorkersInv' /\ DecidedInv'
  BY <1>1 DEF GroupInv, WorkersInv, DecidedInv, Decided
<1> QED
  BY <1>2, <1>3, <1>4, <1>5 DEF GroupInv

(* a group begins with the parameters it will restore, and a sum of zero *)
LEMMA StartGroupInv == GroupInv /\ StartGroup => GroupInv'
<1> SUFFICES ASSUME GroupInv, StartGroup PROVE GroupInv'
  OBVIOUS
<1>1. /\ phase = "start" /\ phase' = "segment" /\ group < MaxGroups
      /\ UNCHANGED <<options, read, group>> /\ original' = params /\ sum' = 0
      /\ distance' \in [Items -> Distances] /\ todo' = Items /\ busy' = Idle
      /\ params' = IF HasRawTile(params) THEN [params EXCEPT !.numMaxTilePerFrame = @ + 1] ELSE params
  BY DEF StartGroup, StartLoop
<1>2. /\ options \in Parameters /\ params \in Parameters /\ group \in Nat
      /\ params.numMaxTilePerFrame \in Nat /\ options.numMaxTilePerFrame \in Nat
  BY ParametersAssumption DEF GroupInv, ParametersTypeOK, Parameters
<1>3. LoopTypeOK'
  BY <1>1 DEF LoopTypeOK, Idle
<1>4. params' \in Parameters
  BY <1>1, <1>2 DEF Parameters
<1>5. ParametersTypeOK'
  BY <1>1, <1>2, <1>3, <1>4 DEF GroupInv, ParametersTypeOK
<1>6. TilesInv'
  <2>1. /\ params.rawPointsPatch = options.rawPointsPatch
        /\ params.tileSegmentationType = options.tileSegmentationType
        /\ params.numMaxTilePerFrame = options.numMaxTilePerFrame + (IF HasRawTile(options) THEN group ELSE 0)
    BY <1>1, <1>2 DEF GroupInv, TilesInv, GroupsStarted
  <2>2. HasRawTile(params) <=> HasRawTile(options)
    BY <1>2, <2>1 DEF HasRawTile
  <2>3. /\ params'.rawPointsPatch = params.rawPointsPatch
        /\ params'.tileSegmentationType = params.tileSegmentationType
        /\ params'.numMaxTilePerFrame = params.numMaxTilePerFrame + (IF HasRawTile(params) THEN 1 ELSE 0)
    BY <1>1, <1>2 DEF Parameters
  <2>4. GroupsStarted' = group + 1
    BY <1>1 DEF GroupsStarted
  <2> QED
    BY <1>1, <1>2, <2>1, <2>2, <2>3, <2>4 DEF TilesInv
<1>7. ModeInv'
  <2>1. ModeOf(params') = ModeOf(params)
    BY <1>1, <1>2 DEF ModeOf, Parameters
  <2>2. ModeOf(params) = ModeOf(options)
    BY <1>1 DEF GroupInv, ModeInv
  <2> QED
    BY <1>1, <2>1, <2>2 DEF ModeInv
<1>8. SumInv'
  <2>1. ~(\E i \in Items : Processed(i)')
    BY <1>1 DEF Processed
  <2> QED
    BY <2>1 DEF SumInv
<1>9. WorkersInv'
  <2>1. \A w \in Workers : read[w] = NotRead
    BY <1>1 DEF GroupInv, WorkersInv, Idle
  <2> QED
    BY <1>1, <2>1 DEF WorkersInv
<1>10. DecidedInv'
  BY <1>1 DEF DecidedInv, Decided
<1> QED
  BY <1>5, <1>6, <1>7, <1>8, <1>9, <1>10 DEF GroupInv

(* a worker that takes a frame has not read the sum yet *)
LEMMA SegmentFrameInv ==
  ASSUME GroupInv, NEW w \in Workers, SegmentFrame(w)
  PROVE  GroupInv'
<1> PICK k \in todo : Take(w, k)
  BY DEF SegmentFrame
<1>1. /\ phase = "segment" /\ UNCHANGED <<groupVars, params, sum, read, phase>>
      /\ sum \in Nat /\ read \in [Workers -> Nat \cup {NotRead}] /\ LoopTypeOK
  BY DEF SegmentFrame, GroupInv, ParametersTypeOK
<1>2. LoopTypeOK'
  BY <1>1 DEF LoopTypeOK, Take
<1>3. \A i \in Items : Processed(i)' => Processed(i)
  BY <1>1, ItemsAssumption DEF Take, Processed, LoopTypeOK
<1>4. SumInv'
  BY <1>1, <1>3 DEF GroupInv, SumInv, Far, TooFar, groupVars
<1>5. \A v \in Workers : read'[v] # NotRead => busy'[v] # NoItem
  <2>1. busy' = [busy EXCEPT ![w] = k] /\ k \in Items
    BY <1>1 DEF Take, LoopTypeOK
  <2> QED
    BY <1>1, <2>1, ItemsAssumption DEF GroupInv, WorkersInv, LoopTypeOK
<1> QED
  BY <1>1, <1>2, <1>4, <1>5, SegmentSteps

(* reading the sum changes nothing but the copy of the worker that has a frame *)
LEMMA ReadSumInv ==
  ASSUME GroupInv, NEW w \in Workers, ReadSum(w)
  PROVE  GroupInv'
<1>1. /\ phase = "segment" /\ UNCHANGED <<groupVars, params, sum, phase, todo, busy>>
      /\ busy[w] # NoItem /\ read' = [read EXCEPT ![w] = sum]
      /\ sum \in Nat /\ read \in [Workers -> Nat \cup {NotRead}] /\ LoopTypeOK
  BY DEF ReadSum, GroupInv, ParametersTypeOK
<1>2. LoopTypeOK'
  BY <1>1 DEF LoopTypeOK
<1>3. SumInv'
  BY <1>1 DEF GroupInv, SumInv, Far, TooFar, groupVars, Processed
<1>4. \A v \in Workers : read'[v] # NotRead => busy'[v] # NoItem
  BY <1>1 DEF GroupInv, WorkersInv
<1>5. read' \in [Workers -> Nat \cup {NotRead}]
  BY <1>1
<1> QED
  BY <1>1, <1>2, <1>3, <1>4, <1>5, SegmentSteps

(* the sum a worker writes holds at least the distance of its own frame *)
LEMMA WriteSumInv ==
  ASSUME GroupInv, NEW w \in Workers, WriteSum(w)
  PROVE  GroupInv'
<1> DEFINE k == busy[w]
<1>1. /\ phase = "segment" /\ UNCHANGED <<groupVars, params, phase>>
      /\ read[w] # NotRead /\ sum' = read[w] + distance[k]
      /\ read' = [read EXCEPT ![w] = NotRead] /\ Release(w)
      /\ read \in [Workers -> Nat \cup {NotRead}] /\ LoopTypeOK
      /\ distance \in [Items -> Distances]
  BY DEF WriteSum, Added, GroupInv, ParametersTypeOK
<1>2. k # NoItem /\ k \in Items
  BY <1>1 DEF GroupInv, WorkersInv, LoopTypeOK
<1>3. read[w] \in Nat /\ distance[k] \in Nat
  BY <1>1, <1>2, ParametersAssumption
<1>4. LoopTypeOK'
  BY <1>1 DEF LoopTypeOK, Release
<1>5. SumInv'
  <2> SUFFICES ASSUME Far' PROVE TooFar(sum')
    BY DEF SumInv
  <2>1. distance[k] >= Threshold * Cardinality(Items)
    BY <1>1, <1>2 DEF Far, groupVars
  <2> QED
    BY <1>1, <1>3, <2>1, LimitType DEF TooFar
<1>6. \A v \in Workers : read'[v] # NotRead => busy'[v] # NoItem
  BY <1>1 DEF GroupInv, WorkersInv, Release, LoopTypeOK
<1>7. read' \in [Workers -> Nat \cup {NotRead}] /\ sum' \in Nat
  BY <1>1, <1>3
<1> QED
  BY <1>1, <1>4, <1>5, <1>6, <1>7, SegmentSteps

(* the decision changes the parameters of this group, for a far sequence only *)
LEMMA DecideInv == GroupInv /\ Decide => GroupInv'
<1> SUFFICES ASSUME GroupInv, Decide PROVE GroupInv'
  OBVIOUS
<1> DEFINE plain == [params EXCEPT !.pointLocalReconstruction = FALSE, !.mapCountMinus1 = 1,
                                   !.singleMapPixelInterleaving = FALSE]
<1>1. /\ phase = "segment" /\ phase' = "place" /\ LoopEnded
      /\ UNCHANGED <<options, original, distance, group, sum, read, todo, busy>>
      /\ params' = IF HasMode(params) /\ TooFar(sum) THEN plain ELSE params
  BY DEF Decide, groupVars
<1>2. /\ params \in Parameters /\ options \in Parameters /\ sum \in Nat
  BY ParametersAssumption DEF GroupInv, ParametersTypeOK
<1>3. params' \in Parameters
  <2>1. 1 \in 0 .. 1
    OBVIOUS
  <2>2. plain \in Parameters
    BY <1>2, <2>1 DEF Parameters
  <2> QED
    BY <1>1, <1>2, <2>2
<1>4. /\ params'.rawPointsPatch = params.rawPointsPatch
      /\ params'.tileSegmentationType = params.tileSegmentationType
      /\ params'.numMaxTilePerFrame = params.numMaxTilePerFrame
  BY <1>1, <1>2 DEF Parameters
<1>5. ParametersTypeOK'
  BY <1>1, <1>3 DEF GroupInv, ParametersTypeOK, LoopTypeOK
<1>6. TilesInv'
  BY <1>1, <1>4 DEF GroupInv, TilesInv, GroupsStarted
<1>7. ModeInv'
  BY <1>1 DEF GroupInv, ModeInv
<1>8. SumInv'
  BY <1>1 DEF SumInv
<1>9. WorkersInv'
  BY <1>1 DEF GroupInv, WorkersInv, LoopEnded
<1>10. DecidedInv'
  <2> SUFFICES ASSUME HasMode(options), Far
               PROVE  ~HasMode(params')
    BY <1>1 DEF DecidedInv, Far
  <2>1. HasMode(params)
    BY <1>1 DEF GroupInv, ModeInv, ModeOf, HasMode
  <2>2. TooFar(sum)
    <3>1. CASE Items = {}
      <4>1. Cardinality(Items) = 0
        BY <3>1, FS_EmptySet
      <4> QED
        BY <1>2, <4>1, ParametersAssumption DEF TooFar
    <3>2. CASE Items # {}
      <4>1. \E i \in Items : Processed(i)
        BY <1>1, <3>2, ItemsAssumption DEF LoopEnded, Idle, Processed
      <4> QED
        BY <1>1, <4>1 DEF GroupInv, SumInv
    <3> QED
      BY <3>1, <3>2
  <2> QED
    BY <1>1, <1>2, <2>1, <2>2 DEF HasMode, Parameters
<1> QED
  BY <1>5, <1>6, <1>7, <1>8, <1>9, <1>10 DEF GroupInv

(* placing the segments goes on only with as many tiles as were placed *)
LEMMA PlaceSegmentsInv == GroupInv /\ PlaceSegments => GroupInv'
<1> SUFFICES ASSUME GroupInv, PlaceSegments PROVE GroupInv'
  OBVIOUS
<1>1. /\ phase = "place" /\ phase' \in {"exit14", "code"}
      /\ UNCHANGED <<options, original, distance, group, params, sum, read, todo, busy>>
      /\ phase' = "code" /\ params.tileSegmentationType = 1 => params.numMaxTilePerFrame = PlacedTiles
  BY DEF PlaceSegments, groupVars
<1>2. ParametersTypeOK'
  BY <1>1 DEF GroupInv, ParametersTypeOK, LoopTypeOK
<1>3. TilesInv'
  BY <1>1 DEF GroupInv, TilesInv, GroupsStarted
<1>4. ModeInv' /\ SumInv' /\ WorkersInv'
  BY <1>1 DEF GroupInv, ModeInv, SumInv, WorkersInv
<1>5. DecidedInv'
  BY <1>1 DEF GroupInv, TilesInv, DecidedInv, Decided, Far, PlacedTiles
<1> QED
  BY <1>2, <1>3, <1>4, <1>5 DEF GroupInv

(* the end of a group restores what the decision has changed *)
LEMMA EndGroupInv == GroupInv /\ EndGroup => GroupInv'
<1> SUFFICES ASSUME GroupInv, EndGroup PROVE GroupInv'
  OBVIOUS
<1>1. /\ phase = "code" /\ phase' = "start" /\ group' = group + 1
      /\ UNCHANGED <<options, original, distance, sum, read, todo, busy>>
      /\ params' = [params EXCEPT !.pointLocalReconstruction   = original.pointLocalReconstruction,
                                  !.mapCountMinus1             = original.mapCountMinus1,
                                  !.singleMapPixelInterleaving = original.singleMapPixelInterleaving]
  BY DEF EndGroup
<1>2. /\ params \in Parameters /\ original \in Parameters /\ group \in 0 .. MaxGroups /\ group < MaxGroups
  BY <1>1 DEF GroupInv, ParametersTypeOK, WorkersInv
<1>3. /\ params' \in Parameters /\ ModeOf(params') = ModeOf(original)
      /\ params'.rawPointsPatch = params.rawPointsPatch
      /\ params'.tileSegmentationType = params.tileSegmentationType
      /\ params'.numMaxTilePerFrame = params.numMaxTilePerFrame
  BY <1>1, <1>2 DEF Parameters, ModeOf
<1>4. ParametersTypeOK'
  BY <1>1, <1>2, <1>3, ParametersAssumption DEF GroupInv, ParametersTypeOK, LoopTypeOK
<1>5. TilesInv'
  BY <1>1, <1>2, <1>3 DEF GroupInv, TilesInv, GroupsStarted
<1>6. ModeInv'
  BY <1>1, <1>3 DEF GroupInv, ModeInv
<1>7. SumInv' /\ WorkersInv' /\ DecidedInv'
  BY <1>1 DEF GroupInv, SumInv, WorkersInv, DecidedInv, Decided
<1> QED
  BY <1>4, <1>5, <1>6, <1>7 DEF GroupInv

(* every step keeps the invariant *)
LEMMA GroupNextInv == GroupInv /\ [GroupNext]_parameterVars => GroupInv'
<1> SUFFICES ASSUME GroupInv, [GroupNext]_parameterVars PROVE GroupInv'
  OBVIOUS
<1>1. CASE UNCHANGED parameterVars
  <2>1. UNCHANGED <<options, original, distance, group, params, sum, read, phase, todo, busy>>
    BY <1>1 DEF parameterVars, groupVars
  <2>2. ParametersTypeOK'
    BY <2>1 DEF GroupInv, ParametersTypeOK, LoopTypeOK
  <2>3. TilesInv' /\ ModeInv'
    BY <2>1 DEF GroupInv, TilesInv, GroupsStarted, ModeInv
  <2>4. SumInv' /\ WorkersInv' /\ DecidedInv'
    BY <2>1 DEF GroupInv, SumInv, WorkersInv, DecidedInv, Decided, Far, PlacedTiles, Processed
  <2> QED
    BY <2>2, <2>3, <2>4 DEF GroupInv
<1> QED
  BY <1>1, StartGroupInv, SegmentFrameInv, ReadSumInv, WriteSumInv, DecideInv, PlaceSegmentsInv, EndGroupInv
  DEF GroupNext

-----------------------------------------------------------------------------
(* The parameters, the sum and what the workers have read of it keep their types,
   however many additions are lost. *)
THEOREM GroupTypes == GroupSpec => []ParametersTypeOK
<1>1. GroupInv => ParametersTypeOK
  BY DEF GroupInv
<1> QED
  BY <1>1, GroupInitInv, GroupNextInv, PTL DEF GroupSpec

(* Every group is segmented with the reconstruction mode of the options, whatever
   the groups before it decided (encode's saved locals). *)
THEOREM ModeIsRestored == GroupSpec => []ModeRestored
<1>1. GroupInv => ModeRestored
  BY DEF GroupInv, ModeInv, ModeRestored
<1> QED
  BY <1>1, GroupInitInv, GroupNextInv, PTL DEF GroupSpec

(* The last addition always counts: a group all frames of which are far enough
   alone is coded without the mode (generateSegments). *)
THEOREM FarIsSwitchedOff == GroupSpec => []FarSwitchedOff
<1>1. GroupInv => FarSwitchedOff
  BY DEF GroupInv, DecidedInv, FarSwitchedOff, SwitchedOff, Far
<1> QED
  BY <1>1, GroupInitInv, GroupNextInv, PTL DEF GroupSpec

(* The tiles added for the raw points stay, and end the program at the second
   group where tiles are made from regions (encode, generateTilesFromImage). *)
THEOREM RawTilesStay == GroupSpec => []RawTilesAccumulate
<1>1. GroupInv => RawTilesAccumulate
  <2> SUFFICES ASSUME GroupInv PROVE RawTilesAccumulate
    OBVIOUS
  <2>1. /\ options \in Parameters /\ params \in Parameters /\ group \in Nat
        /\ options.numMaxTilePerFrame \in Nat /\ params.numMaxTilePerFrame \in Nat
        /\ GroupsStarted \in Nat
    BY ParametersAssumption DEF GroupInv, ParametersTypeOK, Parameters, GroupsStarted
  <2>2. params.numMaxTilePerFrame - options.numMaxTilePerFrame \in {0, GroupsStarted}
    BY <2>1 DEF GroupInv, TilesInv
  <2>3. ASSUME phase = "code", options.rawPointsPatch, options.tileSegmentationType = 1
        PROVE  group = 0 /\ options.numMaxTilePerFrame > 1
    <3>1. params.numMaxTilePerFrame = options.numMaxTilePerFrame + 1
      BY <2>3 DEF GroupInv, DecidedInv, PlacedTiles
    <3>2. HasRawTile(options) /\ GroupsStarted = 1
      BY <2>1, <3>1 DEF GroupInv, TilesInv
    <3>3. GroupsStarted = group + 1
      BY <2>3 DEF GroupsStarted
    <3> QED
      BY <2>1, <3>2, <3>3 DEF HasRawTile
  <2> QED
    BY <2>2, <2>3 DEF RawTilesAccumulate
<1> QED
  BY <1>1, GroupInitInv, GroupNextInv, PTL DEF GroupSpec

-----------------------------------------------------------------------------
(***************************************************************************)
(* The sum is never more than what has been measured.                      *)
(***************************************************************************)
Done == {i \in Items : Processed(i)}

(* the shared sum, and every copy of it, is at most the distances of the frames done *)
AtMostDone(g) ==
  /\ sum <= g[Done]
  /\ \A w \in Workers : read[w] # NotRead => read[w] <= g[Done]

LossyInv ==
  /\ phase = "segment" =>
       Exclusive /\ \A g : SumsOf(g, distance, Items) => AtMostDone(g)
  /\ OnlyFarSwitchedOff

LEMMA LossyInit == GroupInit => LossyInv
BY DEF GroupInit, LossyInv, OnlyFarSwitchedOff, SwitchedOff, Decided

(* the sums over the frames done are numbers *)
LEMMA DoneSums ==
  ASSUME ParametersTypeOK, NEW g, SumsOf(g, distance, Items), NEW R \in SUBSET Items
  PROVE  g[R] \in Nat /\ g[R] <= g[Items]
<1>1. distance \in [Items -> Nat]
  BY ParametersAssumption DEF ParametersTypeOK
<1>2. IsFiniteSet(Items)
  BY ItemsAssumption
<1> QED BY <1>1, <1>2, PartialSums

(* a frame that is taken is not done, and those done stay so *)
LEMMA TakenNotDone ==
  ASSUME ParametersTypeOK, Exclusive, NEW w \in Workers, NEW i \in todo, Take(w, i)
  PROVE  Done' = Done /\ Exclusive'
<1>1. \A v \in Workers : busy'[v] = IF v = w THEN i ELSE busy[v]
  BY DEF Take, ParametersTypeOK, LoopTypeOK
<1>2. todo' = todo \ {i} /\ busy[w] = NoItem /\ i \in Items
  BY DEF Take, ParametersTypeOK, LoopTypeOK
<1>3. Exclusive'
  BY <1>1, <1>2 DEF Exclusive
<1>4. \A k \in Items : Processed(k)' <=> Processed(k)
  BY <1>1, <1>2, ItemsAssumption DEF Processed
<1> QED BY <1>3, <1>4 DEF Done

(* a frame that is released is done, and it was not before *)
LEMMA ReleasedIsDone ==
  ASSUME ParametersTypeOK, Exclusive, NEW w \in Workers, busy[w] # NoItem, Release(w)
  PROVE  /\ Done' = Done \cup {busy[w]} /\ busy[w] \in Items \ Done
         /\ Exclusive'
<1>1. \A v \in Workers : busy'[v] = IF v = w THEN NoItem ELSE busy[v]
  BY DEF Release, ParametersTypeOK, LoopTypeOK
<1>2. todo' = todo /\ busy[w] \in Items /\ busy[w] \notin todo
  BY DEF Release, ParametersTypeOK, LoopTypeOK, Exclusive
<1>3. Exclusive'
  BY <1>1, <1>2, ItemsAssumption DEF Exclusive, ParametersTypeOK, LoopTypeOK
<1>4. \A k \in Items : Processed(k)' <=> Processed(k) \/ k = busy[w]
  BY <1>1, <1>2, ItemsAssumption DEF Processed, Exclusive
<1>5. ~Processed(busy[w])
  BY DEF Processed
<1> QED BY <1>2, <1>3, <1>4, <1>5 DEF Done

(* the sum of the distances is one of these sums *)
IsTheSum == \E g : SumsOf(g, distance, Items) /\ g[Items] = TrueSum

LEMMA TrueSumIs == ParametersTypeOK => IsTheSum
<1> SUFFICES ASSUME ParametersTypeOK PROVE IsTheSum
  OBVIOUS
<1>1. distance \in [Items -> Nat]
  BY ParametersAssumption DEF ParametersTypeOK
<1>2. distance \in [Items -> Int]
  BY <1>1
<1> QED BY <1>2, ItemsAssumption, SumOverSet DEF TrueSum, IsTheSum

(* and depends on the distances only *)
LEMMA SameTrueSum == ParametersTypeOK /\ ParametersTypeOK' /\ distance' = distance => TrueSum' = TrueSum
<1> SUFFICES ASSUME ParametersTypeOK, ParametersTypeOK', distance' = distance PROVE TrueSum' = TrueSum
  OBVIOUS
<1>1. (ParametersTypeOK => IsTheSum)'
  BY TrueSumIs, PTL
<1>2. PICK h : SumsOf(h, distance, Items) /\ h[Items] = TrueSum
  BY TrueSumIs DEF IsTheSum
<1>3. PICK k : SumsOf(k, distance, Items) /\ k[Items] = TrueSum'
  BY <1>1 DEF IsTheSum, SumsOf
<1>4. PICK R \in SUBSET Items : R = Items
  OBVIOUS
<1>5. AgreeOn(distance, distance, R)
  BY DEF AgreeOn
<1>6. h[R] = k[R]
  BY <1>2, <1>3, <1>5, ItemsAssumption, SumsAgree
<1> QED BY <1>2, <1>3, <1>4, <1>6

LEMMA LossyNext == GroupInv /\ LossyInv /\ [GroupNext]_parameterVars => LossyInv'
<1> SUFFICES ASSUME GroupInv, LossyInv, [GroupNext]_parameterVars PROVE LossyInv'
  OBVIOUS
<1>1. ParametersTypeOK
  BY DEF GroupInv
<1>10. ParametersTypeOK'
  BY GroupNextInv DEF GroupInv
<1>2. CASE StartGroup
  <2>1. /\ sum' = 0 /\ todo' = Items /\ busy' = Idle /\ phase = "start" /\ phase' = "segment" /\ read' = read
    BY <1>2 DEF StartGroup, StartLoop
  <2>2. \A w \in Workers : read[w] = NotRead
    BY <2>1 DEF GroupInv, WorkersInv, Idle
  <2>3. Exclusive' /\ Done' = {}
    BY <2>1, ItemsAssumption DEF Exclusive, Idle, Done, Processed
  <2>4. ASSUME NEW g, SumsOf(g, distance', Items) PROVE AtMostDone(g)'
    <3>1. g[{}] = 0
      BY <2>4 DEF SumsOf
    <3> QED BY <2>1, <2>2, <2>3, <3>1 DEF AtMostDone
  <2>5. \A g : SumsOf(g, distance, Items)' => AtMostDone(g)'
    BY <2>4 DEF SumsOf
  <2> QED BY <2>1, <2>3, <2>5 DEF LossyInv, OnlyFarSwitchedOff, SwitchedOff, Decided
<1>3. ASSUME NEW w \in Workers, SegmentFrame(w) PROVE LossyInv'
  <2>1. PICK i \in todo : Take(w, i)
    BY <1>3 DEF SegmentFrame
  <2>2. phase = "segment" /\ phase' = "segment" /\ UNCHANGED <<distance, sum, read>>
    BY <1>3 DEF SegmentFrame, groupVars
  <2>3. Done' = Done /\ Exclusive'
    BY <1>1, <2>1, <2>2, TakenNotDone DEF LossyInv
  <2>4. \A g : SumsOf(g, distance, Items)' => AtMostDone(g)'
    BY <2>2, <2>3 DEF LossyInv, AtMostDone, SumsOf
  <2> QED BY <2>2, <2>3, <2>4 DEF LossyInv, OnlyFarSwitchedOff, SwitchedOff, Decided
<1>4. ASSUME NEW w \in Workers, ReadSum(w) PROVE LossyInv'
  <2>1. phase = "segment" /\ phase' = "segment" /\ UNCHANGED <<distance, sum, todo, busy>>
        /\ read' = [read EXCEPT ![w] = sum]
    BY <1>4 DEF ReadSum, groupVars
  <2>2. Done' = Done /\ Exclusive'
    BY <2>1 DEF LossyInv, Exclusive, Done, Processed
  <2>3. \A v \in Workers : read'[v] = IF v = w THEN sum ELSE read[v]
    BY <1>1, <2>1 DEF ParametersTypeOK
  <2>4. \A g : SumsOf(g, distance, Items)' => AtMostDone(g)'
    BY <2>1, <2>2, <2>3 DEF LossyInv, AtMostDone, SumsOf
  <2> QED BY <2>1, <2>2, <2>4 DEF LossyInv, OnlyFarSwitchedOff, SwitchedOff, Decided
<1>5. ASSUME NEW w \in Workers, WriteSum(w) PROVE LossyInv'
  <2>1. /\ phase = "segment" /\ phase' = "segment" /\ UNCHANGED distance
        /\ read[w] # NotRead /\ sum' = read[w] + distance[busy[w]]
        /\ read' = [read EXCEPT ![w] = NotRead] /\ Release(w)
    BY <1>5 DEF WriteSum, Added, groupVars
  <2>2. busy[w] # NoItem
    BY <2>1 DEF GroupInv, WorkersInv
  <2>3. PICK k : k = busy[w] /\ Done' = Done \cup {k} /\ k \in Items \ Done /\ Exclusive'
    BY <1>1, <2>1, <2>2, ReleasedIsDone DEF LossyInv
  <2>4. \A v \in Workers : read'[v] = IF v = w THEN NotRead ELSE read[v]
    BY <1>1, <2>1 DEF ParametersTypeOK
  <2>5. distance[k] \in Nat /\ read[w] \in Nat /\ \A v \in Workers : read[v] \in Nat \cup {NotRead}
    BY <1>1, <2>1, <2>3, ParametersAssumption DEF ParametersTypeOK
  <2>6. ASSUME NEW g, SumsOf(g, distance, Items) PROVE AtMostDone(g)'
    <3>1. PICK D \in SUBSET Items : D = Done
      BY DEF Done
    <3>2. PICK E \in SUBSET Items : E = D \cup {k}
      BY <2>3
    <3>3. E \ {k} = D /\ k \in E
      BY <2>3, <3>1, <3>2
    <3>4. g[E] = distance[k] + g[E \ {k}]
      BY <2>6, <3>3 DEF SumsOf
    <3>5. g[D] \in Nat
      BY <1>1, <2>6, DoneSums
    <3>6. sum <= g[D] /\ \A v \in Workers : read[v] # NotRead => read[v] <= g[D]
      BY <2>1, <2>6, <3>1 DEF LossyInv, AtMostDone
    <3>7. sum' <= g[E]
      <4>1. PICK x \in Nat, d \in Nat, y \in Nat : x = read[w] /\ d = distance[k] /\ y = g[D]
        BY <2>5, <3>5
      <4>2. x <= y /\ g[E] = d + y
        BY <2>1, <3>3, <3>4, <3>6, <4>1
      <4>3. sum' = x + d
        BY <2>1, <2>3, <4>1
      <4> QED BY <4>1, <4>2, <4>3
    <3>8. \A v \in Workers : read[v] # NotRead => read[v] <= g[E]
      BY <2>5, <3>3, <3>4, <3>5, <3>6 DEF NotRead
    <3>9. Done' = E
      BY <2>3, <3>1, <3>2
    <3> QED BY <2>4, <3>7, <3>8, <3>9 DEF AtMostDone
  <2>7. \A g : SumsOf(g, distance, Items)' => AtMostDone(g)'
    BY <2>1, <2>6 DEF SumsOf
  <2> QED BY <2>1, <2>3, <2>7 DEF LossyInv, OnlyFarSwitchedOff, SwitchedOff, Decided
<1>6. CASE Decide
  <2>1. /\ phase = "segment" /\ phase' = "place" /\ LoopEnded
        /\ UNCHANGED <<options, distance>>
        /\ ~TooFar(sum) => params' = params
    BY <1>6 DEF Decide, groupVars
  <2>2. Done = Items
    BY <2>1, ItemsAssumption DEF Done, Processed, LoopEnded, Idle
  <2>3. PICK g : SumsOf(g, distance, Items) /\ g[Items] = TrueSum
    BY <1>1, TrueSumIs DEF IsTheSum
  <2>4. sum <= TrueSum
    BY <2>1, <2>2, <2>3 DEF LossyInv, AtMostDone
  <2>5. TrueSum' = TrueSum
    BY <1>1, <1>10, <2>1, SameTrueSum
  <2>6. SwitchedOff' => TooFar(sum)
    BY <2>1 DEF SwitchedOff, GroupInv, ModeInv, ModeOf, HasMode
  <2>7. sum \in Nat /\ TrueSum \in Nat
    <3>1. Items \in SUBSET Items
      OBVIOUS
    <3> QED BY <1>1, <2>3, <3>1, DoneSums DEF ParametersTypeOK
  <2>8. OnlyFarSwitchedOff'
    BY <2>4, <2>5, <2>6, <2>7, LimitType DEF OnlyFarSwitchedOff, TooFar
  <2> QED BY <2>1, <2>8 DEF LossyInv
<1>7. CASE PlaceSegments
  <2>1. phase = "place" /\ phase' # "segment" /\ UNCHANGED <<options, params, distance>>
    BY <1>7 DEF PlaceSegments, groupVars
  <2>2. TrueSum' = TrueSum
    BY <1>1, <1>10, <2>1, SameTrueSum
  <2> QED BY <2>1, <2>2 DEF LossyInv, OnlyFarSwitchedOff, SwitchedOff, Decided
<1>8. CASE EndGroup
  BY <1>8 DEF EndGroup, LossyInv, OnlyFarSwitchedOff, SwitchedOff, Decided
<1>9. CASE UNCHANGED parameterVars
  <2>1. UNCHANGED <<options, params, distance, sum, read, phase, todo, busy>>
    BY <1>9 DEF parameterVars, groupVars
  <2>2. TrueSum' = TrueSum
    BY <1>1, <1>10, <2>1, SameTrueSum
  <2>3. Done' = Done /\ Exclusive' = Exclusive
    BY <2>1 DEF Done, Processed, Exclusive
  <2>4. \A g : SumsOf(g, distance, Items)' = SumsOf(g, distance, Items)
    BY <2>1 DEF SumsOf
  <2> QED BY <2>1, <2>2, <2>3, <2>4 DEF LossyInv, AtMostDone, OnlyFarSwitchedOff, SwitchedOff, Decided
<1> QED BY <1>2, <1>3, <1>4, <1>5, <1>6, <1>7, <1>8, <1>9 DEF GroupNext

(* Additions that are lost only lower the sum: a group is coded without the mode
   only where its frames are too far (the shared float of generateSegments), for
   any number of frames and workers and any order of their reads and writes. *)
THEOREM OnlyFarAreSwitchedOff == GroupSpec => []OnlyFarSwitchedOff
<1>1. LossyInv => OnlyFarSwitchedOff
  BY DEF LossyInv
<1> QED BY <1>1, GroupInitInv, GroupNextInv, LossyInit, LossyNext, PTL DEF GroupSpec
================================================================================
