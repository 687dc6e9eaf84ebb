------------------------ MODULE SegmentationRefinement ------------------------
(***************************************************************************)
(* PCCPatchSegmenter3::refineSegmentation: the labels of all points (the   *)
(* projection plane each is assigned to) are smoothed in several iterations*)
(* of two parallel loops.  The first counts, for every point, the labels of*)
(* its neighbours; the second gives the point the label with the best score*)
(* in another vector, which is exchanged with the first after the loop.    *)
(*                                                                         *)
(* Best stands for the maximum of normal * orientation + weight * count.   *)
(* Some names say Refinement, since the proofs extend FrameLoader too.     *)
(***************************************************************************)
EXTENDS ParallelFor

CONSTANTS
  Labels,         \* the projection planes
  Adjacent,       \* the neighbours of each point (computeAdjacencyInfo)
  Iterations,     \* iterationCountRefineSegmentation
  Best(_, _, _)   \* the label for a point, its counts and its current label

Counts == [Labels -> 0 .. Cardinality(Items)]

ASSUME RefinementAssumption ==
  /\ Adjacent \in [Items -> SUBSET Items]
  /\ Iterations \in Nat
  /\ 0 \in Labels
  /\ \A i \in Items, s \in Counts, l \in Labels : Best(i, s, l) \in Labels

VARIABLES
  loop,           \* "score", "label" or "done"
  iteration,
  partition,      \* the label of each point
  tempPartition,
  scoresSmooth    \* the counts of each point

refinementVars == <<loop, iteration, partition, tempPartition, scoresSmooth, todo, busy>>

ScoreOf(i, labels) == [j \in Labels |-> Cardinality({n \in Adjacent[i] : labels[n] = j})]

NewLabel(i, labels) == Best(i, ScoreOf(i, labels), labels[i])

LoopAt(k) == IF k < Iterations THEN "score" ELSE "done"

RefinementInit ==
  /\ loop = LoopAt(0)
  /\ iteration = 0
  /\ partition \in [Items -> Labels]
  /\ tempPartition = [i \in Items |-> 0]
  /\ scoresSmooth = [i \in Items |-> [j \in Labels |-> 0]]
  /\ todo = Items
  /\ busy = Idle

TakePoint(w) ==
  /\ loop # "done"
  /\ \E i \in todo : Take(w, i)
  /\ UNCHANGED <<loop, iteration, partition, tempPartition, scoresSmooth>>

ScorePoint(w) ==
  /\ loop = "score"
  /\ busy[w] # NoItem
  /\ scoresSmooth' = [scoresSmooth EXCEPT ![busy[w]] = ScoreOf(busy[w], partition)]
  /\ Release(w)
  /\ UNCHANGED <<loop, iteration, partition, tempPartition>>

EndScores ==
  /\ loop = "score"
  /\ LoopEnded
  /\ loop' = "label"
  /\ StartLoop
  /\ UNCHANGED <<iteration, partition, tempPartition, scoresSmooth>>

(* mutant: the label is stored where the other points still read the old one *)
LabelPoint_InPlace(w) ==
  /\ loop = "label"
  /\ busy[w] # NoItem
  /\ partition' = [partition EXCEPT ![busy[w]] = Best(busy[w], scoresSmooth[busy[w]], partition[busy[w]])]
  /\ tempPartition' = partition'
  /\ Release(w)
  /\ UNCHANGED <<loop, iteration, scoresSmooth>>

LabelPoint(w) ==
  /\ loop = "label"
  /\ busy[w] # NoItem
  /\ tempPartition' = [tempPartition EXCEPT ![busy[w]] = Best(busy[w], scoresSmooth[busy[w]], partition[busy[w]])]
  /\ Release(w)
  /\ UNCHANGED <<loop, iteration, partition, scoresSmooth>>

(* the end of an iteration: swap( tempPartition, partition ) *)
SwapPartitions ==
  /\ loop = "label"
  /\ LoopEnded
  /\ partition' = tempPartition
  /\ tempPartition' = partition
  /\ iteration' = iteration + 1
  /\ loop' = LoopAt(iteration + 1)
  /\ StartLoop
  /\ UNCHANGED scoresSmooth

RefinementNext ==
  \/ \E w \in Workers : TakePoint(w) \/ ScorePoint(w) \/ LabelPoint(w)
  \/ EndScores
  \/ SwapPartitions

RefinementSpec == RefinementInit /\ [][RefinementNext]_refinementVars

-----------------------------------------------------------------------------
RefinementTypeOK ==
  /\ LoopTypeOK
  /\ loop \in {"score", "label", "done"}
  /\ iteration \in 0 .. Iterations
  /\ partition \in [Items -> Labels]
  /\ tempPartition \in [Items -> Labels]
  /\ scoresSmooth \in [Items -> Counts]

Rounds == INSTANCE SynchronousRounds WITH
  Points <- Items,
  Values <- Labels,
  Limit  <- Iterations,
  Rule   <- [i \in Items |-> [labels \in [Items -> Labels] |-> NewLabel(i, labels)]],
  value  <- partition,
  round  <- iteration

(* However many workers there are and in whatever order they take the points,
   the labels after an iteration are those of one simultaneous step: no point
   sees a label of the iteration it is in (the loops of refineSegmentation). *)
Synchronous == Rounds!Spec

(* A loop starts with every result of the loop before it: when labels are
   chosen all counts are those of the current labels, and when the vectors are
   exchanged all points have been given a label. *)
LoopsComplete ==
  /\ loop = "score" => \A i \in Items : Processed(i) => scoresSmooth[i] = ScoreOf(i, partition)
  /\ loop = "label" => \A i \in Items :
       /\ scoresSmooth[i] = ScoreOf(i, partition)
       /\ Processed(i) => tempPartition[i] = NewLabel(i, partition)
================================================================================
