---------------------------- MODULE NormalSmoothing ----------------------------
(***************************************************************************)
(* PCCNormalsGenerator3::smoothNormals: in each iteration a parallel loop  *)
(* replaces the normal of every point by a mean of it and the normals of   *)
(* its neighbours, in place.  The three vectors it computes with, n0, n1   *)
(* and n2, are declared outside of the loop, so that all workers share     *)
(* them.                                                                   *)
(*                                                                         *)
(* A normal is known by its point and its version, the number of times it  *)
(* has been replaced; what is computed in n1 by the normals that went into *)
(* it, as the own one of a point or in a sum.  Clouds have at most as many *)
(* points as there are chunks (64), each in one of its own.                *)
(* Some names say Normals, since the proofs extend ParallelSmoothing too.  *)
(***************************************************************************)
EXTENDS ParallelFor, Sequences, SequencesExt

CONSTANTS
  Neighbourhoods,   \* for each point the others in its radius, the nearest first
  Iterations        \* numberOfIterationsInNormalSmoothing

ASSUME NormalsAssumption ==
  /\ Items \subseteq Nat
  /\ Neighbourhoods \subseteq [Items -> Seq(Items)]
  /\ Iterations \in Nat \ {0}
  /\ IsFiniteSet(Workers)

Normals == Items \X (0 .. Iterations)

(* what a normal is made of *)
Mixtures == [own : SUBSET Normals, sum : SUBSET Normals]

Steps == {"own", "reset", "load", "add", "store"}

VARIABLES
  threads,      \* the workers there are (nbThread)
  neighbours,   \* what the tree finds for each point
  version,      \* how often each normal has been replaced
  madeOf,       \* what the normal of each point was made of (not in the code)
  n0, n1, n2,   \* the vectors of all workers: a normal, what is made of them and a normal
  at,           \* what each worker does next: "own", "reset", a neighbour to load or add, "store"
  iteration

work == <<n0, n1, n2, at>>
normalsVars == <<threads, neighbours, version, madeOf, work, iteration, todo, busy>>

NothingYet == [own |-> {}, sum |-> {}]

NormalsInit ==
  /\ threads \in (SUBSET Workers) \ {{}}
  /\ neighbours \in Neighbourhoods
  /\ version = [i \in Items |-> 0]
  /\ madeOf = [i \in Items |-> NothingYet]
  /\ n0 = <<>> /\ n1 = NothingYet /\ n2 = <<>>
  /\ at = [w \in Workers |-> <<"own", 0>>]
  /\ iteration = 0
  /\ todo = Items
  /\ busy = Idle

(* one worker goes through the chunks in order *)
InOrder(i) == Cardinality(threads) = 1 => \A k \in todo : i <= k

TakeNextPoint(w) ==
  /\ iteration < Iterations
  /\ \E i \in todo : InOrder(i) /\ Take(w, i)
  /\ UNCHANGED <<threads, neighbours, version, madeOf, work, iteration>>

Normal(i) == <<i, version[i]>>

(* n0 = normals_[ptIndex] *)
LoadOwn(w) ==
  /\ busy[w] # NoItem
  /\ at[w] = <<"own", 0>>
  /\ n0' = Normal(busy[w])
  /\ at' = [at EXCEPT ![w] = <<"reset", 0>>]
  /\ UNCHANGED <<threads, neighbours, version, madeOf, n1, n2, iteration, todo, busy>>

(* mutant: the sum of the point before is kept *)
ResetSum_Kept(w) ==
  /\ at[w] = <<"reset", 0>>
  /\ at' = [at EXCEPT ![w] = <<"load", 1>>]
  /\ UNCHANGED <<threads, neighbours, version, madeOf, n0, n1, n2, iteration, todo, busy>>

(* n1 = 0.0 *)
ResetSum(w) ==
  /\ at[w] = <<"reset", 0>>
  /\ n1' = NothingYet
  /\ at' = [at EXCEPT ![w] = <<"load", 1>>]
  /\ UNCHANGED <<threads, neighbours, version, madeOf, n0, n2, iteration, todo, busy>>

Found(w) == neighbours[busy[w]]

(* n2 = normals_[result.indices( i )] *)
LoadNeighbour(w) ==
  /\ at[w][1] = "load"
  /\ at[w][2] <= Len(Found(w))
  /\ n2' = Normal(Found(w)[at[w][2]])
  /\ at' = [at EXCEPT ![w][1] = "add"]
  /\ UNCHANGED <<threads, neighbours, version, madeOf, n0, n1, iteration, todo, busy>>

(* n1 += n2, or -= where n0 and n2 point away from each other *)
AddNeighbour(w) ==
  /\ at[w][1] = "add"
  /\ n1' = [n1 EXCEPT !.sum = @ \cup {n2}]
  /\ at' = [at EXCEPT ![w] = <<"load", @[2] + 1>>]
  /\ UNCHANGED <<threads, neighbours, version, madeOf, n0, n2, iteration, todo, busy>>

(* n1 = w0 * n0 + w2 * n1; normalizing it, before and after, leaves what it is made of *)
WeighNormal(w) ==
  /\ at[w][1] = "load"
  /\ at[w][2] > Len(Found(w))
  /\ n1' = [n1 EXCEPT !.own = @ \cup {n0}]
  /\ at' = [at EXCEPT ![w] = <<"store", 0>>]
  /\ UNCHANGED <<threads, neighbours, version, madeOf, n0, n2, iteration, todo, busy>>

(* normals_[ptIndex] = n1 *)
StoreNormal(w) ==
  /\ at[w] = <<"store", 0>>
  /\ version' = [version EXCEPT ![busy[w]] = @ + 1]
  /\ madeOf' = [madeOf EXCEPT ![busy[w]] = n1]
  /\ at' = [at EXCEPT ![w] = <<"own", 0>>]
  /\ Release(w)
  /\ UNCHANGED <<threads, neighbours, n0, n1, n2, iteration>>

(* mutant: the next iteration begins while points are being smoothed *)
EndIteration_AllTaken ==
  /\ iteration < Iterations
  /\ todo = {}
  /\ iteration' = iteration + 1
  /\ todo' = Items
  /\ UNCHANGED <<threads, neighbours, version, madeOf, work, busy>>

EndIteration ==
  /\ iteration < Iterations
  /\ LoopEnded
  /\ iteration' = iteration + 1
  /\ StartLoop
  /\ UNCHANGED <<threads, neighbours, version, madeOf, work>>

NormalsNext ==
  \/ \E w \in threads : \/ TakeNextPoint(w) \/ LoadOwn(w) \/ ResetSum(w)
                        \/ LoadNeighbour(w) \/ AddNeighbour(w)
                        \/ WeighNormal(w) \/ StoreNormal(w)
  \/ EndIteration

NormalsSpec == NormalsInit /\ [][NormalsNext]_normalsVars

-----------------------------------------------------------------------------
(* Every worker is at a step of the loop's body, and every normal is made of
   normals or of nothing yet (the vector starts empty). *)
NormalsTypeOK ==
  /\ LoopTypeOK
  /\ threads \subseteq Workers
  /\ neighbours \in Neighbourhoods
  /\ version \in [Items -> 0 .. Iterations]
  /\ madeOf \in [Items -> Mixtures] /\ n1 \in Mixtures
  /\ n0 \in Normals \cup {<<>>} /\ n2 \in Normals \cup {<<>>}
  /\ at \in [Workers -> Steps \X Nat]
  /\ iteration \in 0 .. Iterations

Neighbours(i) == ToSet(neighbours[i])

(* With one worker a normal is made of the one it replaces and of its
   neighbours' latest ones: those in front of it have been replaced in the same
   iteration, those behind it have not (the loop over the points). *)
SmoothedInOrder ==
  Cardinality(threads) = 1 =>
    \A i \in Items : version[i] > 0 =>
      madeOf[i] = [own |-> {<<i, version[i] - 1>>},
                   sum |-> {<<k, IF k < i THEN version[i] ELSE version[i] - 1>> : k \in Neighbours(i)}]

(* Whatever the workers do to each other's vectors, iterations stay apart: no
   point is more than one version in front of another one, and a normal is only
   made of normals of the iteration before and of its own one (the loops over the
   iterations and over the points). *)
IterationsInStep ==
  \A i \in Items :
    /\ version[i] \in {iteration, iteration + 1}
    /\ version[i] > 0 => \A n \in madeOf[i].own \cup madeOf[i].sum : n[2] \in {version[i] - 1, version[i]}
================================================================================
