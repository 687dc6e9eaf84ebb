------------------------------ MODULE ParallelFor ------------------------------
(***************************************************************************)
(* tbb::parallel_for inside a task_arena, as the code uses it: the body is *)
(* run once for every item, by any of the arena's workers, in any order and*)
(* several at a time, and arena.execute only returns when all have ended.  *)
(* The modules that have parallel loops extend this one; a worker's item is*)
(* taken in one step and its body done in later ones.                      *)
(***************************************************************************)
EXTENDS Naturals, FiniteSets

CONSTANTS
  Items,    \* what the loop runs over
  Workers,  \* the threads of the arena (nbThread)
  NoItem    \* what an idle worker has

ASSUME ItemsAssumption == IsFiniteSet(Items) /\ NoItem \notin Items

VARIABLES
  todo,  \* the items no worker has taken yet
  busy   \* the item each worker is at

loopVars == <<todo, busy>>

Idle == [w \in Workers |-> NoItem]

(* the loop is entered: nobody has taken anything *)
StartLoop == todo' = Items /\ busy' = Idle

Take(w, i) ==
  /\ busy[w] = NoItem
  /\ i \in todo
  /\ busy' = [busy EXCEPT ![w] = i]
  /\ todo' = todo \ {i}

Release(w) ==
  /\ busy' = [busy EXCEPT ![w] = NoItem]
  /\ UNCHANGED todo

LoopEnded == todo = {} /\ busy = Idle

(* item i has been taken and its body has ended *)
Processed(i) == i \notin todo /\ \A w \in Workers : busy[w] # i

(* no item is given to two workers, nor kept for another one when it is taken *)
Exclusive ==
  /\ \A w \in Workers : busy[w] \notin todo
  /\ \A v, w \in Workers : busy[v] = busy[w] /\ busy[v] # NoItem => v = w

LoopTypeOK ==
  /\ todo \subseteq Items
  /\ busy \in [Workers -> Items \cup {NoItem}]
================================================================================
