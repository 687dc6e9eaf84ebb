--------------------------- MODULE ParallelSmoothing ---------------------------
(***************************************************************************)
(* The two smoothing passes that compute the new value of every point in a *)
(* temporary vector and copy it back in a second parallel loop:            *)
(* PCCCodec::smoothPointCloud for positions ("geometry") and               *)
(* PCCEncoder::presmoothPointCloudColor for colours ("colour").  With TBB, *)
(* which the build enables by default, the second loop of the latter has an*)
(* empty body.                                                             *)
(*                                                                         *)
(* Smoothed stands for the centroid of the neighbours of a point, or the   *)
(* value it has where the tests leave it as it is.                         *)
(***************************************************************************)
EXTENDS ParallelFor

CONSTANTS
  Values,
  Default,         \* what a resized point set is filled with
  Smoothed(_, _)   \* the value for a point, given those of all points

ASSUME SmoothingAssumption ==
  /\ Default \in Values
  /\ \A i \in Items, v \in [Items -> Values] : Smoothed(i, v) \in Values

VARIABLES
  kind,         \* the pass: "geometry" or "colour"
  loop,         \* "smooth", "copy" or "done"
  reconstruct,  \* the value of each point
  temp,
  original      \* the values the pass was given (not in the code)

vars == <<kind, loop, reconstruct, temp, original, todo, busy>>

Init ==
  /\ kind \in {"geometry", "colour"}
  /\ loop = "smooth"
  /\ reconstruct \in [Items -> Values]
  /\ temp = IF kind = "geometry" THEN [i \in Items |-> Default] ELSE reconstruct
  /\ original = reconstruct
  /\ todo = Items
  /\ busy = Idle

TakePoint(w) ==
  /\ loop # "done"
  /\ \E i \in todo : Take(w, i)
  /\ UNCHANGED <<kind, loop, reconstruct, temp, original>>

(* mutant: the new value is stored in the vector the neighbours are read from *)
SmoothPoint_InPlace(w) ==
  /\ loop = "smooth"
  /\ busy[w] # NoItem
  /\ reconstruct' = [reconstruct EXCEPT ![busy[w]] = Smoothed(busy[w], reconstruct)]
  /\ temp' = [temp EXCEPT ![busy[w]] = reconstruct'[busy[w]]]
  /\ Release(w)
  /\ UNCHANGED <<kind, loop, original>>

SmoothPoint(w) ==
  /\ loop = "smooth"
  /\ busy[w] # NoItem
  /\ temp' = [temp EXCEPT ![busy[w]] = Smoothed(busy[w], reconstruct)]
  /\ Release(w)
  /\ UNCHANGED <<kind, loop, reconstruct, original>>

(* mutant: the copy begins while points are being smoothed *)
EndSmoothing_AllTaken ==
  /\ loop = "smooth"
  /\ todo = {}
  /\ loop' = "copy"
  /\ StartLoop
  /\ UNCHANGED <<kind, reconstruct, temp, original>>

EndSmoothing ==
  /\ loop = "smooth"
  /\ LoopEnded
  /\ loop' = "copy"
  /\ StartLoop
  /\ UNCHANGED <<kind, reconstruct, temp, original>>

(* the second loop of the colour pass is empty in a build with TBB *)
CopiesBack == kind = "geometry"

CopyPoint(w) ==
  /\ loop = "copy"
  /\ busy[w] # NoItem
  /\ reconstruct' = IF CopiesBack THEN [reconstruct EXCEPT ![busy[w]] = temp[busy[w]]] ELSE reconstruct
  /\ Release(w)
  /\ UNCHANGED <<kind, loop, temp, original>>

EndCopy ==
  /\ loop = "copy"
  /\ LoopEnded
  /\ loop' = "done"
  /\ UNCHANGED <<kind, reconstruct, temp, original, todo, busy>>

Next ==
  \/ \E w \in Workers : TakePoint(w) \/ SmoothPoint(w) \/ CopyPoint(w)
  \/ EndSmoothing
  \/ EndCopy

Spec == Init /\ [][Next]_vars

-----------------------------------------------------------------------------
TypeOK ==
  /\ LoopTypeOK
  /\ kind \in {"geometry", "colour"}
  /\ loop \in {"smooth", "copy", "done"}
  /\ reconstruct \in [Items -> Values]
  /\ temp \in [Items -> Values]
  /\ original \in [Items -> Values]

(* The pass is over for the abstract specification when the copy begins: from
   then on the temporary vector holds the result. *)
Rounds == INSTANCE SynchronousRounds WITH
  Points <- Items,
  Limit  <- 1,
  Rule   <- [i \in Items |-> [v \in [Items -> Values] |-> Smoothed(i, v)]],
  value  <- IF loop = "smooth" THEN reconstruct ELSE temp,
  round  <- IF loop = "smooth" THEN 0 ELSE 1

(* No point is smoothed with the smoothed value of another one: the pass is one
   simultaneous step of all points (the first loop of both functions). *)
Synchronous == Rounds!Spec

AllSmoothed == [i \in Items |-> Smoothed(i, original)]

(* When smoothPointCloud returns every point has its smoothed position, and
   while it copies each point has the old or the new one. *)
GeometrySmoothed ==
  kind = "geometry" =>
    /\ loop # "smooth" => \A i \in Items : reconstruct[i] \in {original[i], Smoothed(i, original)}
    /\ loop = "done" => reconstruct = AllSmoothed

(* When presmoothPointCloudColor returns every point has its smoothed colour:
   flagColorPreSmoothing is to "enable color pre-smoothing" (README.options.md,
   PccAppEncoder.cpp), and the loop of a build without TBB copies the colours
   back.  The code does not keep this. *)
ColoursSmoothed == kind = "colour" /\ loop = "done" => reconstruct = AllSmoothed
================================================================================
