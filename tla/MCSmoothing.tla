----------------------------- MODULE MCSmoothing -----------------------------
(* A TLC instance of both smoothing modules: three points, and workers that  *)
(* smooth either the normals of a cloud, in place, or the cloud itself.      *)
EXTENDS NormalSmoothing, ParallelSmoothing, TLC

CONSTANTS w1, w2

VARIABLE pass   \* which of the two, "normals" or "cloud"

MCItems    == 1 .. 3
MCWorkers  == {w1, w2}
MCSymmetry == Permutations(MCWorkers)

(* one point has both others as neighbours, or each one of them; the nearest first *)
MCNeighbourhoods == {<<<<2>>, <<3, 1>>, <<2>>>>, <<<<3>>, <<1>>, <<2>>>>}

(* the rounded mean of the values around a point on a line *)
MCSmoothed(i, v) ==
  LET left  == v[IF i = 1 THEN 1 ELSE i - 1]
      right == v[IF i = 3 THEN 3 ELSE i + 1]
  IN  (left + v[i] + right + 1) \div 3

normalsOnly == <<threads, neighbours, version, madeOf, work, iteration>>
cloudOnly   == <<kind, loop, reconstruct, temp, original>>

MCInit ==
  /\ NormalsInit /\ Init
  /\ \/ pass = "normals" /\ kind = "geometry" /\ reconstruct = [i \in Items |-> Default]
     \/ pass = "cloud" /\ threads = Workers /\ neighbours = <<<<2>>, <<3, 1>>, <<2>>>>

MCNext ==
  \/ pass = "normals" /\ NormalsNext /\ UNCHANGED <<cloudOnly, pass>>
  \/ pass = "cloud" /\ Next /\ UNCHANGED <<normalsOnly, pass>>

MCSpec == MCInit /\ [][MCNext]_<<normalsOnly, cloudOnly, todo, busy, pass>>
==============================================================================
