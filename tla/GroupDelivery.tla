---------------------------- MODULE GroupDelivery ----------------------------
(***************************************************************************)
(* What coding a sequence in groups of frames promises: the coder cuts     *)
(* the sequence into consecutive groups, and the reconstruction receives   *)
(* every group once, in order, under the frame number it was coded with.   *)
(* V3CGroups (the two programs and the unit list between them) is shown to *)
(* implement this.                                                         *)
(***************************************************************************)
EXTENDS Naturals, Sequences

CONSTANT GofSize   \* a group has at most this many frames

VARIABLES
  coded,      \* the groups: [ start, count ]
  delivered   \* the groups handed to the reconstruction

vars == <<coded, delivered>>

(* the frame after the last group *)
EndOf(groups) ==
  IF groups = <<>> THEN 0
  ELSE groups[Len(groups)].start + groups[Len(groups)].count

Init == coded = <<>> /\ delivered = <<>>

(* groups are coded before the first is delivered, and leave no gap *)
Code ==
  /\ delivered = <<>>
  /\ \E count \in 1 .. GofSize :
        coded' = Append(coded, [start |-> EndOf(coded), count |-> count])
  /\ UNCHANGED delivered

Deliver ==
  /\ Len(delivered) < Len(coded)
  /\ delivered' = Append(delivered, coded[Len(delivered) + 1])
  /\ UNCHANGED coded

Next == Code \/ Deliver

Spec == Init /\ [][Next]_vars
=============================================================================
