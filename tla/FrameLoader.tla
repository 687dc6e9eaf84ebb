------------------------------ MODULE FrameLoader ------------------------------
(***************************************************************************)
(* PCCGroupOfFrames::load: a parallel loop reads the files of a group of   *)
(* frames into the elements of a vector.  A task whose file is missing     *)
(* makes the vector end at its own frame, while other tasks hold references*)
(* to elements behind it, or have not taken theirs yet.                    *)
(*                                                                         *)
(* A resize destroys the elements that are cut off and fills those that are*)
(* added with empty point sets; the vector has been made for the whole     *)
(* group before, so that it never moves.  A task that uses an element that *)
(* does not exist, or is destroyed while its file is read into it, and two *)
(* resizes at a time have no defined outcome: the model records the fault  *)
(* and stops.                                                              *)
(***************************************************************************)
EXTENDS ParallelFor, Integers, FiniteSetsExt

CONSTANT FrameCount    \* endFrameNumber - startFrameNumber

ASSUME FrameAssumption == FrameCount \in Nat \ {0} /\ Items = 0 .. FrameCount - 1

VARIABLES
  missing,   \* the frames that have no file
  size,      \* frames_.size()
  element,   \* what each element of the vector holds
  resizing,  \* the workers that are in frames_.resize
  fault,     \* "none", "index", "destroyed" or "overlap"
  returned

vars == <<missing, size, element, resizing, fault, returned, todo, busy>>

Init ==
  /\ missing \in SUBSET Items
  /\ size = FrameCount
  /\ element = [k \in Items |-> "empty"]
  /\ resizing = {}
  /\ fault = "none"
  /\ returned = FALSE
  /\ todo = Items
  /\ busy = Idle

(* one worker goes through the range from its start; several share it out *)
InOrder(i) == Cardinality(Workers) = 1 => i = Min(todo)

(* auto& pointSet = frames_[frameNumber - startFrameNumber]; resize( 0 ) *)
TakeFrame(w) ==
  /\ fault = "none"
  /\ \E i \in todo :
       /\ InOrder(i)
       /\ Take(w, i)
       /\ IF i < size THEN element' = [element EXCEPT ![i] = "empty"] /\ UNCHANGED fault
          ELSE fault' = "index" /\ UNCHANGED element
  /\ UNCHANGED <<missing, size, resizing, returned>>

(* mutant: the frame is left as it was taken *)
ReadFrame_NotFilled(w) ==
  /\ fault = "none"
  /\ busy[w] \in Items \ missing
  /\ Release(w)
  /\ UNCHANGED <<missing, size, element, resizing, fault, returned>>

ReadFrame(w) ==
  /\ fault = "none"
  /\ busy[w] \in Items \ missing
  /\ element' = [element EXCEPT ![busy[w]] = "loaded"]
  /\ Release(w)
  /\ UNCHANGED <<missing, size, resizing, fault, returned>>

(* mutant: a file that cannot be opened is tried again later *)
BeginResize_Retried(w) ==
  /\ fault = "none"
  /\ busy[w] \in missing
  /\ todo' = todo \cup {busy[w]}
  /\ busy' = [busy EXCEPT ![w] = NoItem]
  /\ UNCHANGED <<missing, size, element, resizing, fault, returned>>

(* the file cannot be opened: frames_.resize is called, perhaps while another
   task is in it *)
BeginResize(w) ==
  /\ fault = "none"
  /\ busy[w] \in missing
  /\ w \notin resizing
  /\ resizing' = resizing \cup {w}
  /\ fault' = IF resizing = {} THEN "none" ELSE "overlap"
  /\ UNCHANGED <<missing, size, element, returned, todo, busy>>

(* mutant: the missing frame is kept *)
NewSize_PlusOne(i) == i + 1

(* mutant: one frame too many is cut off *)
NewSize_MinusOne(i) == i - 1

NewSize(i) == i

Resized(n) ==
  [k \in Items |-> IF k >= n THEN "destroyed" ELSE IF k >= size THEN "empty" ELSE element[k]]

(* some other task reads a file into an element that n cuts off *)
CutsReader(n) == \E v \in Workers : busy[v] \in Items \ missing /\ busy[v] >= n

EndResize(w) ==
  /\ fault = "none"
  /\ w \in resizing
  /\ LET n == NewSize(busy[w])
     IN  /\ size' = n
         /\ element' = Resized(n)
         /\ fault' = IF CutsReader(n) THEN "destroyed" ELSE "none"
  /\ resizing' = resizing \ {w}
  /\ Release(w)
  /\ UNCHANGED <<missing, returned>>

Return ==
  /\ fault = "none"
  /\ LoopEnded
  /\ ~returned
  /\ returned' = TRUE
  /\ UNCHANGED <<missing, size, element, resizing, fault, todo, busy>>

Next ==
  \/ \E w \in Workers : TakeFrame(w) \/ ReadFrame(w) \/ BeginResize(w) \/ EndResize(w)
  \/ Return

Spec == Init /\ [][Next]_vars

FairSpec == Spec /\ WF_vars(Next)

-----------------------------------------------------------------------------
TypeOK ==
  /\ LoopTypeOK
  /\ missing \subseteq Items
  /\ size \in 0 .. FrameCount
  /\ element \in [Items -> {"empty", "loaded", "destroyed"}]
  /\ resizing \subseteq {w \in Workers : busy[w] \in missing}
  /\ fault \in {"none", "index", "destroyed", "overlap"}
  /\ returned \in BOOLEAN

(* Loading is safe where at most the last frame of the group has no file: its
   task cuts off its own element and no other task ever has to do with that
   one, whatever the order. *)
LastMayBeMissing == missing \subseteq {FrameCount - 1} => fault = "none"

(* The number of frames the encoder goes on with is the group's, or else the
   number of one of the missing ones: what V3CGroups takes it to be where the
   missing files are those at the end. *)
CountIsOfMissing == returned => size \in IF missing = {} THEN {FrameCount} ELSE missing

(* Every frame the encoder goes on with has been read from its file, if no frame
   before it is missing. *)
LoadedUpToGap ==
  returned => \A k \in 0 .. size - 1 : element[k] = "loaded" \/ \E m \in missing : m <= k

(* The load comes to an end, by returning or by a fault. *)
Ends == <>(returned \/ fault # "none")
================================================================================
