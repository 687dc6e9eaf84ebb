-------------------------- MODULE MCPatchMatching --------------------------
(* A TLC instance of PatchMatching: three frames of two tiles, and kinds of  *)
(* patches that differ from the first one in one respect each.               *)
EXTENDS PatchMatching

CONSTANTS v1, v2, o1, o2

MCViews        == {v1, v2}
MCOrientations == {o1, o2}

MCSegment(v, t, o, e) == [view |-> v, tile |-> t, orient |-> o, eom |-> e]

MCPlain == {MCSegment(v1, 0, o1, FALSE), MCSegment(v2, 0, o1, FALSE),
            MCSegment(v1, 1, o1, FALSE), MCSegment(v1, 0, o2, FALSE)}

MCEom == {MCSegment(v1, 0, o1, TRUE), MCSegment(v1, 0, o1, FALSE), MCSegment(v1, 1, o1, TRUE)}

MCSegments == MCPlain \cup MCEom

MCMode(n, r, e) == [refs |-> n, reverse |-> r, eom |-> e]

(* with several reference frames, reversed with one, and both; with EOM points
   reversed, and in order with several reference frames *)
MCModes == {MCMode(2, FALSE, FALSE), MCMode(1, TRUE, FALSE), MCMode(2, TRUE, FALSE),
            MCMode(1, TRUE, TRUE), MCMode(2, FALSE, TRUE)}

(* up to two patches of every kind; with EOM points up to three, of which one is
   in the second tile, so that the first one has patches with and without them;
   with EOM points and several references two *)
MCSegmentations ==
  [m \in MCModes |->
     IF ~m.eom THEN BoundedSeq(MCPlain, 2)
     ELSE {list \in BoundedSeq(MCEom, IF m.refs = 1 THEN 3 ELSE 2) :
             \E i \in DOMAIN list : \A j \in DOMAIN list : list[j].tile = 1 <=> j = i}]
=============================================================================
