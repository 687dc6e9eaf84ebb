----------------------------- MODULE MCV3CGroups -----------------------------
(* The sequence and its groups with sizes that tell the unit types apart.  *)
EXTENDS V3CGroups

MCSizeChoices ==
  {[t \in UnitTypes |-> CASE t = "VPS" -> 10 [] t = "AD" -> 7 [] t = "OVD" -> 6 [] t = "GVD" -> 9 [] OTHER -> 12],
   [t \in UnitTypes |-> CASE t = "VPS" -> 13 [] t = "AD" -> 30 [] t = "OVD" -> 8 [] t = "GVD" -> 5 [] OTHER -> 16]}
=============================================================================
