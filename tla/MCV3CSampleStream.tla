-------------------------- MODULE MCV3CSampleStream --------------------------
(* Bytes of two bits: sizes around 4, 16 and between. *)
EXTENDS V3CSampleStream

MCSizes == {1, 3, 4, 5, 15, 16, 17}
=============================================================================
