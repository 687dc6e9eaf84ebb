--------------------------- MODULE MCVideoByteStream ---------------------------
(* A TLC instance of VideoByteStream: up to three units of each coding, among *)
(* them the shortest legal ones, such that look like a part of a start code,  *)
(* and a type on either side of those with a long start code.  An AVC video   *)
(* is converted with or without the flag that says so, as the decoder sets it *)
(* for one of its AVC codecs only.                                            *)
EXTENDS VideoByteStream

MCCodings ==
  {<<"avc", TRUE, FALSE>>, <<"avc", FALSE, FALSE>>, <<"hevc", FALSE, FALSE>>, <<"vvc", FALSE, TRUE>>}

MCUnits ==
  [avc  |-> {<<11>>, <<103, 0, 0, 3, 1>>, <<65, 1>>, <<1, 0, 1>>},
   hevc |-> {<<0, 1>>, <<2, 1, 0, 0, 3>>, <<62, 1>>, <<64, 1, 0, 1>>, <<80, 1>>, <<82, 1, 1>>},
   vvc  |-> {<<0, 1>>, <<0, 1, 0, 0, 3>>, <<0, 89>>, <<0, 97, 0, 1>>, <<0, 153>>, <<0, 161, 1>>}]
================================================================================
