-------------------------- MODULE MCAtlasFrameOrder --------------------------
(* A TLC instance of AtlasFrameOrder: what a read past the end may return.    *)
EXTENDS AtlasFrameOrder

MCGarbage == {-3, 0, 2, 9}
=============================================================================
