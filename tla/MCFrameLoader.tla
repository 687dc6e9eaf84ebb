---------------------------- MODULE MCFrameLoader ----------------------------
(* A TLC instance of FrameLoader with two workers.                          *)
EXTENDS FrameLoader

CONSTANTS w1, w2

MCItems      == 0 .. FrameCount - 1
MCWorkers    == {w1, w2}
=============================================================================
