---------------------------- MODULE MCLeafCapture ----------------------------
(* Instances of LeafCapture for TLC. *)
EXTENDS LeafCapture, TLC

CaptureSymmetry == Permutations(Captures)
=============================================================================
