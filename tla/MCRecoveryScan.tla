--------------------------- MODULE MCRecoveryScan ---------------------------
(* Names in the code's order: a cleanup journal, a quarantine, a run-* root.   *)
EXTENDS RecoveryScan

MCNames == 1..3
MCCost == <<1, 0, 2>>
=============================================================================
