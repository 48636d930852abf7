---------------------------- MODULE MCSyncServer ----------------------------
(* Instances of SyncServer for TLC. *)
EXTENDS SyncServer, TLC

CONSTANTS a, b, d, f, g, full, partial

MCPos == (a :> 1) @@ (b :> 2) @@ (d :> 3)
MCProjectionFull == full :> {f, g}
MCProjectionPartial == partial :> {f}
=============================================================================
