--------------------------- MODULE MCRunAuthority ---------------------------
(* Instances of RunAuthority for TLC. *)
EXTENDS RunAuthority, TLC

CONSTANTS a, b, c, d, e, f

MCPos == (a :> 1) @@ (b :> 2) @@ (c :> 3) @@ (d :> 4) @@ (e :> 5) @@ (f :> 6)
=============================================================================
