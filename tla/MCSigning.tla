----------------------------- MODULE MCSigning -----------------------------
EXTENDS Signing, TLC

CONSTANT Signers    \* bound: the submissions whose links are used

Symmetry == Permutations(Signers) \cup Permutations(Requests)

(* Bounds.  A link can be used only after its mail, and its request reads and *)
(* writes nothing of the limiter or of another submission.  So the limiter is *)
(* run with every submission and window, and the links with the submissions   *)
(* of Signers once these are at rest in the first window.  The years pass     *)
(* while links are used; unused requests carry the id of one submission.      *)
Unused == CHOOSE i \in Ids : i \notin Signers

NoLinkUsed == \A q \in Requests : req[q].kind = "none"

AtRest == /\ windows = 1 /\ rate > 0
          /\ \A i \in Ids : form[i] \in IF i \in Signers THEN {"new", "sent", "unheard"}
                                                         ELSE {"new"}

Bound == /\ IF NoLinkUsed THEN year = 0 ELSE AtRest
         /\ \A q \in Requests : req[q].kind = "none" => req[q].id = Unused
=============================================================================
