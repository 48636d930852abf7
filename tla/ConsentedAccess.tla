-------------------------- MODULE ConsentedAccess --------------------------
(***************************************************************************)
(* What an owner is promised when approving a grant, whatever the server   *)
(* behind it does: a client is served under a grant only between its issue *)
(* and its end, and never a field outside what the grant was issued for.   *)
(* A grant that has ended never starts again.                              *)
(***************************************************************************)
CONSTANTS GrantIds, Pairs      \* grants, and the (stream, field) pairs

VARIABLES
  status,    \* "none", "active" or "ended", per grant
  scope,     \* the pairs each grant was issued for
  access     \* the last thing served under each grant

avars == <<status, scope, access>>

Init ==
  /\ status = [g \in GrantIds |-> "none"]
  /\ scope = [g \in GrantIds |-> {}]
  /\ access = [g \in GrantIds |-> {}]

Issue(g) ==
  /\ status[g] = "none"
  /\ \E s \in {"active", "ended"} : status' = [status EXCEPT ![g] = s]
  /\ \E p \in SUBSET Pairs : scope' = [scope EXCEPT ![g] = p]
  /\ UNCHANGED access

End(g) ==
  /\ status[g] = "active"
  /\ status' = [status EXCEPT ![g] = "ended"]
  /\ UNCHANGED <<scope, access>>

Serve(g) ==
  /\ status[g] = "active"
  /\ \E p \in SUBSET scope[g] : access' = [access EXCEPT ![g] = p]
  /\ UNCHANGED <<status, scope>>

Next == \E g \in GrantIds : Issue(g) \/ End(g) \/ Serve(g)

Spec == Init /\ [][Next]_avars
=============================================================================
