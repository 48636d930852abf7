--------------------------- MODULE MCGrantServer ---------------------------
(* Instances of GrantServer for TLC. *)
EXTENDS GrantServer, TLC

CONSTANTS s1, s2, f1, f2, v1

MCDeclared == (s1 :> {f1, f2}) @@ (s2 :> {f1})
MCViewStream == v1 :> s1
MCInitialViews == v1 :> {f1}

Ask(entry) == [entry |-> entry, singleUse |-> FALSE, consented |-> TRUE]

(* A view, a stream without a field list; and the two refusals. *)
MCRequests ==
  { Ask([kind |-> "view", view |-> v1]),
    Ask([kind |-> "fields", stream |-> s2, fields |-> {}]),
    [Ask([kind |-> "all"]) EXCEPT !.consented = FALSE],
    [Ask([kind |-> "all"]) EXCEPT !.singleUse = TRUE] }

Fresh == Permutations(GrantIds) \cup Permutations(AccessTokens) \cup Permutations(RefreshTokens)
============================================================================
