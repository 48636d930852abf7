------------------------- MODULE GrantServerProofs -------------------------
(***************************************************************************)
(* Proofs about GrantServer, for all streams, fields, views, requests and  *)
(* ids.                                                                    *)
(***************************************************************************)
EXTENDS GrantServer, TLAPS

(* Every id that has been handed out leads to an issued grant: a token     *)
(* through its principal, a refresh token through its family, which is     *)
(* named by a refresh token that has been handed out itself.               *)
TokensBound ==
  \A t \in AccessTokens : tokens[t].kind # "none" =>
    tokens[t].grant \in GrantIds /\ grants[tokens[t].grant].issued

FamiliesBound ==
  \A r \in RefreshTokens : familyOf[r] # None =>
    /\ familyOf[familyOf[r]] # None
    /\ families[familyOf[r]].grant \in GrantIds
    /\ grants[families[familyOf[r]].grant].issued

RedeemedSuperseded ==
  \A r \in redeemed :
    /\ familyOf[r] # None
    /\ r \in families[familyOf[r]].superseded
    /\ families[familyOf[r]].current # r

ReusedRevoked == \A g \in reused : grants[g].issued /\ grants[g].revoked

IInv == TypeOK /\ TokensBound /\ FamiliesBound /\ RedeemedSuperseded /\ ReusedRevoked

-----------------------------------------------------------------------------
(* Whatever an entry asks for, resolveStreams answers with fields of       *)
(* streams.                                                                *)
LEMMA ResolveType ==
  ASSUME TypeOK, NEW entry \in Entries
  PROVE  Resolve(entry) \in SUBSET Pairs
<1> USE GrantAssumption DEF TypeOK, Pairs
<1>1. CASE entry \in [kind : {"all"}]
  BY <1>1 DEF Resolve
<1>2. CASE entry \in [kind : {"view"}, view : Views]
  BY <1>2 DEF Resolve
<1>3. CASE entry \in [kind : {"fields"}, stream : Streams, fields : SUBSET Fields]
  BY <1>3 DEF Resolve
<1> QED BY <1>1, <1>2, <1>3 DEF Entries

(* issueGrant keeps the types, and disturbs no grant but the fresh one. *)
LEMMA NewGrantStep ==
  ASSUME IInv, NEW g \in GrantIds, NEW t \in AccessTokens, NEW scope \in SUBSET Pairs,
         NEW view \in Views \cup {None}, NEW expired \in BOOLEAN, NEW supported \in BOOLEAN,
         NewGrant(g, t, scope, view, expired, supported),
         UNCHANGED <<views, familyOf, families, served, redeemed, reused>>,
         staged' \in [Handles -> Staging]
  PROVE  IInv'
<1> USE DEF IInv, NewGrant
<1>1. TypeOK'
  BY DEF TypeOK, Grant, Principal
<1>2. TokensBound'
  BY DEF TypeOK, TokensBound, Grant, Principal
<1>3. FamiliesBound'
  BY DEF TypeOK, FamiliesBound, Grant, Family
<1>4. RedeemedSuperseded'
  BY DEF RedeemedSuperseded
<1>5. ReusedRevoked'
  BY DEF TypeOK, ReusedRevoked
<1> QED BY <1>1, <1>2, <1>3, <1>4, <1>5

(* A grant that is issued stays issued, and one that is revoked stays so. *)
LEMMA RevokeStep ==
  ASSUME IInv, NEW g \in GrantIds, grants[g].issued,
         grants' = [grants EXCEPT ![g].revoked = TRUE],
         reused' \in {reused, reused \cup {g}},
         UNCHANGED <<views, tokens, familyOf, families, staged, served, redeemed>>
  PROVE  IInv'
<1> USE DEF IInv
<1>0. /\ [grants[g] EXCEPT !.revoked = TRUE] \in Grant
      /\ [grants[g] EXCEPT !.revoked = TRUE].issued = grants[g].issued
      /\ [grants[g] EXCEPT !.revoked = TRUE].revoked
  BY DEF TypeOK, Grant
<1>1. TypeOK'
  <2>1. grants' \in [GrantIds -> Grant]
    BY <1>0 DEF TypeOK
  <2>2. reused' \subseteq GrantIds
    BY DEF TypeOK
  <2> QED BY <2>1, <2>2 DEF TypeOK
<1>6. /\ \A k \in GrantIds : grants'[k].issued = grants[k].issued
      /\ \A k \in GrantIds : grants[k].revoked => grants'[k].revoked
      /\ grants'[g].revoked
  BY <1>0 DEF TypeOK
<1>2. TokensBound'
  BY <1>6 DEF TokensBound
<1>3. FamiliesBound'
  BY <1>6 DEF FamiliesBound
<1>4. RedeemedSuperseded'
  BY DEF RedeemedSuperseded
<1>5. ReusedRevoked'
  BY <1>6 DEF TypeOK, ReusedRevoked
<1> QED BY <1>1, <1>2, <1>3, <1>4, <1>5

(* The empty server satisfies the invariant. *)
LEMMA InitInv == Init => IInv
<1> SUFFICES ASSUME Init PROVE IInv
  OBVIOUS
<1>1. TypeOK
  BY GrantAssumption DEF Init, TypeOK, Grant, NoGrant, Principal, Family, NoFamily,
     Staging, NoStaging
<1>2. TokensBound /\ FamiliesBound /\ RedeemedSuperseded /\ ReusedRevoked
  BY DEF Init, TokensBound, FamiliesBound, RedeemedSuperseded, ReusedRevoked
<1> QED BY <1>1, <1>2 DEF IInv

-----------------------------------------------------------------------------
(* issueGrant keeps the invariant. *)
LEMMA IssueDirectlyInv ==
  ASSUME IInv, NEW g \in GrantIds, NEW t \in AccessTokens, NEW request \in Requests,
         IssueDirectly(request, g, t)
  PROVE  IInv'
<1>1. request.entry \in Entries
  BY GrantAssumption
<1>2. ViewOf(request.entry) \in Views \cup {None}
  BY <1>1 DEF ViewOf, Entries
<1>3. staged' \in [Handles -> Staging]
  BY DEF IssueDirectly, IInv, TypeOK
<1> QED BY <1>1, <1>2, <1>3, ResolveType, NewGrantStep DEF IssueDirectly, IssueGrant, IInv

(* approve keeps it: it issues from the staged request. *)
LEMMA ApproveInv ==
  ASSUME IInv, NEW g \in GrantIds, NEW t \in AccessTokens, NEW h \in Handles,
         Approve(h, g, t)
  PROVE  IInv'
<1> DEFINE request == staged[h].request
<1>1. request.entry \in Entries
  BY GrantAssumption DEF Approve, IInv, TypeOK, Staging
<1>2. ViewOf(request.entry) \in Views \cup {None}
  BY <1>1 DEF ViewOf, Entries
<1>3. staged' \in [Handles -> Staging]
  BY DEF Approve, IInv, TypeOK, Staging
<1> QED BY <1>1, <1>2, <1>3, ResolveType, NewGrantStep DEF Approve, IssueGrant, IInv

(* Grants issued expired, or with another schema version, keep it. *)
LEMMA OtherIssueInv ==
  ASSUME IInv, NEW g \in GrantIds, NEW t \in AccessTokens,
         \/ \E request \in Requests : IssueUnsupported(request, g, t)
         \/ IssueExpired(g, t)
  PROVE  IInv'
<1>1. staged' \in [Handles -> Staging]
  BY DEF IssueUnsupported, IssueExpired, IInv, TypeOK
<1>2. CASE \E request \in Requests : IssueUnsupported(request, g, t)
  <2>1. PICK request \in Requests : IssueUnsupported(request, g, t)
    BY <1>2
  <2>2. request.entry \in Entries
    BY GrantAssumption
  <2> QED BY <1>1, <2>1, <2>2, ResolveType, NewGrantStep DEF IssueUnsupported, IInv
<1>3. CASE IssueExpired(g, t)
  <2>1. [kind |-> "all"] \in Entries
    BY DEF Entries
  <2> QED BY <1>1, <1>3, <2>1, ResolveType, NewGrantStep DEF IssueExpired, IInv
<1> QED BY <1>2, <1>3

(* The rotation: the presented token moves to superseded for good, and the *)
(* successor, fresh, joins the family.                                     *)
LEMMA RedeemCurrentInv ==
  ASSUME IInv, NEW r \in RefreshTokens, NEW successor \in RefreshTokens,
         NEW t \in AccessTokens, RedeemCurrent(r, successor, t)
  PROVE  IInv'
<1> USE DEF IInv, RedeemCurrent
<1>1. TypeOK'
  BY DEF TypeOK, Family, Principal
<1>2. TokensBound'
  BY DEF TypeOK, TokensBound, FamiliesBound, Grant, Principal, Family
<1>3. FamiliesBound'
  BY DEF TypeOK, FamiliesBound, Grant, Family
<1>4. RedeemedSuperseded'
  <2>1. /\ redeemed \subseteq RefreshTokens
        /\ familyOf \in [RefreshTokens -> RefreshTokens \cup {None}]
        /\ families \in [RefreshTokens -> Family]
        /\ familyOf[r] \in RefreshTokens
        /\ successor # r
    BY DEF TypeOK
  <2> QED BY <2>1 DEF RedeemedSuperseded, Family
<1>5. ReusedRevoked'
  BY DEF ReusedRevoked
<1> QED BY <1>1, <1>2, <1>3, <1>4, <1>5

(* issueRefreshToken keeps it: the new family is its own root. *)
LEMMA IssueRefreshTokenInv ==
  ASSUME IInv, NEW g \in GrantIds, NEW r \in RefreshTokens, IssueRefreshToken(g, r)
  PROVE  IInv'
<1> USE DEF IInv, IssueRefreshToken
<1>1. TypeOK'
  BY DEF TypeOK, Family
<1>2. TokensBound'
  BY DEF TokensBound
<1>3. FamiliesBound'
  BY GrantAssumption DEF TypeOK, FamiliesBound, Family
<1>4. RedeemedSuperseded'
  BY DEF TypeOK, RedeemedSuperseded, FamiliesBound, Family
<1>5. ReusedRevoked'
  BY DEF ReusedRevoked
<1> QED BY <1>1, <1>2, <1>3, <1>4, <1>5

(* stageApproval keeps it: nothing is issued. *)
LEMMA StageApprovalInv ==
  ASSUME IInv, NEW request \in Requests, NEW h \in Handles, StageApproval(request, h)
  PROVE  IInv'
<1>1. Resolve(request.entry) \in SUBSET Pairs
  BY ResolveType, GrantAssumption DEF IInv
<1>2. TypeOK'
  BY <1>1 DEF StageApproval, IInv, TypeOK, Staging
<1>3. (TokensBound /\ FamiliesBound /\ RedeemedSuperseded /\ ReusedRevoked)'
  BY DEF StageApproval, IInv, TokensBound, FamiliesBound, RedeemedSuperseded, ReusedRevoked
<1> QED BY <1>2, <1>3 DEF IInv

(* widenView keeps it: no grant is read or written. *)
LEMMA WidenViewInv ==
  ASSUME IInv, NEW v \in Views, NEW f \in Fields, WidenView(v, f)
  PROVE  IInv'
<1>1. TypeOK'
  BY DEF WidenView, IInv, TypeOK
<1>2. (TokensBound /\ FamiliesBound /\ RedeemedSuperseded /\ ReusedRevoked)'
  BY DEF WidenView, IInv, TokensBound, FamiliesBound, RedeemedSuperseded, ReusedRevoked
<1> QED BY <1>1, <1>2 DEF IInv

(* mintTokenWithKind keeps it. *)
LEMMA MintInv ==
  ASSUME IInv, NEW g \in GrantIds, NEW t \in AccessTokens, MintTokenWithKind(g, t)
  PROVE  IInv'
<1>1. TypeOK'
  BY DEF MintTokenWithKind, IInv, TypeOK, Principal
<1>2. TokensBound'
  BY DEF MintTokenWithKind, IInv, TypeOK, TokensBound, Principal
<1>3. (FamiliesBound /\ RedeemedSuperseded /\ ReusedRevoked)'
  BY DEF MintTokenWithKind, IInv, FamiliesBound, RedeemedSuperseded, ReusedRevoked
<1> QED BY <1>1, <1>2, <1>3 DEF IInv

(* A read keeps it: what is served lies in the scope. *)
LEMMA ReadInv ==
  ASSUME IInv, NEW t \in AccessTokens, NEW v \in BOOLEAN, NEW s \in Streams,
         NEW asked \in SUBSET Fields, Read(t, v, s, asked)
  PROVE  IInv'
<1>1. tokens[t].grant \in GrantIds
  BY DEF Read, Status, IInv, TypeOK, TokensBound
<1>2. TypeOK'
  BY <1>1 DEF Read, GrantedFields, IInv, TypeOK, Grant
<1>3. (TokensBound /\ FamiliesBound /\ RedeemedSuperseded /\ ReusedRevoked)'
  BY DEF Read, IInv, TokensBound, FamiliesBound, RedeemedSuperseded, ReusedRevoked
<1> QED BY <1>2, <1>3 DEF IInv

(* Every step of the server keeps the invariant. *)
LEMMA StepInv == IInv /\ [Next]_vars => IInv'
<1> SUFFICES ASSUME IInv, [Next]_vars PROVE IInv'
  OBVIOUS
<1>1. CASE \E g \in GrantIds, t \in AccessTokens, request \in Requests :
             IssueDirectly(request, g, t) \/ IssueUnsupported(request, g, t)
  BY <1>1, IssueDirectlyInv, OtherIssueInv
<1>2. CASE \E g \in GrantIds, t \in AccessTokens : IssueExpired(g, t) \/ MintTokenWithKind(g, t)
  BY <1>2, OtherIssueInv, MintInv
<1>3. CASE \E request \in Requests, h \in Handles : StageApproval(request, h)
  BY <1>3, StageApprovalInv
<1>4. CASE \E h \in Handles, g \in GrantIds, t \in AccessTokens : Approve(h, g, t)
  BY <1>4, ApproveInv
<1>5. CASE \E v \in Views, f \in Fields : WidenView(v, f)
  BY <1>5, WidenViewInv
<1>6. CASE \E g \in GrantIds : RevokeGrant(g) \/ \E r \in RefreshTokens : IssueRefreshToken(g, r)
  <2>1. CASE \E g \in GrantIds : RevokeGrant(g)
    BY <2>1, RevokeStep DEF RevokeGrant
  <2>2. CASE \E g \in GrantIds, r \in RefreshTokens : IssueRefreshToken(g, r)
    BY <2>2, IssueRefreshTokenInv
  <2> QED BY <1>6, <2>1, <2>2
<1>7. CASE \E r \in RefreshTokens : RedeemSuperseded(r)
  <2>1. PICK r \in RefreshTokens : RedeemSuperseded(r)
    BY <1>7
  <2> DEFINE g == families[familyOf[r]].grant
  <2>2. g \in GrantIds /\ grants[g].issued
    BY <2>1 DEF RedeemSuperseded, IInv, FamiliesBound
  <2> QED BY <2>1, <2>2, RevokeStep DEF RedeemSuperseded
<1>8. CASE \E r, successor \in RefreshTokens, t \in AccessTokens : RedeemCurrent(r, successor, t)
  BY <1>8, RedeemCurrentInv
<1>9. CASE \E t \in AccessTokens, v \in BOOLEAN, s \in Streams, asked \in SUBSET Fields :
             Read(t, v, s, asked)
  BY <1>9, ReadInv
<1>10. CASE UNCHANGED vars
  BY <1>10 DEF vars, IInv, TypeOK, TokensBound, FamiliesBound, RedeemedSuperseded, ReusedRevoked
<1> QED BY <1>1, <1>2, <1>3, <1>4, <1>5, <1>6, <1>7, <1>8, <1>9, <1>10 DEF Next

(* The invariant holds throughout. *)
THEOREM Invariance == Spec => []IInv
<1>1. Init => IInv
  BY InitInv
<1>2. IInv /\ [Next]_vars => IInv'
  BY StepInv
<1> QED BY <1>1, <1>2, PTL DEF Spec

(* The states of this server are the ones its constructor, issueGrant and  *)
(* redeemRefreshToken are typed for.                                       *)
THEOREM Typed == Spec => []TypeOK
<1>1. IInv => TypeOK
  BY DEF IInv
<1> QED BY <1>1, Invariance, PTL

(* redeemRefreshToken: once a superseded refresh token has come back, no   *)
(* access token of its grant, minted before or after, is served again.     *)
THEOREM Reuse == Spec => []ReuseEndsGrant
<1>1. IInv => ReuseEndsGrant
  BY DEF IInv, ReuseEndsGrant, ReusedRevoked, Status, IntrospectActive, InForce
<1> QED BY <1>1, Invariance, PTL

(* redeemRefreshToken: no refresh token is exchanged twice. *)
THEOREM ExchangedOnce == Spec => []ExchangedAtMostOnce
<1>1. IInv => ExchangedAtMostOnce
  <2>1. IInv => RedeemedSuperseded
    BY DEF IInv
  <2>2. RedeemedSuperseded => ExchangedAtMostOnce
    BY DEF ExchangedAtMostOnce, RedeemedSuperseded
  <2> QED BY <2>1, <2>2
<1> QED BY <1>1, Invariance, PTL

-----------------------------------------------------------------------------
(* What was staged resolves to at least what it resolved to then, and what *)
(* was issued from it lies between the two.                                *)
StagedEntry(h) == staged[h].request.entry

ArtifactStaged(h) ==
  /\ staged[h].artifact \subseteq Resolve(StagedEntry(h))
  /\ StagedEntry(h).kind # "view" => staged[h].artifact = Resolve(StagedEntry(h))

GrantBetween(h) ==
  /\ staged[h].request # None
  /\ staged[h].grant \in GrantIds
  /\ grants[staged[h].grant].issued
  /\ staged[h].artifact \subseteq grants[staged[h].grant].scope
  /\ grants[staged[h].grant].scope \subseteq Resolve(StagedEntry(h))

StagedInv ==
  \A h \in Handles : /\ staged[h].request # None => ArtifactStaged(h)
                     /\ staged[h].grant # None => GrantBetween(h)

(* A step that leaves the views and the stagings alone, and the scope of   *)
(* every issued grant, keeps it.                                           *)
LEMMA StagedKept ==
  ASSUME StagedInv, UNCHANGED <<views, staged>>,
         \A g \in GrantIds : grants[g].issued =>
             grants'[g].issued /\ grants'[g].scope = grants[g].scope
  PROVE  StagedInv'
<1> SUFFICES ASSUME NEW h \in Handles
             PROVE  /\ staged'[h].request # None => ArtifactStaged(h)'
                    /\ staged'[h].grant # None => GrantBetween(h)'
  BY DEF StagedInv
<1>1. StagedEntry(h)' = StagedEntry(h) /\ Resolve(StagedEntry(h))' = Resolve(StagedEntry(h))
  BY DEF StagedEntry, Resolve
<1>2. ArtifactStaged(h) => ArtifactStaged(h)'
  BY <1>1 DEF ArtifactStaged
<1>3. GrantBetween(h) => GrantBetween(h)'
  BY <1>1 DEF GrantBetween
<1> QED BY <1>2, <1>3 DEF StagedInv

(* widenView only adds to what an entry resolves to, and nothing to one    *)
(* that names no view.                                                     *)
LEMMA ResolveGrows ==
  ASSUME TypeOK, NEW v \in Views, NEW f \in Fields, WidenView(v, f), NEW entry \in Entries
  PROVE  /\ Resolve(entry) \subseteq Resolve(entry)'
         /\ entry.kind # "view" => Resolve(entry)' = Resolve(entry)
<1> USE DEF TypeOK, WidenView, Resolve
<1>1. CASE entry \in [kind : {"all"}]
  BY <1>1
<1>2. CASE entry \in [kind : {"view"}, view : Views]
  <2>1. views[entry.view] \subseteq views'[entry.view]
    BY <1>2
  <2> QED BY <1>2, <2>1
<1>3. CASE entry \in [kind : {"fields"}, stream : Streams, fields : SUBSET Fields]
  BY <1>3
<1> QED BY <1>1, <1>2, <1>3 DEF Entries

(* issueGrant leaves the grants that are issued alone.                     *)
LEMMA NewGrantKeeps ==
  ASSUME TypeOK, NEW g \in GrantIds, NEW t, NEW scope, NEW view, NEW expired, NEW supported,
         NewGrant(g, t, scope, view, expired, supported)
  PROVE  /\ \A k \in GrantIds : grants[k].issued =>
              grants'[k].issued /\ grants'[k].scope = grants[k].scope
         /\ grants'[g].issued /\ grants'[g].scope = scope
  BY DEF TypeOK, NewGrant

(* Every step keeps it. *)
LEMMA StagedStep == IInv /\ StagedInv /\ [Next]_vars => StagedInv'
<1> SUFFICES ASSUME IInv, StagedInv, [Next]_vars PROVE StagedInv'
  OBVIOUS
<1>0. TypeOK /\ \A h \in Handles : staged[h].request # None => StagedEntry(h) \in Entries
  BY GrantAssumption DEF IInv, TypeOK, Staging, StagedEntry
<1>1. ASSUME NEW g \in GrantIds, NEW t \in AccessTokens, NEW request \in Requests,
             IssueDirectly(request, g, t) \/ IssueUnsupported(request, g, t) \/ IssueExpired(g, t)
      PROVE  StagedInv'
  BY <1>0, <1>1, NewGrantKeeps, StagedKept DEF IssueDirectly, IssueGrant, IssueUnsupported, IssueExpired
<1>2. ASSUME NEW g \in GrantIds, NEW t \in AccessTokens, IssueExpired(g, t)
      PROVE  StagedInv'
  BY <1>0, <1>2, NewGrantKeeps, StagedKept DEF IssueExpired
<1>3. ASSUME NEW request \in Requests, NEW h \in Handles, StageApproval(request, h)
      PROVE  StagedInv'
  <2>1. staged \in [Handles -> Staging] /\ request # None
    BY <1>0, GrantAssumption DEF TypeOK
  <2>2. /\ staged'[h] = [request |-> request, artifact |-> Resolve(request.entry), grant |-> None]
        /\ \A k \in Handles : k # h => staged'[k] = staged[k]
    BY <1>3, <2>1 DEF StageApproval
  <2>3. UNCHANGED <<views, grants>>
    BY <1>3 DEF StageApproval
  <2>4. ASSUME NEW k \in Handles
        PROVE  /\ staged'[k].request # None => ArtifactStaged(k)'
               /\ staged'[k].grant # None => GrantBetween(k)'
    <3>1. CASE k = h
      <4>0. StagedEntry(k)' = request.entry
        BY <2>2, <3>1 DEF StagedEntry
      <4>1. Resolve(StagedEntry(k))' = Resolve(request.entry)
        BY <2>3, <4>0 DEF Resolve
      <4> QED BY <2>2, <3>1, <4>1 DEF ArtifactStaged
    <3>2. CASE k # h
      <4>1. Resolve(StagedEntry(k))' = Resolve(StagedEntry(k))
        BY <2>2, <2>3, <3>2 DEF StagedEntry, Resolve
      <4>2. StagedEntry(k)' = StagedEntry(k)
        BY <2>2, <3>2 DEF StagedEntry
      <4>3. staged'[k] = staged[k]
        BY <2>2, <3>2
      <4>4. ArtifactStaged(k) => ArtifactStaged(k)'
        BY <4>1, <4>2, <4>3 DEF ArtifactStaged
      <4>5. GrantBetween(k) => GrantBetween(k)'
        BY <2>3, <4>1, <4>2, <4>3 DEF GrantBetween
      <4>6. /\ staged[k].request # None => ArtifactStaged(k)
            /\ staged[k].grant # None => GrantBetween(k)
        BY DEF StagedInv
      <4> QED BY <4>3, <4>4, <4>5, <4>6
    <3> QED BY <3>1, <3>2
  <2> QED BY <2>4 DEF StagedInv
<1>4. ASSUME NEW h \in Handles, NEW g \in GrantIds, NEW t \in AccessTokens, Approve(h, g, t)
      PROVE  StagedInv'
  <2>1. staged \in [Handles -> Staging]
    BY <1>0 DEF TypeOK
  <2>2. /\ staged'[h] = [staged[h] EXCEPT !.grant = g]
        /\ \A k \in Handles : k # h => staged'[k] = staged[k]
        /\ staged[h].request # None
    BY <1>4, <2>1 DEF Approve
  <2>3. /\ staged'[h].request = staged[h].request
        /\ staged'[h].artifact = staged[h].artifact
        /\ staged'[h].grant = g
        /\ staged[h].request # None
    BY <2>1, <2>2 DEF Staging
  <2>4. /\ \A k \in GrantIds : grants[k].issued =>
              grants'[k].issued /\ grants'[k].scope = grants[k].scope
        /\ grants'[g].issued /\ grants'[g].scope = Resolve(StagedEntry(h))
        /\ views' = views
    BY <1>0, <1>4, NewGrantKeeps DEF Approve, IssueGrant, StagedEntry
  <2>5. ASSUME NEW k \in Handles
        PROVE  /\ staged'[k].request # None => ArtifactStaged(k)'
               /\ staged'[k].grant # None => GrantBetween(k)'
    <3>1. StagedEntry(k)' = StagedEntry(k)
      BY <2>2, <2>3 DEF StagedEntry
    <3>2. Resolve(StagedEntry(k))' = Resolve(StagedEntry(k))
      BY <2>4, <3>1 DEF Resolve
    <3>3. CASE k = h
      <4>1. ArtifactStaged(h)
        BY <2>3 DEF StagedInv
      <4>2. ArtifactStaged(h)'
        BY <2>3, <3>1, <3>2, <3>3, <4>1 DEF ArtifactStaged
      <4>3. GrantBetween(h)'
        BY <2>3, <2>4, <3>2, <3>3, <4>1 DEF ArtifactStaged, GrantBetween
      <4> QED BY <3>3, <4>2, <4>3
    <3>4. CASE k # h
      BY <2>2, <2>4, <3>1, <3>2, <3>4 DEF StagedInv, ArtifactStaged, GrantBetween
    <3> QED BY <3>3, <3>4
  <2> QED BY <2>5 DEF StagedInv
<1>5. ASSUME NEW v \in Views, NEW f \in Fields, WidenView(v, f)
      PROVE  StagedInv'
  <2>1. ASSUME NEW h \in Handles, staged[h].request # None
        PROVE  /\ Resolve(StagedEntry(h)) \subseteq Resolve(StagedEntry(h))'
               /\ StagedEntry(h).kind # "view" =>
                    Resolve(StagedEntry(h))' = Resolve(StagedEntry(h))
    <3>1. StagedEntry(h) \in Entries /\ StagedEntry(h)' = StagedEntry(h)
      BY <1>0, <1>5, <2>1 DEF WidenView, StagedEntry
    <3> QED BY <1>0, <1>5, <3>1, ResolveGrows DEF Resolve
  <2>2. UNCHANGED <<grants, staged>>
    BY <1>5 DEF WidenView
  <2> QED BY <2>1, <2>2 DEF StagedInv, ArtifactStaged, GrantBetween, StagedEntry
<1>6. ASSUME NEW g \in GrantIds, grants' = [grants EXCEPT ![g].revoked = TRUE],
             UNCHANGED <<views, staged>>
      PROVE  StagedInv'
  <2>1. \A k \in GrantIds : grants'[k].issued = grants[k].issued /\ grants'[k].scope = grants[k].scope
    BY <1>0, <1>6 DEF TypeOK, Grant
  <2> QED BY <1>6, <2>1, StagedKept
<1>7. CASE \E r \in RefreshTokens : RedeemSuperseded(r)
  <2>1. PICK r \in RefreshTokens : RedeemSuperseded(r)
    BY <1>7
  <2>2. families[familyOf[r]].grant \in GrantIds
    BY <2>1 DEF RedeemSuperseded, IInv, FamiliesBound
  <2> QED BY <1>6, <2>1, <2>2 DEF RedeemSuperseded
<1>8. CASE UNCHANGED <<views, grants, staged>>
  BY <1>8, StagedKept
<1>9. CASE \/ \E g \in GrantIds, t \in AccessTokens : MintTokenWithKind(g, t)
           \/ \E g \in GrantIds, r \in RefreshTokens : IssueRefreshToken(g, r)
           \/ \E r, successor \in RefreshTokens, t \in AccessTokens : RedeemCurrent(r, successor, t)
           \/ \E t \in AccessTokens, v \in BOOLEAN, s \in Streams, asked \in SUBSET Fields :
                 Read(t, v, s, asked)
           \/ UNCHANGED vars
  BY <1>8, <1>9 DEF MintTokenWithKind, IssueRefreshToken, RedeemCurrent, Read, vars
<1> QED BY <1>1, <1>2, <1>3, <1>4, <1>5, <1>6, <1>7, <1>9 DEF Next, RevokeGrant

(* approve: what the owner reviewed is what the grant carries, but for the *)
(* fields a view gained in between.                                        *)
THEOREM Approvals == Spec => []ApprovalOnlyWidens
<1>1. Init => StagedInv
  BY DEF Init, NoStaging, StagedInv
<1>2. IInv /\ StagedInv /\ [Next]_vars => StagedInv'
  BY StagedStep
<1>3. StagedInv => ApprovalOnlyWidens
  BY DEF StagedInv, ArtifactStaged, GrantBetween, StagedEntry, ApprovalOnlyWidens
<1> QED BY <1>1, <1>2, <1>3, Invariance, PTL DEF Spec

-----------------------------------------------------------------------------
(* The state of a grant as ConsentedAccess sees it. *)
GrantStatus(g) == IF ~grants[g].issued THEN "none" ELSE IF InForce(g) THEN "active" ELSE "ended"

ConsentStutter ==
  /\ \A g \in GrantIds : grants'[g].scope = grants[g].scope /\ GrantStatus(g)' = GrantStatus(g)
  /\ served' = served

(* A step that leaves grants and responses alone stutters for ConsentedAccess. *)
LEMMA RefineStutter == ConsentStutter => UNCHANGED Consent!avars
  BY DEF ConsentStutter, GrantStatus, Consent!avars

(* Issuance is the Issue step of the abstract specification. *)
LEMMA RefineIssue ==
  ASSUME TypeOK, NEW g \in GrantIds, NEW t \in AccessTokens, NEW scope \in SUBSET Pairs,
         NEW view, NEW expired \in BOOLEAN, NEW supported,
         NewGrant(g, t, scope, view, expired, supported), served' = served
  PROVE  Consent!Issue(g)
  BY DEF TypeOK, NewGrant, Consent!Issue, InForce, Grant

(* Revocation is its End step, or nothing if the grant had ended. *)
LEMMA RefineRevoke ==
  ASSUME TypeOK, NEW g \in GrantIds, grants[g].issued,
         grants' = [grants EXCEPT ![g].revoked = TRUE], served' = served
  PROVE  Consent!End(g) \/ UNCHANGED Consent!avars
<1>1. CASE InForce(g)
  BY <1>1 DEF TypeOK, Consent!End, InForce, Grant
<1>2. CASE ~InForce(g)
  BY <1>2 DEF TypeOK, Consent!avars, InForce, Grant
<1> QED BY <1>1, <1>2

(* A read is its Serve step. *)
LEMMA RefineRead ==
  ASSUME IInv, NEW t \in AccessTokens, NEW v \in BOOLEAN, NEW s \in Streams,
         NEW asked \in SUBSET Fields, Read(t, v, s, asked)
  PROVE  Consent!Serve(tokens[t].grant) /\ tokens[t].grant \in GrantIds
<1> DEFINE g == tokens[t].grant
<1>1. g \in GrantIds /\ grants[g].issued /\ InForce(g)
  BY DEF Read, Status, IInv, TokensBound
<1> DEFINE shown == {q \in GrantedFields(g) : q[1] = s /\ q[2] \in Declared[s] \cap asked}
<1>2. served' = [served EXCEPT ![g] = shown] /\ grants' = grants
  BY DEF Read
<1>3. shown \in SUBSET grants[g].scope
  BY DEF GrantedFields
<1> HIDE DEF shown, g
<1>4. \E p \in SUBSET [k \in GrantIds |-> grants[k].scope][g] : served' = [served EXCEPT ![g] = p]
  BY <1>1, <1>2, <1>3
<1>5. UNCHANGED <<[k \in GrantIds |-> GrantStatus(k)], [k \in GrantIds |-> grants[k].scope]>>
  BY <1>2 DEF GrantStatus, InForce
<1>6. Consent!Serve(g)
  BY <1>1, <1>4, <1>5 DEF Consent!Serve, GrantStatus
<1> QED BY <1>1, <1>6 DEF g

(* The initial states of the server map to initial states. *)
LEMMA RefineInit == Init => Consent!Init
  BY DEF Init, NoGrant, Consent!Init

(* Every step of the server maps to a step of ConsentedAccess, or a stutter. *)
LEMMA RefineNext == IInv /\ IInv' /\ [Next]_vars => [Consent!Next]_(Consent!avars)
<1> SUFFICES ASSUME IInv, IInv', [Next]_vars
             PROVE  Consent!Next \/ UNCHANGED Consent!avars
  BY Zenon
<1> USE DEF Consent!Next
<1>1. ASSUME NEW g \in GrantIds, NEW t \in AccessTokens, NEW request \in Requests,
             IssueDirectly(request, g, t) \/ IssueUnsupported(request, g, t)
      PROVE  Consent!Next
  <2>1. Resolve(request.entry) \in SUBSET Pairs
    BY ResolveType, GrantAssumption DEF IInv
  <2> QED BY <1>1, <2>1, RefineIssue DEF IssueDirectly, IssueGrant, IssueUnsupported, IInv
<1>2. ASSUME NEW g \in GrantIds, NEW t \in AccessTokens, IssueExpired(g, t)
      PROVE  Consent!Next
  <2>1. [kind |-> "all"] \in Entries
    BY DEF Entries
  <2> QED BY <1>2, <2>1, ResolveType, RefineIssue DEF IssueExpired, IInv
<1>3. ASSUME NEW h \in Handles, NEW g \in GrantIds, NEW t \in AccessTokens, Approve(h, g, t)
      PROVE  Consent!Next
  <2>1. staged[h].request \in Requests
    BY <1>3 DEF Approve, IInv, TypeOK, Staging
  <2>2. Resolve(staged[h].request.entry) \in SUBSET Pairs
    BY <2>1, ResolveType, GrantAssumption DEF IInv
  <2> QED BY <1>3, <2>2, RefineIssue DEF Approve, IssueGrant, IInv
<1>4. ASSUME NEW g \in GrantIds, RevokeGrant(g)
      PROVE  Consent!Next \/ UNCHANGED Consent!avars
  BY <1>4, RefineRevoke DEF RevokeGrant, IInv
<1>5. ASSUME NEW r \in RefreshTokens, RedeemSuperseded(r)
      PROVE  Consent!Next \/ UNCHANGED Consent!avars
  <2> DEFINE g == families[familyOf[r]].grant
  <2>1. g \in GrantIds /\ grants[g].issued
    BY <1>5 DEF RedeemSuperseded, IInv, FamiliesBound
  <2> QED BY <1>5, <2>1, RefineRevoke DEF RedeemSuperseded, IInv
<1>6. ASSUME NEW t \in AccessTokens, NEW v \in BOOLEAN, NEW s \in Streams,
             NEW asked \in SUBSET Fields, Read(t, v, s, asked)
      PROVE  Consent!Next
  BY <1>6, RefineRead
<1>7. ASSUME UNCHANGED <<grants, served>>
      PROVE  UNCHANGED Consent!avars
  BY <1>7, RefineStutter DEF ConsentStutter, GrantStatus, InForce
<1> HIDE DEF Consent!Next
<1>8. CASE \/ \E g \in GrantIds, t \in AccessTokens : MintTokenWithKind(g, t)
           \/ \E request \in Requests, h \in Handles : StageApproval(request, h)
           \/ \E v \in Views, f \in Fields : WidenView(v, f)
           \/ \E g \in GrantIds, r \in RefreshTokens : IssueRefreshToken(g, r)
           \/ \E r, successor \in RefreshTokens, t \in AccessTokens : RedeemCurrent(r, successor, t)
           \/ UNCHANGED vars
  <2>1. UNCHANGED <<grants, served>>
    BY <1>8 DEF MintTokenWithKind, StageApproval, WidenView, IssueRefreshToken, RedeemCurrent, vars
  <2> QED BY <1>7, <2>1
<1> QED BY <1>1, <1>2, <1>3, <1>4, <1>5, <1>6, <1>8 DEF Next

(* The grants of the reference target keep the promise of ConsentedAccess: *)
(* nothing is served before issue, after revocation, expiry or reuse, nor  *)
(* beyond the fields resolved at issue, however views and families evolve. *)
THEOREM Refinement == Spec => KeepsConsent
<1>1. Init => Consent!Init
  BY RefineInit
<1>2. IInv /\ IInv' /\ [Next]_vars => [Consent!Next]_(Consent!avars)
  BY RefineNext
<1> QED BY <1>1, <1>2, Invariance, PTL DEF Spec, KeepsConsent, Consent!Spec
============================================================================
