----------------------------- MODULE GrantServer -----------------------------
(***************************************************************************)
(* Grants, access tokens and refresh-token families of the conformance     *)
(* suite's reference target, and the gates of its resource server:         *)
(* packages/conformance-suite/src/targets/reference-server.ts and, for     *)
(* staging, view resolution and issuance, reference-adapter.ts.            *)
(*                                                                         *)
(* What is abstracted: ids drawn from the server's counter are fresh       *)
(* members of the sets below; a request names all streams, one view, or    *)
(* one stream with its fields; a response is its status and the            *)
(* (stream, field) pairs its body discloses.                               *)
(***************************************************************************)
EXTENDS Naturals

CONSTANTS
  Streams, Fields,
  Declared,       \* the fields of each stream
  Views,          \* the views, each of one stream
  ViewStream,
  InitialViews,   \* their fields at start
  Requests,       \* the requests clients make
  GrantIds, AccessTokens, RefreshTokens, Handles,  \* fresh ids
  None            \* no grant, view, family or request

Pairs == Streams \X Fields

Entries ==
       [kind : {"all"}]
  \cup [kind : {"view"}, view : Views]
  \cup [kind : {"fields"}, stream : Streams, fields : SUBSET Fields]

ASSUME GrantAssumption ==
  /\ Declared \in [Streams -> (SUBSET Fields) \ {{}}]
  /\ ViewStream \in [Views -> Streams]
  /\ InitialViews \in [Views -> (SUBSET Fields) \ {{}}]
  /\ Requests \subseteq [entry : Entries, singleUse : BOOLEAN, consented : BOOLEAN]
  /\ None \notin GrantIds \cup Views \cup RefreshTokens \cup Requests

VARIABLES
  views,        \* the current definition of each view
  grants,       \* the grant under each id
  tokens,       \* the principal each access token resolves to
  familyOf,     \* the family of each refresh token, named by its first token
  families,     \* what each family remembers
  staged,       \* the requests staged for approval
  served,       \* per grant, what the last response to a client disclosed
  redeemed,     \* history: refresh tokens that were exchanged
  reused        \* history: grants whose superseded refresh token came back

vars == <<views, grants, tokens, familyOf, families, staged, served, redeemed, reused>>

Grant == [issued : BOOLEAN, scope : SUBSET Pairs, view : Views \cup {None},
          revoked : BOOLEAN, expired : BOOLEAN, supported : BOOLEAN]

Principal == [kind : {"none", "client", "unrecognized"}, grant : GrantIds \cup {None}]

Family == [grant : GrantIds \cup {None}, current : RefreshTokens \cup {None},
           superseded : SUBSET RefreshTokens]

Staging == [request : Requests \cup {None}, artifact : SUBSET Pairs, grant : GrantIds \cup {None}]

NoGrant   == [issued |-> FALSE, scope |-> {}, view |-> None, revoked |-> FALSE,
              expired |-> FALSE, supported |-> FALSE]
NoFamily  == [grant |-> None, current |-> None, superseded |-> {}]
NoStaging == [request |-> None, artifact |-> {}, grant |-> None]

TypeOK ==
  /\ views \in [Views -> SUBSET Fields]
  /\ grants \in [GrantIds -> Grant]
  /\ tokens \in [AccessTokens -> Principal]
  /\ familyOf \in [RefreshTokens -> RefreshTokens \cup {None}]
  /\ families \in [RefreshTokens -> Family]
  /\ staged \in [Handles -> Staging]
  /\ served \in [GrantIds -> SUBSET Pairs]
  /\ redeemed \subseteq RefreshTokens
  /\ reused \subseteq GrantIds

Init ==
  /\ views = InitialViews
  /\ grants = [g \in GrantIds |-> NoGrant]
  /\ tokens = [t \in AccessTokens |-> [kind |-> "none", grant |-> None]]
  /\ familyOf = [t \in RefreshTokens |-> None]
  /\ families = [t \in RefreshTokens |-> NoFamily]
  /\ staged = [h \in Handles |-> NoStaging]
  /\ served = [g \in GrantIds |-> {}]
  /\ redeemed = {}
  /\ reused = {}

-----------------------------------------------------------------------------
(* resolveStreams: a wildcard becomes every declared stream, a view its    *)
(* current fields, an omitted field list the declared fields.              *)
Resolve(entry) ==
  CASE entry.kind = "all"    -> {p \in Pairs : p[2] \in Declared[p[1]]}
    [] entry.kind = "view"   -> {ViewStream[entry.view]} \X views[entry.view]
    [] entry.kind = "fields" -> {entry.stream} \X
         (IF entry.fields = {} THEN Declared[entry.stream] ELSE entry.fields)

ViewOf(entry) == IF entry.kind = "view" THEN entry.view ELSE None

(* ReferenceServer.issueGrant: a fresh grant and its first access token. *)
NewGrant(g, t, scope, view, expired, supported) ==
  /\ ~grants[g].issued
  /\ tokens[t].kind = "none"
  /\ grants' = [grants EXCEPT ![g] =
       [issued |-> TRUE, scope |-> scope, view |-> view, revoked |-> FALSE,
        expired |-> expired, supported |-> supported]]
  /\ tokens' = [tokens EXCEPT ![t] = [kind |-> "client", grant |-> g]]

(* issueGrant of the adapter: single_use is not supported, and a purpose   *)
(* of ai_training needs explicit consent (`consented`).                    *)
IssueGrant(request, g, t) ==
  /\ ~request.singleUse /\ request.consented
  /\ NewGrant(g, t, Resolve(request.entry), ViewOf(request.entry), FALSE, TRUE)
  /\ UNCHANGED <<views, familyOf, families, served, redeemed, reused>>

IssueDirectly(request, g, t) == IssueGrant(request, g, t) /\ UNCHANGED staged

(* stageApproval: the artifact shows the fields as resolved now. *)
StageApproval(request, h) ==
  /\ staged[h].request = None
  /\ staged' = [staged EXCEPT ![h] =
       [request |-> request, artifact |-> Resolve(request.entry), grant |-> None]]
  /\ UNCHANGED <<views, grants, tokens, familyOf, families, served, redeemed, reused>>

(* approve with the matching revision, or with none, issues from the       *)
(* request, as often as it is called; another revision changes nothing.    *)
Approve(h, g, t) ==
  /\ staged[h].request # None
  /\ IssueGrant(staged[h].request, g, t)
  /\ staged' = [staged EXCEPT ![h].grant = g]

(* grantWithSchemaVersion and expiredGrantToken: issuance through the same *)
(* door with an unsupported schema version, or already expired.            *)
IssueUnsupported(request, g, t) ==
  /\ NewGrant(g, t, Resolve(request.entry), None, FALSE, FALSE)
  /\ UNCHANGED <<views, familyOf, families, staged, served, redeemed, reused>>

IssueExpired(g, t) ==
  /\ NewGrant(g, t, Resolve([kind |-> "all"]), None, TRUE, TRUE)
  /\ UNCHANGED <<views, familyOf, families, staged, served, redeemed, reused>>

(* Mutant: the new field replaces the view's fields. *)
WidenView_replaces(v, f) ==
  /\ f \notin views[v]
  /\ views' = [views EXCEPT ![v] = {f}]
  /\ UNCHANGED <<grants, tokens, familyOf, families, staged, served, redeemed, reused>>

(* widenView changes the current definition of a view, and no grant. *)
WidenView(v, f) ==
  /\ f \notin views[v]
  /\ views' = [views EXCEPT ![v] = @ \cup {f}]
  /\ UNCHANGED <<grants, tokens, familyOf, families, staged, served, redeemed, reused>>

RevokeGrant(g) ==
  /\ grants[g].issued
  /\ grants' = [grants EXCEPT ![g].revoked = TRUE]
  /\ UNCHANGED <<views, tokens, familyOf, families, staged, served, redeemed, reused>>

(* A token bound to a grant whose introspected kind nobody knows. *)
MintTokenWithKind(g, t) ==
  /\ grants[g].issued /\ tokens[t].kind = "none"
  /\ tokens' = [tokens EXCEPT ![t] = [kind |-> "unrecognized", grant |-> g]]
  /\ UNCHANGED <<views, grants, familyOf, families, staged, served, redeemed, reused>>

-----------------------------------------------------------------------------
(* issueRefreshToken starts a family, whether or not the grant still       *)
(* stands.                                                                 *)
IssueRefreshToken(g, r) ==
  /\ grants[g].issued /\ familyOf[r] = None
  /\ familyOf' = [familyOf EXCEPT ![r] = r]
  /\ families' = [families EXCEPT ![r] = [grant |-> g, current |-> r, superseded |-> {}]]
  /\ UNCHANGED <<views, grants, tokens, staged, served, redeemed, reused>>

(* Mutant: reuse is refused and the family lives on. *)
RedeemSuperseded_kept(r) ==
  /\ familyOf[r] # None
  /\ r \in families[familyOf[r]].superseded
  /\ reused' = reused \cup {families[familyOf[r]].grant}
  /\ UNCHANGED <<views, grants, tokens, familyOf, families, staged, served, redeemed>>

(* redeemRefreshToken, first refusal: a superseded token revokes the       *)
(* grant of its family.                                                    *)
RedeemSuperseded(r) ==
  /\ familyOf[r] # None
  /\ LET fam == families[familyOf[r]]
     IN  /\ r \in fam.superseded
         /\ grants' = [grants EXCEPT ![fam.grant].revoked = TRUE]
         /\ reused' = reused \cup {fam.grant}
  /\ UNCHANGED <<views, tokens, familyOf, families, staged, served, redeemed>>

(* Mutant: the presented token stays current. *)
RedeemCurrent_unrotated(r, successor, t) ==
  /\ familyOf[r] # None
  /\ families[familyOf[r]].current = r
  /\ tokens[t].kind = "none"
  /\ tokens' = [tokens EXCEPT ![t] =
       [kind |-> "client", grant |-> families[familyOf[r]].grant]]
  /\ redeemed' = redeemed \cup {r}
  /\ UNCHANGED <<views, grants, familyOf, families, staged, served, reused>>

(* redeemRefreshToken, rotation: the successor becomes current, and a new  *)
(* access token is minted without a look at the grant.                     *)
RedeemCurrent(r, successor, t) ==
  /\ familyOf[r] # None
  /\ LET fam == families[familyOf[r]]
     IN  /\ r \notin fam.superseded /\ fam.current = r
         /\ families' = [families EXCEPT ![familyOf[r]] =
              [grant |-> fam.grant, current |-> successor, superseded |-> fam.superseded \cup {r}]]
         /\ tokens' = [tokens EXCEPT ![t] = [kind |-> "client", grant |-> fam.grant]]
  /\ familyOf[successor] = None /\ tokens[t].kind = "none"
  /\ familyOf' = [familyOf EXCEPT ![successor] = familyOf[r]]
  /\ redeemed' = redeemed \cup {r}
  /\ UNCHANGED <<views, grants, staged, served, reused>>

-----------------------------------------------------------------------------
(* Mutant: the view a grant was issued from is resolved again. *)
GrantedFields_reresolved(g) ==
  LET v == grants[g].view
  IN  IF v = None THEN grants[g].scope ELSE {ViewStream[v]} \X views[v]

(* grantedFields: the frozen fields of the grant. *)
GrantedFields(g) == grants[g].scope

(* resolvePrincipal and the grant schema gate. *)
InForce(g) == ~grants[g].revoked /\ ~grants[g].expired

(* handle: the status of GET on a stream for a client's credential, one    *)
(* gate after the other.                                                   *)
Status(t, versionSupported, s) ==
  LET p == tokens[t] IN
  IF p.kind = "none" THEN 401
  ELSE IF p.kind = "unrecognized" THEN 403
  ELSE IF ~versionSupported THEN 400
  ELSE IF ~InForce(p.grant) THEN 403
  ELSE IF ~grants[p.grant].supported THEN 400
  ELSE IF s \notin Streams THEN 404
  ELSE IF s \notin {q[1] : q \in grants[p.grant].scope} THEN 403
  ELSE 200

(* GET /v1/streams/{stream}/records, or one record, with a client token:   *)
(* the projection of each record to the granted fields, narrowed by the    *)
(* `fields` parameter, whatever that asks for.                             *)
Read(t, versionSupported, s, asked) ==
  /\ Status(t, versionSupported, s) = 200
  /\ LET g == tokens[t].grant
     IN  served' = [served EXCEPT ![g] = 
                 {q \in GrantedFields(g) : q[1] = s /\ q[2] \in Declared[s] \cap asked}]
  /\ UNCHANGED <<views, grants, tokens, familyOf, families, staged, redeemed, reused>>

(* introspect: active and the granted details, or inactive. *)
IntrospectActive(t) == tokens[t].kind = "client" /\ InForce(tokens[t].grant)

Next ==
  \/ \E g \in GrantIds, t \in AccessTokens, request \in Requests :
        IssueDirectly(request, g, t) \/ IssueUnsupported(request, g, t)
  \/ \E g \in GrantIds, t \in AccessTokens : IssueExpired(g, t) \/ MintTokenWithKind(g, t)
  \/ \E request \in Requests, h \in Handles : StageApproval(request, h)
  \/ \E h \in Handles, g \in GrantIds, t \in AccessTokens : Approve(h, g, t)
  \/ \E v \in Views, f \in Fields : WidenView(v, f)
  \/ \E g \in GrantIds : RevokeGrant(g) \/ \E r \in RefreshTokens : IssueRefreshToken(g, r)
  \/ \E r \in RefreshTokens : RedeemSuperseded(r)
  \/ \E r, successor \in RefreshTokens, t \in AccessTokens : RedeemCurrent(r, successor, t)
  \/ \E t \in AccessTokens, v \in BOOLEAN, s \in Streams, asked \in SUBSET Fields : Read(t, v, s, asked)

Spec == Init /\ [][Next]_vars

-----------------------------------------------------------------------------
(* The promise of a grant, read off this server. *)
Consent == INSTANCE ConsentedAccess WITH
  status <- [g \in GrantIds |->
               IF ~grants[g].issued THEN "none" ELSE IF InForce(g) THEN "active" ELSE "ended"],
  scope  <- [g \in GrantIds |-> grants[g].scope],
  access <- served

(* issueGrant, widenView, revokeGrant, redeemRefreshToken and the read     *)
(* gates together keep the promise of ConsentedAccess.                     *)
KeepsConsent == Consent!Spec

(* redeemRefreshToken, "reuse of a superseded one is refused AND revokes   *)
(* the family's grant, which kills every access token linked to it,        *)
(* including the successor already handed out" (reference-server.ts:1335): *)
(* whatever is redeemed or minted afterwards is dead on arrival.           *)
ReuseEndsGrant ==
  \A t \in AccessTokens : tokens[t].grant \in reused =>
    \A v \in BOOLEAN, s \in Streams : Status(t, v, s) # 200 /\ ~IntrospectActive(t)

(* redeemRefreshToken: along every chain of rotations a refresh token is   *)
(* exchanged at most once; a second presentation finds it superseded.      *)
ExchangedAtMostOnce ==
  \A r \in redeemed : r \in families[familyOf[r]].superseded /\ families[familyOf[r]].current # r

(* reference-adapter.ts:660, resolveOneStream is "Shared with              *)
(* `stageApproval` so the artifact the owner reviews describes exactly the *)
(* fields the grant will carry".  It is resolved twice, so that holds of   *)
(* requests that name no view; for a view the grant carries what the owner *)
(* saw, and beyond it only fields the view has gained since.               *)
ApprovalOnlyWidens ==
  \A h \in Handles : staged[h].grant # None =>
    LET scope == grants[staged[h].grant].scope
        entry == staged[h].request.entry
    IN  /\ staged[h].artifact \subseteq scope
        /\ scope \subseteq Resolve(entry)
        /\ entry.kind # "view" => scope = staged[h].artifact
=============================================================================
