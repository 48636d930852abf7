---------------------------- MODULE HealthReceipt ----------------------------
(***************************************************************************)
(* The stream-health acceptance receipt: an unattended audit that follows  *)
(* the connector-summary pages of a live instance to the end, reads the    *)
(* connectors' manifests, walks the rendered Sources pages in a browser,   *)
(* gives a verdict on what it saw, and then logs in again and follows the  *)
(* summary pages a second time for the settlement of the projections.      *)
(* Meanwhile connections come, go and change, the instance is redeployed,  *)
(* and requests fail.                                                      *)
(*                                                                         *)
(* The instance is not in the repository.  It is modelled from how the     *)
(* audit uses it: keyset pages in the order of the connections.            *)
(***************************************************************************)
EXTENDS Integers, Sequences, FiniteSets, FiniteSetsExt, SequencesExt

CONSTANTS
    N,           \* connections, in the order of the pages
    PageLimit,   \* REF_CONNECTORS_PAGE_LIMIT
    DomLimit,    \* rows of a rendered page
    DomBudget,   \* OWNER_DOM_PAGE_BUDGET
    MaxTroubled, \* bound: connections in trouble at the start
    MaxChanges,  \* bound: changes of the fleet
    MaxFaults    \* bound: failed requests; a list that goes back is one

ASSUME ReceiptAssumption ==
    /\ {N, PageLimit, DomLimit, DomBudget} \subseteq Nat \ {0}
    /\ {MaxTroubled, MaxChanges, MaxFaults} \subseteq Nat

VARIABLES
    fleet,     \* the state of each connection
    rev,       \* the revision the instance runs
    looping,   \* which of the two lists has continuations that go back
    changes, faults,
    at,        \* the step of the audit
    walk,      \* fetchAllConnectorSummaries
    missing,   \* connections whose manifest is unavailable
    dom,       \* fetchOwnerSourcesDom
    verdict,   \* the result of the authority
    evidence,  \* history: what it was given on, until the settlement begins
    receipt,   \* the facets of the receipt
    steady     \* history: connections unchanged since the authority, or the
               \* settlement, began

server == <<fleet, rev, looping, changes, faults>>
vars == <<fleet, rev, looping, changes, faults, at, walk, missing, dom, verdict,
          evidence, receipt, steady>>

Conns == 1 .. N

\* "unsettled" is green for the authority: only its projection is not reliable.
Active == {"green", "unsettled", "failed", "working"}

State == Active \cup {"revoked", "absent"}

None == 0

\* The revision the operator expects, and the one of the next deployment.
Expected == 1

Revisions == {Expected, Expected + 1}

lifecycle(s) == IF s \in Active THEN "active" ELSE "revoked"

NewWalk == [cursor |-> None, seen |-> {}, data |-> <<>>, revs |-> {}]

NewDom == [pending |-> <<None>>, seen |-> {}, rows |-> {}, selected |-> None,
           streams |-> {}, revs |-> {}, resolved |-> TRUE, complete |-> TRUE]

NoVerdict == [status |-> "none", agreement |-> "none", fetched |-> FALSE]

NoEvidence == [revs |-> {}, had |-> {}, listed |-> {}, rendered |-> {}]

NoReceipt == [login |-> FALSE, banner |-> FALSE, evaluated |-> FALSE,
              settled |-> FALSE, read |-> FALSE, ok |-> FALSE, had |-> {}]

Init ==
    /\ fleet \in [Conns -> State]
    /\ Cardinality({c \in Conns : fleet[c] \notin {"green", "absent"}}) <= MaxTroubled
    /\ rev = Expected
    /\ looping \in {"none", "summaries", "sources"}
    /\ changes = 0
    /\ faults = IF looping = "none" THEN 0 ELSE 1
    /\ faults <= MaxFaults
    /\ at = "login"
    /\ walk = NewWalk /\ missing = {} /\ dom = NewDom
    /\ verdict = NoVerdict /\ evidence = NoEvidence /\ receipt = NoReceipt
    /\ steady = Conns

(***************************************************************************)
(* The instance.                                                           *)
(***************************************************************************)
Change(c, s) ==
    /\ at \notin {"done", "threw"}
    /\ changes < MaxChanges
    /\ s # fleet[c]
    /\ fleet' = [fleet EXCEPT ![c] = s]
    /\ steady' = steady \ {c}
    /\ changes' = changes + 1
    /\ UNCHANGED <<rev, looping, faults, at, walk, missing, dom, verdict, evidence, receipt>>

Redeploy ==
    /\ at \notin {"done", "threw"}
    /\ rev = Expected
    /\ rev' = Expected + 1
    /\ UNCHANGED <<fleet, looping, changes, faults, at, walk, missing, dom, verdict, evidence,
                   receipt, steady>>

Visible(cursor) == {c \in Conns : c > cursor /\ fleet[c] # "absent"}

Limit(list) == IF list = "summaries" THEN PageLimit ELSE DomLimit

\* A page of one of the two lists: the first rows after the cursor.
Rows(list, cursor) ==
    {c \in Visible(cursor) :
        Cardinality({d \in Visible(cursor) : d <= c}) <= Limit(list)}

\* The continuation of a page: after its last row, or back if the list loops.
Continuations(list, cursor) ==
    LET rows == Rows(list, cursor)
        next == IF rows = Visible(cursor) THEN None ELSE Max(rows)
    IN  {next} \cup
        (IF looping = list /\ rows # {} THEN {c \in Conns : c <= Max(rows)} ELSE {})

\* A page as it should be, and the ways in which its envelope may be wrong.
Envelopes(cursor) ==
    {[list |-> TRUE, more |-> n # None, next |-> n] : n \in Continuations("summaries", cursor)}

BadEnvelopes(cursor) ==
    {[e EXCEPT !.list = FALSE] : e \in Envelopes(cursor)}
    \cup {[e EXCEPT !.more = ~@] : e \in Envelopes(cursor)}

MayFail == faults < MaxFaults /\ faults' = faults + 1

(***************************************************************************)
(* fetchAllConnectorSummaries, from one of its two callers.                *)
(***************************************************************************)

\* Mutant: a last page that names a continuation is taken for a last page.
validateListEnvelope_lenient(e) == e.list /\ (e.more => e.next # None)

validateListEnvelope(e) == e.list /\ (e.more <=> e.next # None)

\* The walk after a valid page.  data has one element per page: the states of its
\* connections, each of which a page lists once.
Followed(e) ==
    [cursor |-> e.next,
     seen   |-> walk.seen \cup ({e.next} \ {None}),
     data   |-> Append(walk.data, [c \in Rows("summaries", walk.cursor) |-> fleet[c]]),
     revs   |-> walk.revs \cup {rev}]

Repeats(e) == e.more /\ e.next \in walk.seen

\* One page.  more, done and fail are what the caller does then.
Page(more, done, fail) ==
    \/ \E e \in Envelopes(walk.cursor) :
         /\ UNCHANGED faults
         /\ IF Repeats(e) THEN fail
            ELSE IF e.more THEN walk' = Followed(e) /\ more
                           ELSE walk' = Followed(e) /\ done
    \/ \E e \in BadEnvelopes(walk.cursor) :
         /\ MayFail
         /\ IF validateListEnvelope(e) /\ ~Repeats(e)
              THEN walk' = Followed(e) /\ (IF e.more THEN more ELSE done)
              ELSE fail
    \/ MayFail /\ fail  \* a status that is not 2xx, a body that is not JSON

(***************************************************************************)
(* evaluateStreamHealthAuthority.                                          *)
(***************************************************************************)
Ids(data) == UNION {DOMAIN data[i] : i \in DOMAIN data}

\* The pages that list a connection.
PagesOf(data, c) == {i \in DOMAIN data : c \in DOMAIN data[i]}

\* classForStream and the findings on a connection, from its first row; the
\* flag says whether the finding counts in the score.
Assessed(data, c) ==
    LET s == data[Min(PagesOf(data, c))][c]
    IN  IF s = "revoked" THEN {}
        ELSE IF c \in missing THEN {<<"manifest_unavailable", FALSE>>}
        ELSE IF s = "failed" THEN {<<"failed", TRUE>>}
        ELSE IF s = "working" THEN {<<"active_bounded_work", TRUE>>}
        ELSE {<<"green", TRUE>>}

\* A connection id that occurs twice is a disagreement of its own.
ConnectionFindings(data) ==
    UNION {Assessed(data, c) : c \in Ids(data)}
    \cup {<<"projection_disagreement", FALSE>> : c \in {d \in Ids(data) : Cardinality(PagesOf(data, d)) > 1}}

\* Mutant: rows that were rendered vouch for the others.
missingConnectionIds_none(active, observed) == IF observed = {} THEN active ELSE {}

missingConnectionIds(active, observed) == active \ observed

\* compareDom: the rendered pages against the inventory.
compareDom(data) ==
    LET expected      == Ids(data)
        scopes(c)     == {lifecycle(data[i][c]) : i \in PagesOf(data, c)}
        scope(c)      == lifecycle(data[Max(PagesOf(data, c))][c])
        active        == {c \in expected : scope(c) = "active"}
        observed      == {row[1] : row \in dom.rows}
        contradictory == {c \in expected : Cardinality(scopes(c)) > 1}
        invalidScopes == {c \in observed :
                            \/ c \notin expected
                            \/ {row[2] : row \in {r \in dom.rows : r[1] = c}} # {scope(c)}}
                         \cup contradictory
        extra         == observed \ expected
        badStreams    == {c \in dom.streams : c \notin expected \/ c \in missing}
        differences   == missingConnectionIds(active, observed) \cup extra \cup invalidScopes \cup badStreams
    IN  IF expected = {} /\ dom.resolved
          THEN IF differences = {} THEN "agree" ELSE "disagree"
        ELSE IF \/ ~dom.resolved
                \/ dom.selected = None /\ active # {} /\ differences = {}
                \/ dom.selected # None /\ dom.selected \notin expected
          THEN "inconclusive"
        ELSE IF differences = {} THEN "agree" ELSE "disagree"

\* compareDom reports a disagreement, except over an empty inventory.
DomFindings(data) ==
    IF Ids(data) # {} /\ compareDom(data) = "disagree"
      THEN {<<"projection_disagreement", FALSE>>} ELSE {}

\* exactRevision of both sides, and gateRevision.
RevisionExact == walk.revs = {Expected} /\ dom.revs = {Expected}

resultStatus(findings) ==
    LET classes == {f[1] : f \in findings}
    IN  IF <<"failed", TRUE>> \in findings \/ "projection_disagreement" \in classes
          THEN "fail"
        ELSE IF \/ ~dom.resolved \/ ~dom.complete \/ ~RevisionExact
                \/ "manifest_unavailable" \in classes
                \/ "active_bounded_work" \in classes
          THEN "inconclusive"
        ELSE "pass"

(***************************************************************************)
(* runLiveStreamHealthAuthority.                                           *)
(***************************************************************************)

\* The verdict of an audit that could not collect its evidence.
GiveUp ==
    /\ verdict' = [NoVerdict EXCEPT !.status = "inconclusive", !.agreement = "inconclusive"]
    /\ at' = "login2"
    /\ walk' = NewWalk /\ missing' = {} /\ dom' = NewDom
    /\ UNCHANGED <<evidence, receipt, steady>>

LogIn ==
    /\ at = "login"
    /\ at' = "pages"
    /\ UNCHANGED <<server, walk, missing, dom, verdict, evidence, receipt, steady>>

LogInFails ==
    /\ at = "login"
    /\ MayFail
    /\ GiveUp
    /\ UNCHANGED <<fleet, rev, looping, changes>>

FetchPage ==
    /\ at = "pages"
    /\ Page(at' = "pages" /\ UNCHANGED <<missing, dom, verdict, evidence, receipt, steady>>,
            at' = "manifests" /\ UNCHANGED <<missing, dom, verdict, evidence, receipt, steady>>,
            GiveUp)
    /\ UNCHANGED <<fleet, rev, looping, changes>>

\* The manifests of all connections; one that fails is unavailable, though its
\* revision counts when there was an answer other than 404.
FetchManifests ==
    /\ at = "manifests"
    /\ \E m \in SUBSET Ids(walk.data) : \E answered \in SUBSET m :
         /\ faults + Cardinality(m) <= MaxFaults
         /\ faults' = faults + Cardinality(m)
         /\ missing' = m
         /\ walk' = [walk EXCEPT !.revs = @ \cup {rev : c \in (Ids(walk.data) \ m) \cup answered}]
    /\ at' = "dom"
    /\ UNCHANGED <<fleet, rev, looping, changes, dom, verdict, evidence, receipt, steady>>

\* Mutant: the link is looked at and stays in the queue.
RepeatPage_stays ==
    /\ at = "dom"
    /\ dom.pending # <<>>
    /\ Head(dom.pending) \in dom.seen
    /\ Cardinality(dom.seen) < DomBudget
    /\ dom' = [dom EXCEPT !.complete = FALSE]
    /\ UNCHANGED <<server, at, walk, missing, verdict, evidence, receipt, steady>>

\* A page of the browser's walk that it has seen before.
RepeatPage ==
    /\ at = "dom"
    /\ dom.pending # <<>>
    /\ Head(dom.pending) \in dom.seen
    /\ Cardinality(dom.seen) < DomBudget
    /\ dom' = [dom EXCEPT !.pending = Tail(@), !.complete = FALSE]
    /\ UNCHANGED <<server, at, walk, missing, verdict, evidence, receipt, steady>>

\* A page to render.  The console selects the first row of a page, or none; by a
\* fault of its own it leaves a row out.
RenderPage ==
    LET href == Head(dom.pending)
        rows == Rows("sources", href)
        top  == {c \in rows : \A d \in rows : c <= d}
    IN  /\ at = "dom"
        /\ dom.pending # <<>>
        /\ href \notin dom.seen
        /\ Cardinality(dom.seen) < DomBudget
        /\ \E hidden \in {{}} \cup {{c} : c \in rows \ top},
              sel \in top \cup {None}, next \in Continuations("sources", href) :
             /\ IF hidden = {} THEN UNCHANGED faults ELSE MayFail
             /\ dom' = [dom EXCEPT
                  !.pending  = Tail(@) \o (IF next = None THEN <<>> ELSE <<next>>),
                  !.seen     = @ \cup {href},
                  !.rows     = @ \cup {<<c, lifecycle(fleet[c])>> : c \in rows \ hidden},
                  !.selected = IF @ = None THEN sel ELSE @,
                  !.streams  = @ \cup ({sel} \ {None}),
                  !.revs     = @ \cup {rev}]
        /\ UNCHANGED <<fleet, rev, looping, changes, at, walk, missing, verdict, evidence,
                       receipt, steady>>

\* ownerDomFailure: a page that does not resolve, a browser that cannot be
\* started or closed; or the budget of pages is used up.
RenderFails ==
    /\ at = "dom"
    /\ \/ MayFail
       \/ dom.pending # <<>> /\ Cardinality(dom.seen) >= DomBudget /\ UNCHANGED faults
    /\ dom' = [NewDom EXCEPT !.pending = <<>>, !.revs = dom.revs,
                             !.resolved = FALSE, !.complete = FALSE]
    /\ UNCHANGED <<fleet, rev, looping, changes, at, walk, missing, verdict, evidence, receipt, steady>>

Evaluate ==
    /\ at = "dom"
    /\ dom.pending = <<>>
    /\ verdict' = [status    |-> resultStatus(ConnectionFindings(walk.data) \cup DomFindings(walk.data)),
                   agreement |-> compareDom(walk.data),
                   fetched   |-> TRUE]
    /\ evidence' = [revs     |-> walk.revs \cup dom.revs,
                    had      |-> {<<c, fleet[c]>> : c \in steady},
                    listed   |-> Ids(walk.data),
                    rendered |-> {row[1] : row \in dom.rows}]
    /\ at' = "login2"
    /\ walk' = NewWalk /\ missing' = {} /\ dom' = NewDom
    /\ UNCHANGED <<server, receipt, steady>>

(***************************************************************************)
(* runStreamHealthReceipt: the banner and the settlement.                  *)
(***************************************************************************)
LogInAgain ==
    /\ at = "login2"
    /\ at' = "banner"
    /\ receipt' = [receipt EXCEPT !.login = TRUE]
    /\ UNCHANGED <<server, walk, missing, dom, verdict, evidence, steady>>

\* The login page answers and the login is refused, or the request throws,
\* which nothing catches: there is no receipt.
LogInAgainFails ==
    /\ at = "login2"
    /\ MayFail
    /\ at' \in {"banner", "threw"}
    /\ UNCHANGED <<fleet, rev, looping, changes, walk, missing, dom, verdict, evidence, receipt, steady>>

\* GET /_ref/fleet-health, and the start of the second walk.
FetchBanner ==
    /\ at = "banner"
    /\ \E quiet \in BOOLEAN : receipt' = [receipt EXCEPT !.banner = quiet /\ receipt.login]
    /\ at' = IF verdict.fetched THEN "settlement" ELSE "done"
    /\ evidence' = NoEvidence
    /\ steady' = Conns
    /\ UNCHANGED <<server, walk, missing, dom, verdict>>

\* Mutant: one settled row is enough.
Settled_some(data) ==
    Ids(data) = {} \/ \E i \in DOMAIN data : \E c \in DOMAIN data[i] : data[i][c] # "unsettled"

\* projectionSettlementFromConnections
Settled(data) == \A i \in DOMAIN data : \A c \in DOMAIN data[i] : data[i][c] # "unsettled"

\* The receipt, from what the second walk returned.
Conclude(data, read) ==
    /\ receipt' = [receipt EXCEPT
         !.evaluated = TRUE, !.settled = Settled(data), !.read = read,
         !.ok        = verdict.status = "pass" /\ receipt.banner /\ Settled(data),
         !.had       = {<<c, fleet[c]>> : c \in steady}]
    /\ at' = "done"

\* fetchConnectionsForSettlement: no session and a failed walk both return no rows.
FetchSettlement ==
    /\ at = "settlement"
    /\ IF receipt.login
         THEN Page(at' = "settlement" /\ UNCHANGED receipt,
                   Conclude(walk'.data, TRUE),
                   Conclude(<<>>, FALSE) /\ UNCHANGED walk)
         ELSE Conclude(<<>>, FALSE) /\ UNCHANGED <<walk, faults>>
    /\ UNCHANGED <<fleet, rev, looping, changes, missing, dom, verdict, evidence, steady>>

\* A request of the second walk throws: there is no receipt.
SettlementThrows ==
    /\ at = "settlement"
    /\ receipt.login
    /\ MayFail
    /\ at' = "threw"
    /\ UNCHANGED <<fleet, rev, looping, changes, walk, missing, dom, verdict, evidence, receipt, steady>>

AuditStep ==
    \/ LogIn \/ LogInFails
    \/ FetchPage \/ FetchManifests
    \/ RepeatPage \/ RenderPage \/ RenderFails
    \/ Evaluate
    \/ LogInAgain \/ LogInAgainFails
    \/ FetchBanner
    \/ FetchSettlement \/ SettlementThrows

Next ==
    \/ \E c \in Conns, s \in State : Change(c, s)
    \/ Redeploy
    \/ AuditStep

Spec == Init /\ [][Next]_vars /\ WF_vars(AuditStep)

(***************************************************************************)
(* Properties.                                                             *)
(***************************************************************************)

\* What a page of the inventory may hold.
Pages == UNION {[S -> State \ {"absent"}] : S \in SUBSET Conns}

Href == Conns \cup {None}

\* Types: pages hold connections as they were read.
TypeOK ==
    /\ fleet \in [Conns -> State]
    /\ rev \in Revisions
    /\ looping \in {"none", "summaries", "sources"}
    /\ changes \in 0 .. MaxChanges /\ faults \in 0 .. MaxFaults
    /\ at \in {"login", "pages", "manifests", "dom", "login2", "banner", "settlement",
               "done", "threw"}
    /\ walk \in [cursor : Href, seen : SUBSET Conns, data : Seq(Pages), revs : SUBSET Revisions]
    /\ missing \subseteq Conns
    /\ dom \in [pending : Seq(Href), seen : SUBSET Href,
                rows : SUBSET (Conns \X {"active", "revoked"}), selected : Href,
                streams : SUBSET Conns, revs : SUBSET Revisions,
                resolved : BOOLEAN, complete : BOOLEAN]
    /\ verdict \in [status : {"none", "pass", "fail", "inconclusive"},
                    agreement : {"none", "agree", "disagree", "inconclusive"},
                    fetched : BOOLEAN]
    /\ evidence \in [revs : SUBSET Revisions, had : SUBSET (Conns \X State),
                     listed : SUBSET Conns, rendered : SUBSET Conns]
    /\ receipt \in [login : BOOLEAN, banner : BOOLEAN, evaluated : BOOLEAN, settled : BOOLEAN,
                    read : BOOLEAN, ok : BOOLEAN, had : SUBSET (Conns \X State)]
    /\ steady \subseteq Conns

\* A pass of the authority is earned: no connection was failing, or still at
\* work, from the first request to the verdict, however the fleet changed and
\* whatever was wrong with the pages; and every read of it, inventory and
\* rendered pages, was answered by the expected revision.
PassIsEarned ==
    verdict.status = "pass" =>
        /\ \A h \in evidence.had : h[2] \notin {"failed", "working"}
        /\ evidence.revs \subseteq {Expected}

\* An agreement holds: a connection that was active from the first request to
\* the verdict was rendered in the Sources pages.
AgreeMeansRendered ==
    verdict.agreement = "agree" =>
        \A h \in evidence.had : h[2] \in Active => h[1] \in evidence.rendered

\* A receipt whose second walk came to its end reports a projection that was
\* unsettled all the while.
ReadMeansSettled ==
    receipt.ok /\ receipt.read => \A h \in receipt.had : h[2] # "unsettled"

\* No continuation is followed twice: the pages the walk collects are bounded, although
\* the instance decides how it goes on.
WalkIsBounded == Len(walk.data) <= N + 1

\* The audit ends, even against an instance whose continuations go in a circle.
AuditEnds == <>(at \in {"done", "threw"})

\* The tests of compareDom: a rendered source that the owner inventory does not
\* list is a disagreement and fails the audit.  False: if it is the selected one,
\* or the inventory is empty, compareDom finds it and reports nothing.
PassMeansListed == verdict.status = "pass" => evidence.rendered \subseteq evidence.listed

\* The test "an unsettled projection fails the receipt", and "never inferred
\* from an empty row set".  False: a second walk that failed counts as one that
\* found no connection.
OkMeansSettled == receipt.ok => \A h \in receipt.had : h[2] # "unsettled"
=============================================================================
