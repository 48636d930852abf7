------------------------- MODULE HealthReceiptProofs -------------------------
(***************************************************************************)
(* The acceptance receipt overlooks no trouble that lasted, for any number *)
(* of connections, page sizes and budgets, however the fleet changes and   *)
(* whatever fails.                                                         *)
(*                                                                         *)
(* The argument: a page holds the first rows after its cursor, and the     *)
(* continuation of a page, even one that goes back, never lies beyond its  *)
(* last row.  So every connection that lasted is listed as soon as the     *)
(* cursor is past it (Listed), in the state it has had all the while       *)
(* (AsRead); and when there is no continuation, all of them are.           *)
(***************************************************************************)
EXTENDS HealthReceipt, TLAPS, FiniteSetTheorems, NaturalsInduction, WellFoundedInduction

(* Min finds the smallest of a set of numbers.                             *)
LEMMA Smallest ==
  ASSUME NEW S \in SUBSET Nat, S # {}
  PROVE  Min(S) \in S /\ \A n \in S : Min(S) <= n
<1>1. PICK m \in S : \A n \in Nat : <<n, m>> \in OpToRel(<, Nat) => n \notin S
  BY NatLessThanWellFounded, WFMin
<1>2. ASSUME NEW n \in S PROVE m <= n
  <2>1. \A k \in Nat : k < m => <<k, m>> \in OpToRel(<, Nat)
    BY DEF OpToRel
  <2>2. n \in Nat /\ m \in Nat /\ ~(n < m)
    BY <1>1, <2>1
  <2> QED BY <2>2
<1> QED BY <1>2 DEF Min

(* Max finds the largest of a set of numbers that is bounded.              *)
LEMMA Largest ==
  ASSUME NEW k \in Nat, NEW S \in SUBSET (1 .. k), S # {}
  PROVE  Max(S) \in S /\ \A n \in S : n <= Max(S)
<1> DEFINE D == {d \in 0 .. k : k - d \in S}
<1>1. D \in SUBSET Nat
  OBVIOUS
<1>2. \A n \in S : k - n \in D
  OBVIOUS
<1>3. D # {}
  BY <1>2
<1> HIDE DEF D
<1>4. Min(D) \in D /\ \A d \in D : Min(D) <= d
  BY <1>1, <1>3, Smallest
<1>5. k - Min(D) \in S /\ Min(D) \in 0 .. k
  BY <1>4 DEF D
<1>6. ASSUME NEW n \in S PROVE k - Min(D) >= n
  <2>1. Min(D) <= k - n
    BY <1>2, <1>4
  <2> QED BY <1>5, <2>1
<1>7. \E m \in S : \A n \in S : m >= n
  BY <1>5, <1>6
<1>8. Max(S) \in S /\ \A n \in S : Max(S) >= n
  BY <1>7 DEF Max
<1> QED BY <1>8

(***************************************************************************)
(* Pages.                                                                  *)
(***************************************************************************)
LEMMA NType == N \in Nat \ {0} /\ PageLimit \in Nat \ {0} /\ DomLimit \in Nat \ {0}
  BY ReceiptAssumption

(* A page has room for a row.                                              *)
LEMMA LimitType == \A list : Limit(list) \in Nat \ {0}
  BY NType DEF Limit

(* Sets of connections are finite.                                         *)
LEMMA FiniteConns ==
  ASSUME NEW S \in SUBSET Conns
  PROVE  IsFiniteSet(S) /\ Cardinality(S) \in 0 .. N
<1>1. IsFiniteSet(Conns) /\ Cardinality(Conns) = N
  BY NType, FS_Interval DEF Conns
<1>2. IsFiniteSet(S) /\ Cardinality(S) <= Cardinality(Conns)
  BY <1>1, FS_Subset
<1> QED BY <1>1, <1>2, FS_CardinalityType

(* A page holds connections that are there, with every one before them,    *)
(* and is not empty while there is one.                                    *)
LEMMA PageFacts ==
  ASSUME NEW list, NEW cursor
  PROVE  /\ Rows(list, cursor) \subseteq Visible(cursor) /\ Visible(cursor) \subseteq Conns
         /\ \A c \in Rows(list, cursor), d \in Visible(cursor) :
               d <= c => d \in Rows(list, cursor)
         /\ Visible(cursor) # {} => Rows(list, cursor) # {}
<1> DEFINE V == Visible(cursor)
           Upto(c) == {d \in V : d <= c}
<1>1. V \subseteq Conns /\ Rows(list, cursor) \subseteq V
  BY DEF Visible, Rows
<1> HIDE DEF V
<1>2. \A c \in V : c \in Rows(list, cursor) <=> Cardinality(Upto(c)) <= Limit(list)
  BY DEF Rows, V
<1>3. ASSUME NEW c \in Rows(list, cursor), NEW d \in V, d <= c
      PROVE  d \in Rows(list, cursor)
  <2>0. V \subseteq Nat /\ c \in V
    BY <1>1, <1>3, NType DEF Conns
  <2>1. Upto(d) \in SUBSET Upto(c) /\ Upto(c) \in SUBSET Conns
    <3>1. \A e \in V : e <= d => e <= c
      BY <2>0, <1>3
    <3> QED BY <1>1, <3>1
  <2>2. Cardinality(Upto(d)) <= Cardinality(Upto(c)) /\ Cardinality(Upto(c)) <= Limit(list)
    BY <1>2, <1>3, <2>0, <2>1, FiniteConns, FS_Subset
  <2>3. Cardinality(Upto(d)) \in Nat /\ Cardinality(Upto(c)) \in Nat /\ Limit(list) \in Nat
    <3>1. Upto(d) \in SUBSET Conns
      BY <2>1
    <3> QED BY <2>1, <3>1, FiniteConns, LimitType
  <2> QED BY <1>2, <1>3, <2>2, <2>3
<1>4. ASSUME V # {} PROVE Rows(list, cursor) # {}
  <2>1. V \in SUBSET Nat
    BY <1>1, NType DEF Conns
  <2>2. Min(V) \in V /\ \A d \in V : Min(V) <= d
    BY <1>4, <2>1, Smallest
  <2>3. Upto(Min(V)) = {Min(V)}
    <3>1. PICK m \in Nat : m = Min(V)
      BY <2>1, <2>2
    <3>2. ASSUME NEW d \in V, d <= m PROVE d = m
      BY <2>1, <2>2, <3>1, <3>2
    <3>3. m \in V /\ m <= m
      BY <2>2, <3>1
    <3> QED BY <3>1, <3>2, <3>3
  <2>4. Cardinality(Upto(Min(V))) = 1
    BY <2>3, FS_Singleton
  <2> QED BY <1>2, <2>2, <2>4, LimitType
<1> QED BY <1>1, <1>3, <1>4 DEF V

(* No continuation skips a row: it lies within the page, and there is none *)
(* only when the page holds all that is left.                              *)
LEMMA ContinuationFacts ==
  ASSUME NEW list, NEW cursor, NEW n \in Continuations(list, cursor)
  PROVE  /\ n \in Href
         /\ \A c \in Visible(cursor) : n = None \/ c <= n => c \in Rows(list, cursor)
<1> DEFINE rows == Rows(list, cursor)
           next == IF rows = Visible(cursor) THEN None ELSE Max(rows)
<1>1. n = next \/ (rows # {} /\ n \in Conns /\ n <= Max(rows))
  BY DEF Continuations
<1>2. rows \subseteq Visible(cursor) /\ Visible(cursor) \subseteq Conns
  BY PageFacts
<1> HIDE DEF rows
<1>3. CASE rows = Visible(cursor) /\ n = next
  BY <1>3 DEF rows, Href
<1>4. CASE rows # {} /\ ((n \in Conns /\ n <= Max(rows)) \/ n = Max(rows))
  <2>1. rows \in SUBSET (1 .. N) /\ N \in Nat
    BY <1>2, NType DEF Conns
  <2>2. Max(rows) \in rows
    BY <1>4, <2>1, Largest
  <2>3. n \in 1 .. N /\ n <= Max(rows) /\ Max(rows) \in 1 .. N
    <3>1. PICK m \in 1 .. N : m = Max(rows)
      BY <2>1, <2>2
    <3> QED BY <1>4, <2>1, <3>1 DEF Conns
  <2>4. ASSUME NEW c \in Visible(cursor), n = None \/ c <= n PROVE c \in rows
    <3>1. c \in 1 .. N /\ c <= Max(rows)
      BY <1>2, <2>1, <2>3, <2>4 DEF Conns, None
    <3> QED BY <2>2, <3>1, PageFacts DEF rows
  <2> QED BY <2>3, <2>4 DEF rows, Href, Conns
<1>5. rows # {} \/ rows = Visible(cursor)
  BY PageFacts DEF rows
<1> QED BY <1>1, <1>3, <1>4, <1>5

(* A page of the inventory is a page.                                      *)
LEMMA PageType ==
  ASSUME TypeOK, NEW cursor
  PROVE  [c \in Rows("summaries", cursor) |-> fleet[c]] \in Pages
<1> DEFINE rows == Rows("summaries", cursor)
<1>1. rows \in SUBSET Conns /\ \A c \in rows : fleet[c] # "absent"
  BY PageFacts DEF Visible
<1>2. \A c \in rows : fleet[c] \in State \ {"absent"}
  BY <1>1 DEF TypeOK
<1> HIDE DEF rows
<1>3. [c \in rows |-> fleet[c]] \in [rows -> State \ {"absent"}]
  BY <1>2
<1> QED BY <1>1, <1>3 DEF Pages, rows

(***************************************************************************)
(* The walk over the inventory.                                            *)
(***************************************************************************)

(* What was read of a connection that lasted is what it is.                *)
AsRead ==
    \A i \in DOMAIN walk.data : \A c \in DOMAIN walk.data[i] :
        c \in steady => walk.data[i][c] = fleet[c]

Walking == at \in {"pages", "settlement"}

(* A connection that lasted has been read once the cursor is past it, and  *)
(* at the end of the walk.                                                 *)
Listed ==
    at \in {"pages", "settlement", "manifests", "dom"} =>
        \A c \in steady :
            fleet[c] # "absent" /\ (Walking => c <= walk.cursor) => c \in Ids(walk.data)

(* Between the walks there is none.                                        *)
Fresh == at \in {"login", "login2", "banner"} => walk = NewWalk

(* One page was read per continuation, and the first.                      *)
Counted ==
    /\ Len(walk.data) <= Cardinality(walk.seen) + 1
    /\ Walking => Len(walk.data) <= Cardinality(walk.seen)

WalkInv == AsRead /\ Listed /\ Fresh /\ Counted

WalkType ==
    walk \in [cursor : Href, seen : SUBSET Conns, data : Seq(Pages), revs : SUBSET Revisions]

(* validateListEnvelope lets no wrong envelope pass.                       *)
LEMMA BadNever == \A cursor : \A e \in BadEnvelopes(cursor) : ~validateListEnvelope(e)
<1> SUFFICES ASSUME NEW cursor, NEW e \in BadEnvelopes(cursor) PROVE ~validateListEnvelope(e)
  OBVIOUS
<1>1. PICK g \in Envelopes(cursor) : e = [g EXCEPT !.list = FALSE] \/ e = [g EXCEPT !.more = ~@]
  BY DEF BadEnvelopes
<1>2. PICK n : g = [list |-> TRUE, more |-> n # None, next |-> n]
  BY <1>1 DEF Envelopes
<1> QED BY <1>1, <1>2 DEF validateListEnvelope

(* A page that is followed makes the cursor its continuation.              *)
LEMMA EnvelopeFacts ==
  ASSUME NEW cursor, NEW e \in Envelopes(cursor)
  PROVE  /\ e.next \in Continuations("summaries", cursor) /\ e.next \in Href
         /\ e.more <=> e.next # None
<1>1. PICK n \in Continuations("summaries", cursor) :
         e = [list |-> TRUE, more |-> n # None, next |-> n]
  BY DEF Envelopes
<1> QED BY <1>1, ContinuationFacts

(* What following a page does to the walk.                                 *)
LEMMA FollowedType ==
  ASSUME TypeOK, NEW e \in Envelopes(walk.cursor), walk' = Followed(e)
  PROVE  WalkType'
<1>1. /\ walk.data \in Seq(Pages) /\ walk.seen \in SUBSET Conns
      /\ walk.revs \in SUBSET Revisions /\ rev \in Revisions
  BY DEF TypeOK
<1>2. e.next \in Href /\ {e.next} \ {None} \subseteq Conns
  BY EnvelopeFacts DEF Href
<1>3. [c \in Rows("summaries", walk.cursor) |-> fleet[c]] \in Pages
  BY PageType
<1>4. Append(walk.data, [c \in Rows("summaries", walk.cursor) |-> fleet[c]]) \in Seq(Pages)
  BY <1>1, <1>3
<1> QED BY <1>1, <1>2, <1>4 DEF Followed, WalkType

(* Following a page adds the page to the data, and its rows to the ids.    *)
LEMMA FollowedIds ==
  ASSUME TypeOK, NEW e, walk' = Followed(e)
  PROVE  /\ Len(walk'.data) = Len(walk.data) + 1
         /\ \A i \in DOMAIN walk.data : i \in DOMAIN walk'.data /\ walk'.data[i] = walk.data[i]
         /\ \A i \in DOMAIN walk'.data : i \in DOMAIN walk.data \/ i = Len(walk.data) + 1
         /\ Len(walk.data) + 1 \in DOMAIN walk'.data
         /\ walk'.data[Len(walk.data) + 1] = [c \in Rows("summaries", walk.cursor) |-> fleet[c]]
         /\ Ids(walk'.data) = Ids(walk.data) \cup Rows("summaries", walk.cursor)
<1> DEFINE page == [c \in Rows("summaries", walk.cursor) |-> fleet[c]]
<1>1. walk.data \in Seq(Pages) /\ page \in Pages
  BY PageType DEF TypeOK
<1>2. walk'.data = Append(walk.data, page)
  BY DEF Followed
<1>3. DOMAIN page = Rows("summaries", walk.cursor)
  OBVIOUS
<1> HIDE DEF page
<1>4. /\ Len(walk'.data) = Len(walk.data) + 1
      /\ \A i \in DOMAIN walk.data : i \in DOMAIN walk'.data /\ walk'.data[i] = walk.data[i]
      /\ \A i \in DOMAIN walk'.data : i \in DOMAIN walk.data \/ i = Len(walk.data) + 1
      /\ Len(walk.data) + 1 \in DOMAIN walk'.data
      /\ walk'.data[Len(walk.data) + 1] = page
  BY <1>1, <1>2
<1>5. Ids(walk'.data) = Ids(walk.data) \cup DOMAIN page
  BY <1>4 DEF Ids
<1> QED BY <1>3, <1>4, <1>5 DEF page

(* So it reads what lasted up to the new cursor, or to the end.            *)
LEMMA FollowedReads ==
  ASSUME TypeOK, WalkInv, Walking, UNCHANGED <<fleet, steady>>,
         NEW e \in Envelopes(walk.cursor), ~Repeats(e), walk' = Followed(e)
  PROVE  /\ AsRead'
         /\ \A c \in steady : fleet[c] # "absent" /\ (e.more => c <= e.next)
                                => c \in Ids(walk'.data)
         /\ Len(walk'.data) <= Cardinality(walk'.seen) + 1
         /\ e.more => Len(walk'.data) <= Cardinality(walk'.seen)
<1>1. AsRead'
  <2> SUFFICES ASSUME NEW i \in DOMAIN walk'.data, NEW c \in DOMAIN walk'.data[i], c \in steady
               PROVE  walk'.data[i][c] = fleet[c]
    BY DEF AsRead
  <2>1. CASE i \in DOMAIN walk.data
    <3>1. walk'.data[i] = walk.data[i]
      BY <2>1, FollowedIds
    <3>2. walk.data[i][c] = fleet[c]
      BY <2>1, <3>1 DEF AsRead, WalkInv
    <3> QED BY <3>1, <3>2
  <2>2. CASE i = Len(walk.data) + 1
    BY <2>2, FollowedIds
  <2> QED BY <2>1, <2>2, FollowedIds
<1>2. ASSUME NEW c \in steady, fleet[c] # "absent", e.more => c <= e.next
      PROVE  c \in Ids(walk'.data)
  <2>1. c \in Conns /\ walk.cursor \in Href
    BY DEF TypeOK
  <2>2. CASE c <= walk.cursor
    BY <1>2, <2>2, FollowedIds DEF WalkInv, Listed, Walking
  <2>3. CASE ~(c <= walk.cursor)
    <3>1. c > walk.cursor
      BY <2>1, <2>3, NType DEF Conns, Href, None
    <3>2. c \in Visible(walk.cursor)
      BY <1>2, <2>1, <3>1 DEF Visible
    <3>3. e.next = None \/ c <= e.next
      BY <1>2, EnvelopeFacts
    <3>4. c \in Rows("summaries", walk.cursor)
      BY <3>2, <3>3, EnvelopeFacts, ContinuationFacts
    <3> QED BY <3>4, FollowedIds
  <2> QED BY <2>2, <2>3
<1>3. /\ walk.seen \in SUBSET Conns /\ IsFiniteSet(walk.seen) /\ Cardinality(walk.seen) \in Nat
      /\ walk'.seen = walk.seen \cup ({e.next} \ {None})
      /\ Len(walk.data) \in Nat
  BY FiniteConns, NType DEF TypeOK, Followed
<1>4. Len(walk.data) <= Cardinality(walk.seen) /\ Len(walk'.data) = Len(walk.data) + 1
  BY FollowedIds DEF WalkInv, Counted
<1>5. CASE e.more
  <2>1. walk'.seen = walk.seen \cup {e.next} /\ e.next \notin walk.seen
    BY <1>3, <1>5, EnvelopeFacts DEF Repeats
  <2>2. Cardinality(walk'.seen) = Cardinality(walk.seen) + 1
    <3>1. ASSUME NEW n, n \notin walk.seen
          PROVE  Cardinality(walk.seen \cup {n}) = Cardinality(walk.seen) + 1
      BY <1>3, <3>1, FS_AddElement
    <3> QED BY <2>1, <3>1
  <2>3. Len(walk'.data) <= Cardinality(walk'.seen) /\ Len(walk'.data) <= Cardinality(walk'.seen) + 1
    BY <1>3, <1>4, <2>2
  <2> QED BY <1>1, <1>2, <2>3
<1>6. CASE ~e.more
  <2>1. walk'.seen = walk.seen
    BY <1>3, <1>6, EnvelopeFacts
  <2>2. Len(walk'.data) <= Cardinality(walk'.seen) + 1
    <3>1. Cardinality(walk'.seen) = Cardinality(walk.seen)
      BY <2>1
    <3> QED BY <1>3, <1>4, <3>1
  <2> QED BY <1>1, <1>2, <1>6, <2>2
<1> QED BY <1>5, <1>6

(***************************************************************************)
(* What the two callers of the walk do with a page: it is followed, or the *)
(* walk is given up.                                                       *)
(***************************************************************************)
Counter == faults' \in {faults, faults + 1} /\ faults' <= MaxFaults

(* fetchAllConnectorSummaries, the first walk.                             *)
LEMMA FetchPageCases ==
  ASSUME TypeOK, FetchPage
  PROVE  /\ at = "pages" /\ Counter /\ UNCHANGED <<fleet, rev, looping, changes>>
         /\ \/ GiveUp
            \/ \E e \in Envelopes(walk.cursor) :
                 /\ ~Repeats(e) /\ walk' = Followed(e)
                 /\ at' = IF e.more THEN "pages" ELSE "manifests"
                 /\ UNCHANGED <<missing, dom, verdict, evidence, receipt, steady>>
<1>1. faults \in 0 .. MaxFaults /\ MaxFaults \in Nat
  BY ReceiptAssumption DEF TypeOK
<1>2. Counter
  BY <1>1, BadNever DEF FetchPage, Page, MayFail, Counter
<1> QED BY <1>2, BadNever DEF FetchPage, Page

(* fetchConnectionsForSettlement, the second.                              *)
LEMMA FetchSettlementCases ==
  ASSUME TypeOK, FetchSettlement
  PROVE  /\ at = "settlement" /\ Counter
         /\ UNCHANGED <<fleet, rev, looping, changes, missing, dom, verdict, evidence, steady>>
         /\ \/ Conclude(<<>>, FALSE) /\ UNCHANGED walk
            \/ \E e \in Envelopes(walk.cursor) :
                 /\ ~Repeats(e) /\ walk' = Followed(e)
                 /\ \/ e.more /\ at' = "settlement" /\ UNCHANGED receipt
                    \/ ~e.more /\ Conclude(walk'.data, TRUE)
<1>1. faults \in 0 .. MaxFaults /\ MaxFaults \in Nat
  BY ReceiptAssumption DEF TypeOK
<1>2. CASE ~receipt.login
  <2>1. UNCHANGED faults
    BY <1>2 DEF FetchSettlement
  <2>2. Counter
    BY <1>1, <2>1 DEF Counter
  <2> QED BY <1>2, <2>2 DEF FetchSettlement
<1>3. CASE receipt.login
  <2>1. UNCHANGED faults \/ MayFail
    BY <1>3 DEF FetchSettlement, Page
  <2>2. Counter
    BY <1>1, <2>1 DEF Counter, MayFail
  <2> QED BY <1>3, <2>2, BadNever DEF FetchSettlement, Page
<1> QED BY <1>2, <1>3

(***************************************************************************)
(* Types.                                                                  *)
(***************************************************************************)
ServerType ==
    /\ fleet \in [Conns -> State]
    /\ rev \in Revisions
    /\ looping \in {"none", "summaries", "sources"}
    /\ changes \in 0 .. MaxChanges /\ faults \in 0 .. MaxFaults
    /\ steady \subseteq Conns /\ missing \subseteq Conns

AtType == at \in {"login", "pages", "manifests", "dom", "login2", "banner", "settlement",
                  "done", "threw"}

DomType ==
    dom \in [pending : Seq(Href), seen : SUBSET Href,
             rows : SUBSET (Conns \X {"active", "revoked"}), selected : Href,
             streams : SUBSET Conns, revs : SUBSET Revisions,
             resolved : BOOLEAN, complete : BOOLEAN]

VerdictType ==
    verdict \in [status : {"none", "pass", "fail", "inconclusive"},
                 agreement : {"none", "agree", "disagree", "inconclusive"},
                 fetched : BOOLEAN]

EvidenceType ==
    evidence \in [revs : SUBSET Revisions, had : SUBSET (Conns \X State),
                  listed : SUBSET Conns, rendered : SUBSET Conns]

ReceiptType ==
    receipt \in [login : BOOLEAN, banner : BOOLEAN, evaluated : BOOLEAN, settled : BOOLEAN,
                 read : BOOLEAN, ok : BOOLEAN, had : SUBSET (Conns \X State)]

AllTypes ==
    /\ ServerType /\ AtType /\ WalkType /\ DomType
    /\ VerdictType /\ EvidenceType /\ ReceiptType

(* The parts of the type invariant.                                        *)
LEMMA TypeParts == (TypeOK => AllTypes) /\ (AllTypes => TypeOK) /\ (AllTypes' => TypeOK')
  BY DEF AllTypes, TypeOK, ServerType, AtType, WalkType, DomType, VerdictType, EvidenceType,
         ReceiptType

(* The count of faults stays within its bound.                             *)
LEMMA CounterType == ServerType /\ Counter => faults' \in 0 .. MaxFaults
  BY ReceiptAssumption DEF ServerType, Counter

(* The walk before its first page.                                         *)
LEMMA NewWalkType == NewWalk \in [cursor : Href, seen : SUBSET Conns, data : Seq(Pages),
                                  revs : SUBSET Revisions]
  BY DEF NewWalk, Href

(* The browser's walk before its first page.                               *)
LEMMA NewDomType ==
  NewDom \in [pending : Seq(Href), seen : SUBSET Href,
              rows : SUBSET (Conns \X {"active", "revoked"}), selected : Href,
              streams : SUBSET Conns, revs : SUBSET Revisions,
              resolved : BOOLEAN, complete : BOOLEAN]
  BY DEF NewDom, Href

(* The results before there are any.                                       *)
LEMMA NoneType ==
  /\ NoVerdict \in [status : {"none", "pass", "fail", "inconclusive"},
                    agreement : {"none", "agree", "disagree", "inconclusive"},
                    fetched : BOOLEAN]
  /\ NoEvidence \in [revs : SUBSET Revisions, had : SUBSET (Conns \X State),
                     listed : SUBSET Conns, rendered : SUBSET Conns]
  /\ NoReceipt \in [login : BOOLEAN, banner : BOOLEAN, evaluated : BOOLEAN, settled : BOOLEAN,
                    read : BOOLEAN, ok : BOOLEAN, had : SUBSET (Conns \X State)]
  BY DEF NoVerdict, NoEvidence, NoReceipt

(* The audit begins with all of them.                                      *)
LEMMA InitType == Init => TypeOK
<1> SUFFICES ASSUME Init PROVE TypeOK
  OBVIOUS
<1>1. ServerType /\ AtType
  BY ReceiptAssumption DEF Init, ServerType, AtType, Revisions
<1>2. WalkType /\ DomType /\ VerdictType /\ EvidenceType /\ ReceiptType
  BY NewWalkType, NewDomType, NoneType
  DEF Init, WalkType, DomType, VerdictType, EvidenceType, ReceiptType
<1> QED BY <1>1, <1>2, TypeParts DEF AllTypes

(* Giving up starts over with nothing read.                                *)
LEMMA GiveUpType ==
  ASSUME TypeOK, GiveUp, Counter, UNCHANGED <<fleet, rev, looping, changes>>
  PROVE  TypeOK'
<1>1. ServerType' /\ AtType'
  BY CounterType, TypeParts DEF AllTypes, GiveUp, ServerType, AtType
<1>2. WalkType' /\ DomType' /\ EvidenceType' /\ ReceiptType'
  BY NewWalkType, NewDomType, TypeParts
  DEF AllTypes, GiveUp, WalkType, DomType, EvidenceType, ReceiptType
<1>3. VerdictType'
  BY DEF GiveUp, NoVerdict, VerdictType
<1> QED BY <1>1, <1>2, <1>3, TypeParts DEF AllTypes

(* What stood at the start of the audit, or of the settlement.             *)
LEMMA HadType == TypeOK => {<<c, fleet[c]>> : c \in steady} \in SUBSET (Conns \X State)
  BY DEF TypeOK

(* The receipt is complete when it is written.                             *)
LEMMA ConcludeType ==
  ASSUME TypeOK, NEW data, NEW read \in BOOLEAN, Conclude(data, read)
  PROVE  ReceiptType'
<1>1. Settled(data) \in BOOLEAN
  BY DEF Settled
<1>2. PICK ok \in BOOLEAN : ok = (verdict.status = "pass" /\ receipt.banner /\ Settled(data))
  BY <1>1
<1>3. receipt' = [receipt EXCEPT !.evaluated = TRUE, !.settled = Settled(data), !.read = read,
                                 !.ok = ok, !.had = {<<c, fleet[c]>> : c \in steady}]
  BY <1>2 DEF Conclude
<1>4. /\ receipt.login \in BOOLEAN /\ receipt.banner \in BOOLEAN
      /\ receipt = [login |-> receipt.login, banner |-> receipt.banner,
                    evaluated |-> receipt.evaluated, settled |-> receipt.settled,
                    read |-> receipt.read, ok |-> receipt.ok, had |-> receipt.had]
  BY DEF TypeOK
<1>5. receipt' = [login |-> receipt.login, banner |-> receipt.banner,
                  evaluated |-> TRUE, settled |-> Settled(data), read |-> read, ok |-> ok,
                  had |-> {<<c, fleet[c]>> : c \in steady}]
  BY <1>3, <1>4
<1> QED BY <1>1, <1>4, <1>5, HadType DEF ReceiptType

(* What was listed are connections.                                        *)
LEMMA IdsType == ASSUME NEW data \in Seq(Pages) PROVE Ids(data) \subseteq Conns
<1>1. \A i \in DOMAIN data : data[i] \in Pages
  OBVIOUS
<1> QED BY <1>1 DEF Ids, Pages

(* The two ends of a queue.                                                *)
LEMMA HeadAndTail ==
  ASSUME NEW S, NEW s \in Seq(S), s # <<>>
  PROVE  Head(s) \in S /\ Tail(s) \in Seq(S)
  OBVIOUS

(* The browser's walk adds the rows of a page to what it saw.              *)
LEMMA RenderPageType ==
  ASSUME TypeOK, RenderPage
  PROVE  DomType' /\ Counter
<1> DEFINE href == Head(dom.pending)
           rows == Rows("sources", href)
           top  == {c \in rows : \A d \in rows : c <= d}
<1>1. /\ dom.pending \in Seq(Href) /\ dom.pending # <<>> /\ dom.seen \in SUBSET Href
      /\ dom.rows \in SUBSET (Conns \X {"active", "revoked"}) /\ dom.selected \in Href
      /\ dom.streams \in SUBSET Conns /\ dom.revs \in SUBSET Revisions /\ rev \in Revisions
      /\ dom.resolved \in BOOLEAN /\ dom.complete \in BOOLEAN
      /\ faults \in 0 .. MaxFaults
      /\ dom = [pending |-> dom.pending, seen |-> dom.seen, rows |-> dom.rows,
                selected |-> dom.selected, streams |-> dom.streams, revs |-> dom.revs,
                resolved |-> dom.resolved, complete |-> dom.complete]
  BY DEF TypeOK, RenderPage
<1>2. rows \in SUBSET Conns
  BY PageFacts
<1>3. href \in Href /\ Tail(dom.pending) \in Seq(Href)
  BY <1>1, HeadAndTail
<1>4. PICK hidden \in {{}} \cup {{c} : c \in rows \ top}, sel \in top \cup {None},
           next \in Continuations("sources", href) :
         /\ IF hidden = {} THEN UNCHANGED faults ELSE MayFail
         /\ dom' = [dom EXCEPT
              !.pending  = Tail(@) \o (IF next = None THEN <<>> ELSE <<next>>),
              !.seen     = @ \cup {href},
              !.rows     = @ \cup {<<c, lifecycle(fleet[c])>> : c \in rows \ hidden},
              !.selected = IF @ = None THEN sel ELSE @,
              !.streams  = @ \cup ({sel} \ {None}),
              !.revs     = @ \cup {rev}]
  BY Zenon DEF RenderPage
<1>5. Tail(dom.pending) \o (IF next = None THEN <<>> ELSE <<next>>) \in Seq(Href)
  BY <1>3, ContinuationFacts
<1>6. {<<c, lifecycle(fleet[c])>> : c \in rows \ hidden} \in SUBSET (Conns \X {"active", "revoked"})
  BY <1>2 DEF lifecycle
<1>7. sel \in Href /\ {sel} \ {None} \subseteq Conns
  BY <1>2 DEF Href
<1> HIDE DEF href, rows
<1>8. DomType'
  <2> DEFINE pending2  == Tail(dom.pending) \o (IF next = None THEN <<>> ELSE <<next>>)
             rows2     == dom.rows \cup {<<c, lifecycle(fleet[c])>> : c \in rows \ hidden}
             selected2 == IF dom.selected = None THEN sel ELSE dom.selected
             streams2  == dom.streams \cup ({sel} \ {None})
  <2>0. dom' = [dom EXCEPT !.pending = pending2, !.seen = dom.seen \cup {href}, !.rows = rows2,
                           !.selected = selected2, !.streams = streams2,
                           !.revs = dom.revs \cup {rev}]
    BY <1>4
  <2> HIDE DEF pending2, rows2, selected2, streams2
  <2>1. dom' = [pending  |-> pending2, seen |-> dom.seen \cup {href}, rows |-> rows2,
                selected |-> selected2, streams |-> streams2, revs |-> dom.revs \cup {rev},
                resolved |-> dom.resolved, complete |-> dom.complete]
    BY <1>1, <2>0
  <2>2. dom.seen \cup {href} \in SUBSET Href
    BY <1>1, <1>3
  <2>3. rows2 \in SUBSET (Conns \X {"active", "revoked"})
    BY <1>1, <1>6 DEF rows2
  <2>4. selected2 \in Href
    BY <1>1, <1>7 DEF selected2
  <2>5. streams2 \in SUBSET Conns /\ dom.revs \cup {rev} \in SUBSET Revisions
    BY <1>1, <1>7 DEF streams2
  <2>7. pending2 \in Seq(Href)
    BY <1>5 DEF pending2
  <2>6. dom.resolved \in BOOLEAN /\ dom.complete \in BOOLEAN
    BY <1>1
  <2> QED BY <2>1, <2>2, <2>3, <2>4, <2>5, <2>6, <2>7 DEF DomType
<1>9. Counter
  BY <1>1, <1>4, ReceiptAssumption DEF Counter, MayFail
<1> QED BY <1>8, <1>9

(* The outcomes of the authority.                                          *)
LEMMA StatusType ==
  /\ \A findings : resultStatus(findings) \in {"pass", "fail", "inconclusive"}
  /\ \A data : compareDom(data) \in {"agree", "disagree", "inconclusive"}
  BY DEF resultStatus, compareDom

(* The verdict, and what it was given on.                                  *)
LEMMA EvaluateType ==
  ASSUME TypeOK, Evaluate
  PROVE  TypeOK'
<1>1. AllTypes
  BY TypeParts
<1>2. ServerType' /\ AtType' /\ WalkType' /\ DomType' /\ ReceiptType'
  BY <1>1, NewWalkType, NewDomType
  DEF AllTypes, Evaluate, server, ServerType, AtType, WalkType, DomType, ReceiptType
<1>3. VerdictType'
  BY StatusType DEF Evaluate, VerdictType
<1>4. EvidenceType'
  <2>1. Ids(walk.data) \subseteq Conns
    BY IdsType DEF TypeOK
  <2>2. {row[1] : row \in dom.rows} \subseteq Conns
    BY DEF TypeOK
  <2>3. walk.revs \cup dom.revs \subseteq Revisions
    BY DEF TypeOK
  <2> QED BY <2>1, <2>2, <2>3, HadType DEF Evaluate, EvidenceType
<1> QED BY <1>2, <1>3, <1>4, TypeParts DEF AllTypes

(* The manifests that failed are counted as faults.                        *)
LEMMA FetchManifestsType ==
  ASSUME TypeOK, FetchManifests
  PROVE  TypeOK'
<1>1. AllTypes
  BY TypeParts
<1>2. PICK m \in SUBSET Ids(walk.data), answered \in SUBSET Ids(walk.data) :
        /\ faults + Cardinality(m) <= MaxFaults
        /\ faults' = faults + Cardinality(m)
        /\ missing' = m
        /\ walk' = [walk EXCEPT !.revs = @ \cup {rev : c \in (Ids(walk.data) \ m) \cup answered}]
  BY DEF FetchManifests
<1>3. m \in SUBSET Conns
  BY IdsType DEF TypeOK
<1>4. Cardinality(m) \in Nat
  BY <1>3, FiniteConns, NType
<1>5. faults' \in 0 .. MaxFaults
  BY <1>1, <1>2, <1>4, ReceiptAssumption DEF AllTypes, ServerType
<1>6. WalkType'
  BY <1>1, <1>2 DEF AllTypes, ServerType, WalkType
<1>7. ServerType' /\ AtType' /\ DomType' /\ VerdictType' /\ EvidenceType' /\ ReceiptType'
  BY <1>1, <1>2, <1>3, <1>5
  DEF AllTypes, FetchManifests, ServerType, AtType, DomType, VerdictType, EvidenceType, ReceiptType
<1> QED BY <1>6, <1>7, TypeParts DEF AllTypes

(* A page of the first walk is followed, or the walk given up.             *)
LEMMA FetchPageType ==
  ASSUME TypeOK, FetchPage
  PROVE  TypeOK'
<1>1. CASE GiveUp
  BY <1>1, FetchPageCases, GiveUpType
<1>2. CASE ~GiveUp
  <2>1. PICK e \in Envelopes(walk.cursor) :
          /\ walk' = Followed(e)
          /\ at' = IF e.more THEN "pages" ELSE "manifests"
          /\ UNCHANGED <<missing, dom, verdict, evidence, receipt, steady>>
    BY <1>2, FetchPageCases
  <2>2. WalkType'
    BY <2>1, FollowedType
  <2>3. Counter /\ UNCHANGED <<fleet, rev, looping, changes>>
    BY FetchPageCases
  <2>4. ServerType' /\ AtType'
    BY <2>1, <2>3, CounterType, TypeParts DEF AllTypes, ServerType, AtType
  <2>5. DomType' /\ VerdictType' /\ EvidenceType' /\ ReceiptType'
    BY <2>1, TypeParts DEF AllTypes, DomType, VerdictType, EvidenceType, ReceiptType
  <2> QED BY <2>2, <2>4, <2>5, TypeParts DEF AllTypes
<1> QED BY <1>1, <1>2

(* A page of the second walk is followed, or the receipt concluded.        *)
LEMMA FetchSettlementType ==
  ASSUME TypeOK, FetchSettlement
  PROVE  TypeOK'
<1>1. /\ Counter
      /\ UNCHANGED <<fleet, rev, looping, changes, missing, dom, verdict, evidence, steady>>
  BY FetchSettlementCases
<1>2. ServerType'
  BY <1>1, CounterType, TypeParts DEF AllTypes, ServerType
<1>3. DomType' /\ VerdictType' /\ EvidenceType'
  BY <1>1, TypeParts DEF AllTypes, DomType, VerdictType, EvidenceType
<1>4. CASE Conclude(<<>>, FALSE) /\ UNCHANGED walk
  <2>1. ReceiptType'
    BY <1>4, ConcludeType
  <2>2. AtType' /\ WalkType'
    BY <1>4, TypeParts DEF AllTypes, AtType, WalkType, Conclude
  <2> QED BY <1>2, <1>3, <2>1, <2>2, TypeParts DEF AllTypes
<1>5. ASSUME NEW e \in Envelopes(walk.cursor), walk' = Followed(e),
             \/ at' = "settlement" /\ UNCHANGED receipt
             \/ Conclude(walk'.data, TRUE)
      PROVE  TypeOK'
  <2>1. ReceiptType'
    <3>1. CASE UNCHANGED receipt
      BY <3>1, TypeParts DEF AllTypes, ReceiptType
    <3>2. CASE Conclude(walk'.data, TRUE)
      BY <3>2, ConcludeType
    <3> QED BY <1>5, <3>1, <3>2
  <2>2. AtType' /\ WalkType'
    BY <1>5, FollowedType DEF AtType, Conclude
  <2> QED BY <1>2, <1>3, <2>1, <2>2, TypeParts DEF AllTypes
<1> QED BY <1>4, <1>5, FetchSettlementCases

(* The remaining steps change few variables, and each to a value of its    *)
(* type.                                                                   *)
LEMMA TypeStep == TypeOK /\ [Next]_vars => TypeOK'
<1> SUFFICES ASSUME TypeOK, [Next]_vars PROVE TypeOK'
  OBVIOUS
<1>0. AllTypes
  BY TypeParts
<1>1. ASSUME NEW c \in Conns, NEW s \in State, Change(c, s) PROVE TypeOK'
  <2>1. ServerType'
    BY <1>0, <1>1, ReceiptAssumption DEF AllTypes, ServerType, Change
  <2>2. AllTypes'
    BY <1>0, <1>1, <2>1
    DEF AllTypes, Change, AtType, WalkType, DomType, VerdictType, EvidenceType, ReceiptType
  <2> QED BY <2>2, TypeParts
<1>2. CASE Redeploy
  <2>1. ServerType'
    BY <1>0, <1>2 DEF AllTypes, ServerType, Redeploy, Revisions
  <2>2. AllTypes'
    BY <1>0, <1>2, <2>1
    DEF AllTypes, Redeploy, AtType, WalkType, DomType, VerdictType, EvidenceType, ReceiptType
  <2> QED BY <2>2, TypeParts
<1>3. CASE LogIn
  <2>1. AllTypes'
    BY <1>0, <1>3 DEF AllTypes, LogIn, server, ServerType, AtType, WalkType, DomType, VerdictType,
                      EvidenceType, ReceiptType
  <2> QED BY <2>1, TypeParts
<1>4. CASE LogInFails
  <2>1. Counter
    BY <1>0, <1>4, ReceiptAssumption DEF AllTypes, ServerType, LogInFails, MayFail, Counter
  <2> QED BY <1>4, <2>1, GiveUpType DEF LogInFails
<1>5. CASE FetchPage
  BY <1>5, FetchPageType
<1>6. CASE FetchManifests
  BY <1>6, FetchManifestsType
<1>7. CASE RepeatPage
  <2>1. DomType'
    <3>1. dom.pending \in Seq(Href) /\ dom.pending # <<>>
      BY <1>0, <1>7 DEF AllTypes, DomType, RepeatPage
    <3>2. Tail(dom.pending) \in Seq(Href)
      BY <3>1
    <3> QED BY <1>0, <1>7, <3>2 DEF AllTypes, DomType, RepeatPage
  <2>2. AllTypes'
    BY <1>0, <1>7, <2>1 DEF AllTypes, RepeatPage, server, ServerType, AtType, WalkType,
                            VerdictType, EvidenceType, ReceiptType
  <2> QED BY <2>2, TypeParts
<1>8. CASE RenderPage
  <2>1. DomType' /\ faults' \in 0 .. MaxFaults
    BY <1>0, <1>8, RenderPageType, CounterType DEF AllTypes
  <2>2. UNCHANGED <<fleet, rev, looping, changes, at, walk, missing, verdict, evidence,
                    receipt, steady>>
    BY <1>8 DEF RenderPage
  <2>3. AllTypes'
    BY <1>0, <2>1, <2>2 DEF AllTypes, ServerType, AtType, WalkType, VerdictType, EvidenceType,
                            ReceiptType
  <2> QED BY <2>3, TypeParts
<1>9. CASE RenderFails
  <2>1. Counter
    BY <1>0, <1>9, ReceiptAssumption DEF AllTypes, ServerType, RenderFails, MayFail, Counter
  <2>2. DomType'
    <3>1. dom.revs \in SUBSET Revisions
      BY <1>0 DEF AllTypes, DomType
    <3>2. dom' = [pending |-> <<>>, seen |-> {}, rows |-> {}, selected |-> None,
                  streams |-> {}, revs |-> dom.revs, resolved |-> FALSE, complete |-> FALSE]
      BY <1>9 DEF RenderFails, NewDom
    <3>3. <<>> \in Seq(Href) /\ None \in Href
      BY DEF Href
    <3> QED BY <3>1, <3>2, <3>3 DEF DomType
  <2>3. AllTypes'
    BY <1>0, <1>9, <2>1, <2>2, CounterType
    DEF AllTypes, RenderFails, ServerType, AtType, WalkType, VerdictType, EvidenceType, ReceiptType
  <2> QED BY <2>3, TypeParts
<1>10. CASE Evaluate
  BY <1>10, EvaluateType
<1>11. CASE LogInAgain
  <2>0. ReceiptType'
    BY <1>0, <1>11 DEF AllTypes, LogInAgain, ReceiptType
  <2>1. AllTypes'
    BY <1>0, <1>11, <2>0 DEF AllTypes, LogInAgain, server, ServerType, AtType, WalkType, DomType,
                             VerdictType, EvidenceType
  <2> QED BY <2>1, TypeParts
<1>12. CASE LogInAgainFails
  <2>1. Counter
    BY <1>0, <1>12, ReceiptAssumption DEF AllTypes, ServerType, LogInAgainFails, MayFail, Counter
  <2>2. AllTypes'
    BY <1>0, <1>12, <2>1, CounterType
    DEF AllTypes, LogInAgainFails, ServerType, AtType, WalkType, DomType, VerdictType,
        EvidenceType, ReceiptType
  <2> QED BY <2>2, TypeParts
<1>13. CASE FetchBanner
  <2>1. PICK quiet \in BOOLEAN : receipt' = [receipt EXCEPT !.banner = quiet /\ receipt.login]
    BY <1>13 DEF FetchBanner
  <2>2. ReceiptType'
    BY <1>0, <2>1 DEF AllTypes, ReceiptType
  <2>3. AllTypes'
    BY <1>0, <1>13, <2>2, NoneType
    DEF AllTypes, FetchBanner, server, ServerType, AtType, WalkType, DomType, VerdictType,
        EvidenceType
  <2> QED BY <2>3, TypeParts
<1>14. CASE FetchSettlement
  BY <1>14, FetchSettlementType
<1>15. CASE SettlementThrows
  <2>1. Counter
    BY <1>0, <1>15, ReceiptAssumption DEF AllTypes, ServerType, SettlementThrows, MayFail, Counter
  <2>2. AllTypes'
    BY <1>0, <1>15, <2>1, CounterType
    DEF AllTypes, SettlementThrows, ServerType, AtType, WalkType, DomType, VerdictType,
        EvidenceType, ReceiptType
  <2> QED BY <2>2, TypeParts
<1>16. CASE UNCHANGED vars
  BY <1>16 DEF vars, TypeOK
<1> QED BY <1>1, <1>2, <1>3, <1>4, <1>5, <1>6, <1>7, <1>8, <1>9, <1>10, <1>11, <1>12, <1>13,
           <1>14, <1>15, <1>16 DEF Next, AuditStep

(***************************************************************************)
(* The verdict.                                                            *)
(***************************************************************************)

(* When the inventory has been walked, a connection that lasted is listed, *)
(* and both its first and its last row are true of it.                     *)
LEMMA LastingRows ==
  ASSUME TypeOK, WalkInv, at \in {"manifests", "dom"},
         NEW c \in steady, fleet[c] # "absent"
  PROVE  /\ c \in Ids(walk.data)
         /\ walk.data[Min(PagesOf(walk.data, c))][c] = fleet[c]
         /\ walk.data[Max(PagesOf(walk.data, c))][c] = fleet[c]
<1> DEFINE P == PagesOf(walk.data, c)
<1>1. c \in Ids(walk.data)
  BY DEF WalkInv, Listed, Walking
<1>2. walk.data \in Seq(Pages) /\ Len(walk.data) \in Nat
  BY DEF TypeOK
<1>3. P \in SUBSET (1 .. Len(walk.data)) /\ P # {}
  BY <1>1, <1>2 DEF PagesOf, Ids
<1>4. \A i \in P : walk.data[i][c] = fleet[c]
  BY DEF PagesOf, WalkInv, AsRead
<1> HIDE DEF P
<1>5. P \in SUBSET Nat
  BY <1>2, <1>3
<1>6. Min(P) \in P /\ Max(P) \in P
  BY <1>2, <1>3, <1>5, Smallest, Largest
<1> QED BY <1>1, <1>4, <1>6 DEF P

(* A connection that was failing, or at work, all the while does not pass. *)
LEMMA TroubleFound ==
  ASSUME TypeOK, WalkInv, at = "dom",
         NEW c \in steady, fleet[c] \in {"failed", "working"}, NEW more
  PROVE  resultStatus(ConnectionFindings(walk.data) \cup more) # "pass"
<1> DEFINE found == ConnectionFindings(walk.data) \cup more
<1>1. /\ c \in Ids(walk.data)
      /\ walk.data[Min(PagesOf(walk.data, c))][c] = fleet[c]
  BY LastingRows
<1>2. Assessed(walk.data, c) \subseteq found
  BY <1>1 DEF ConnectionFindings
<1>3. \/ <<"manifest_unavailable", FALSE>> \in found
      \/ <<"failed", TRUE>> \in found
      \/ <<"active_bounded_work", TRUE>> \in found
  BY <1>1, <1>2 DEF Assessed
<1> HIDE DEF found
<1>4. \/ "manifest_unavailable" \in {f[1] : f \in found}
      \/ <<"failed", TRUE>> \in found
      \/ "active_bounded_work" \in {f[1] : f \in found}
  BY <1>3
<1>5. resultStatus(found) # "pass"
  BY <1>4 DEF resultStatus
<1> QED BY <1>5 DEF found

(* An agreement vouches for every active connection of the inventory.      *)
LEMMA AgreementHolds ==
  ASSUME TypeOK, WalkInv, at = "dom", compareDom(walk.data) = "agree",
         NEW c \in steady, fleet[c] \in Active
  PROVE  c \in {row[1] : row \in dom.rows}
<1> DEFINE expected == Ids(walk.data)
           scope(d) == lifecycle(walk.data[Max(PagesOf(walk.data, d))][d])
           active   == {d \in expected : scope(d) = "active"}
           observed == {row[1] : row \in dom.rows}
<1>1. c \in expected /\ walk.data[Max(PagesOf(walk.data, c))][c] = fleet[c]
  BY LastingRows DEF Active
<1>2. c \in active
  BY <1>1 DEF lifecycle
<1>3. missingConnectionIds(active, observed) = {}
  BY DEF compareDom
<1> QED BY <1>2, <1>3 DEF missingConnectionIds

(***************************************************************************)
(* The walk, step by step.                                                 *)
(***************************************************************************)

(* A walk that has not begun has read nothing.                             *)
LEMMA NewWalkInv ==
  ASSUME walk' = NewWalk
  PROVE  AsRead' /\ Counted'
<1>1. walk'.data = <<>> /\ walk'.seen = {} /\ Cardinality({}) = 0 /\ Len(<<>>) = 0
  BY FS_EmptySet DEF NewWalk
<1> QED BY <1>1 DEF AsRead, Counted

(* Giving up the first walk, or ending it with a verdict.                  *)
LEMMA AfterWalk ==
  ASSUME walk' = NewWalk, at' \in {"login2", "banner"}
  PROVE  WalkInv'
<1>1. AsRead' /\ Counted'
  BY NewWalkInv
<1> QED BY <1>1 DEF WalkInv, Listed, Fresh

(* At first nothing has been read.                                         *)
LEMMA WalkStart == Init => WalkInv
<1> SUFFICES ASSUME Init PROVE WalkInv
  OBVIOUS
<1>1. walk = NewWalk /\ at = "login"
  BY DEF Init
<1>2. walk.data = <<>> /\ walk.seen = {} /\ Cardinality({}) = 0 /\ Len(<<>>) = 0
  BY <1>1, FS_EmptySet DEF NewWalk
<1> QED BY <1>1, <1>2 DEF WalkInv, AsRead, Listed, Fresh, Counted, Walking

(* Steps that read no page and do not move on from one.                    *)
LEMMA WalkKept ==
  ASSUME WalkInv, UNCHANGED <<fleet, steady, walk, at>>
  PROVE  WalkInv'
  BY DEF WalkInv, AsRead, Listed, Fresh, Counted, Walking, Ids

(* A walk starts, or is left out, with nothing read.                       *)
LEMMA WalkBegins ==
  ASSUME TypeOK, walk = NewWalk, UNCHANGED walk, at' \in {"pages", "settlement", "done"},
         steady' \subseteq Conns
  PROVE  WalkInv'
<1>1. walk'.data = <<>> /\ walk'.seen = {} /\ walk'.cursor = None
  BY DEF NewWalk
<1>2. Cardinality({}) = 0 /\ Len(<<>>) = 0
  BY FS_EmptySet
<1>3. \A c \in Conns : ~(c <= None)
  BY NType DEF Conns, None
<1> QED BY <1>1, <1>2, <1>3 DEF WalkInv, AsRead, Listed, Fresh, Counted, Walking

(* Every step of the audit and of the instance keeps the walk's account.   *)
LEMMA WalkStep == TypeOK /\ WalkInv /\ [Next]_vars => WalkInv'
<1> SUFFICES ASSUME TypeOK, WalkInv, [Next]_vars PROVE WalkInv'
  OBVIOUS
<1>1. ASSUME NEW c \in Conns, NEW s \in State, Change(c, s) PROVE WalkInv'
  <2>1. /\ UNCHANGED <<walk, at>> /\ steady' = steady \ {c}
        /\ fleet' = [fleet EXCEPT ![c] = s] /\ fleet \in [Conns -> State] /\ steady \subseteq Conns
    BY <1>1 DEF Change, TypeOK
  <2>2. \A d \in steady' : d \in steady /\ fleet'[d] = fleet[d]
    BY <2>1
  <2>3. AsRead' /\ Listed'
    BY <2>1, <2>2 DEF WalkInv, AsRead, Listed, Walking, Ids
  <2> QED BY <2>1, <2>3 DEF WalkInv, Fresh, Counted, Walking
<1>2. CASE Redeploy
  BY <1>2, WalkKept DEF Redeploy
<1>3. CASE LogIn
  <2>1. walk = NewWalk /\ UNCHANGED <<walk, steady>> /\ at' = "pages" /\ steady \subseteq Conns
    BY <1>3 DEF LogIn, WalkInv, Fresh, TypeOK
  <2> QED BY <2>1, WalkBegins
<1>4. CASE LogInFails
  BY <1>4, AfterWalk DEF LogInFails, GiveUp
<1>5. CASE FetchPage
  <2>1. CASE GiveUp
    BY <2>1, AfterWalk DEF GiveUp
  <2>2. ASSUME NEW e \in Envelopes(walk.cursor), ~Repeats(e), walk' = Followed(e),
               at' = IF e.more THEN "pages" ELSE "manifests", UNCHANGED steady
        PROVE  WalkInv'
    <3>1. Walking /\ UNCHANGED <<fleet, steady>>
      BY <1>5, <2>2, FetchPageCases DEF Walking
    <3>2. /\ AsRead'
          /\ \A c \in steady : fleet[c] # "absent" /\ (e.more => c <= e.next)
                                  => c \in Ids(walk'.data)
          /\ Len(walk'.data) <= Cardinality(walk'.seen) + 1
          /\ e.more => Len(walk'.data) <= Cardinality(walk'.seen)
      BY <2>2, <3>1, FollowedReads
    <3>3. walk'.cursor = e.next
      BY <2>2 DEF Followed
    <3>4. Listed'
      BY <2>2, <3>1, <3>2, <3>3 DEF Listed, Walking
    <3>5. Counted' /\ Fresh'
      BY <2>2, <3>2 DEF Counted, Fresh, Walking
    <3> QED BY <3>2, <3>4, <3>5 DEF WalkInv
  <2> QED BY <1>5, <2>1, <2>2, FetchPageCases
<1>6. CASE FetchManifests
  <2>1. /\ at = "manifests" /\ at' = "dom" /\ UNCHANGED <<fleet, steady>>
        /\ walk'.data = walk.data /\ walk'.seen = walk.seen
    BY <1>6 DEF FetchManifests, TypeOK
  <2> QED BY <2>1 DEF WalkInv, AsRead, Listed, Fresh, Counted, Walking, Ids
<1>7. CASE RepeatPage \/ RenderPage \/ RenderFails
  <2>1. at = "dom" /\ UNCHANGED <<fleet, steady, walk, at>>
    BY <1>7 DEF RepeatPage, RenderPage, RenderFails, server
  <2> QED BY <2>1, WalkKept
<1>8. CASE Evaluate
  BY <1>8, AfterWalk DEF Evaluate
<1>9. CASE LogInAgain
  <2>1. walk' = NewWalk /\ at' = "banner"
    BY <1>9 DEF LogInAgain, WalkInv, Fresh
  <2> QED BY <2>1, AfterWalk
<1>10. CASE LogInAgainFails
  <2>1. walk' = NewWalk /\ at' \in {"banner", "threw"}
    BY <1>10 DEF LogInAgainFails, WalkInv, Fresh
  <2>2. AsRead' /\ Counted'
    BY <2>1, NewWalkInv
  <2> QED BY <2>1, <2>2 DEF WalkInv, Listed, Fresh
<1>11. CASE FetchBanner
  <2>1. walk = NewWalk /\ UNCHANGED walk /\ steady' = Conns /\ at' \in {"settlement", "done"}
    BY <1>11 DEF FetchBanner, WalkInv, Fresh
  <2> QED BY <2>1, WalkBegins
<1>12. CASE FetchSettlement
  <2>1. at = "settlement" /\ Walking /\ UNCHANGED <<fleet, steady>>
    BY <1>12, FetchSettlementCases DEF Walking
  <2>2. CASE Conclude(<<>>, FALSE) /\ UNCHANGED walk
    <3>1. at' = "done"
      BY <2>2 DEF Conclude
    <3> QED BY <2>1, <2>2, <3>1 DEF WalkInv, AsRead, Listed, Fresh, Counted, Walking
  <2>3. ASSUME NEW e \in Envelopes(walk.cursor), ~Repeats(e), walk' = Followed(e),
               \/ e.more /\ at' = "settlement"
               \/ ~e.more /\ at' = "done"
        PROVE  WalkInv'
    <3>1. /\ AsRead'
          /\ \A c \in steady : fleet[c] # "absent" /\ (e.more => c <= e.next)
                                  => c \in Ids(walk'.data)
          /\ Len(walk'.data) <= Cardinality(walk'.seen) + 1
          /\ e.more => Len(walk'.data) <= Cardinality(walk'.seen)
      BY <2>1, <2>3, FollowedReads
    <3>2. walk'.cursor = e.next
      BY <2>3 DEF Followed
    <3>3. Listed'
      BY <2>1, <2>3, <3>1, <3>2 DEF Listed, Walking
    <3>4. Counted' /\ Fresh'
      BY <2>3, <3>1 DEF Counted, Fresh, Walking
    <3> QED BY <3>1, <3>3, <3>4 DEF WalkInv
  <2> QED BY <1>12, <2>2, <2>3, FetchSettlementCases DEF Conclude
<1>13. CASE SettlementThrows
  <2>1. at' = "threw" /\ UNCHANGED <<fleet, steady, walk>>
    BY <1>13 DEF SettlementThrows
  <2> QED BY <2>1 DEF WalkInv, AsRead, Listed, Fresh, Counted, Walking
<1>14. CASE UNCHANGED vars
  BY <1>14, WalkKept DEF vars
<1> QED BY <1>1, <1>2, <1>3, <1>4, <1>5, <1>6, <1>7, <1>8, <1>9, <1>10, <1>11, <1>12, <1>13,
           <1>14 DEF Next, AuditStep

(***************************************************************************)
(* The three promises.                                                     *)
(***************************************************************************)
Promises == PassIsEarned /\ AgreeMeansRendered /\ ReadMeansSettled

IInv == TypeOK /\ WalkInv /\ Promises

(* The verdict is given at the end of both walks.                          *)
LEMMA EvaluateEarns ==
  ASSUME TypeOK, WalkInv, Promises, Evaluate
  PROVE  Promises'
<1>1. /\ at = "dom"
      /\ verdict'.status = resultStatus(ConnectionFindings(walk.data) \cup DomFindings(walk.data))
      /\ verdict'.agreement = compareDom(walk.data)
      /\ evidence'.revs = walk.revs \cup dom.revs
      /\ evidence'.had = {<<c, fleet[c]>> : c \in steady}
      /\ evidence'.rendered = {row[1] : row \in dom.rows}
      /\ UNCHANGED receipt
  BY DEF Evaluate
<1>2. ASSUME verdict'.status = "pass" PROVE PassIsEarned'
  <2>1. evidence'.revs \subseteq {Expected}
    <3>1. RevisionExact
      BY <1>1, <1>2 DEF resultStatus
    <3> QED BY <1>1, <3>1 DEF RevisionExact
  <2>2. ASSUME NEW h \in evidence'.had PROVE h[2] \notin {"failed", "working"}
    <3>1. PICK c \in steady : h = <<c, fleet[c]>>
      BY <1>1
    <3> QED BY <1>1, <1>2, <3>1, TroubleFound
  <2> QED BY <2>1, <2>2 DEF PassIsEarned
<1>3. AgreeMeansRendered'
  <2> SUFFICES ASSUME verdict'.agreement = "agree", NEW h \in evidence'.had, h[2] \in Active
               PROVE  h[1] \in evidence'.rendered
    BY DEF AgreeMeansRendered
  <2>1. PICK c \in steady : h = <<c, fleet[c]>>
    BY <1>1
  <2> QED BY <1>1, <2>1, AgreementHolds
<1>4. ReadMeansSettled'
  BY <1>1 DEF Promises, ReadMeansSettled
<1> QED BY <1>2, <1>3, <1>4 DEF Promises, PassIsEarned

(* A second walk that came to its end has read every projection.           *)
LEMMA SettlementReads ==
  ASSUME TypeOK, WalkInv, Promises, FetchSettlement
  PROVE  Promises'
<1>1. at = "settlement" /\ Walking /\ UNCHANGED <<fleet, steady, verdict, evidence>>
  BY FetchSettlementCases DEF Walking
<1>2. PassIsEarned' /\ AgreeMeansRendered'
  BY <1>1 DEF Promises, PassIsEarned, AgreeMeansRendered
<1>3. receipt = [login |-> receipt.login, banner |-> receipt.banner,
                 evaluated |-> receipt.evaluated, settled |-> receipt.settled,
                 read |-> receipt.read, ok |-> receipt.ok, had |-> receipt.had]
  BY DEF TypeOK
<1>4. CASE Conclude(<<>>, FALSE)
  <2>1. receipt'.read = FALSE
    BY <1>3, <1>4 DEF Conclude
  <2> QED BY <1>2, <2>1 DEF Promises, ReadMeansSettled
<1>5. CASE UNCHANGED receipt
  BY <1>2, <1>5 DEF Promises, ReadMeansSettled
<1>6. ASSUME NEW e \in Envelopes(walk.cursor), ~Repeats(e), walk' = Followed(e), ~e.more,
             Conclude(walk'.data, TRUE)
      PROVE  Promises'
  <2>1. /\ AsRead'
        /\ \A c \in steady : fleet[c] # "absent" => c \in Ids(walk'.data)
    BY <1>1, <1>6, FollowedReads
  <2>2. /\ receipt'.had = {<<c, fleet[c]>> : c \in steady}
        /\ receipt'.ok = (verdict.status = "pass" /\ receipt.banner /\ Settled(walk'.data))
    BY <1>3, <1>6 DEF Conclude
  <2>3. ASSUME receipt'.ok, NEW h \in receipt'.had PROVE h[2] # "unsettled"
    <3>1. PICK c \in steady : h = <<c, fleet[c]>>
      BY <2>2
    <3>2. SUFFICES ASSUME fleet[c] = "unsettled" PROVE FALSE
      BY <3>1
    <3>3. c \in Ids(walk'.data)
      BY <2>1, <3>2
    <3>4. PICK i \in DOMAIN walk'.data : c \in DOMAIN walk'.data[i]
      BY <3>3 DEF Ids
    <3>5. walk'.data[i][c] = "unsettled"
      BY <1>1, <2>1, <3>2, <3>4 DEF AsRead
    <3> QED BY <2>2, <2>3, <3>4, <3>5 DEF Settled
  <2> QED BY <1>2, <2>3 DEF Promises, ReadMeansSettled
<1> QED BY <1>4, <1>5, <1>6, FetchSettlementCases

(* Every other step gives no verdict, or forgets what one was given on.    *)
LEMMA PromiseStep == TypeOK /\ WalkInv /\ Promises /\ [Next]_vars => Promises'
<1> SUFFICES ASSUME TypeOK, WalkInv, Promises, [Next]_vars PROVE Promises'
  OBVIOUS
<1>0. receipt = [login |-> receipt.login, banner |-> receipt.banner,
                 evaluated |-> receipt.evaluated, settled |-> receipt.settled,
                 read |-> receipt.read, ok |-> receipt.ok, had |-> receipt.had]
  BY DEF TypeOK
<1>1. ASSUME UNCHANGED <<verdict, evidence, receipt>> PROVE Promises'
  BY <1>1 DEF Promises, PassIsEarned, AgreeMeansRendered, ReadMeansSettled
<1>2. ASSUME GiveUp PROVE Promises'
  <2>1. /\ verdict'.status = "inconclusive" /\ verdict'.agreement = "inconclusive"
        /\ UNCHANGED receipt
    BY <1>2 DEF GiveUp, NoVerdict
  <2> QED BY <2>1 DEF Promises, PassIsEarned, AgreeMeansRendered, ReadMeansSettled
<1>3. ASSUME NEW c \in Conns, NEW s \in State, Change(c, s) PROVE Promises'
  <2>1. UNCHANGED <<verdict, evidence, receipt>>
    BY <1>3 DEF Change
  <2> QED BY <1>1, <2>1
<1>4. CASE Redeploy \/ LogIn \/ FetchManifests \/ RepeatPage \/ RenderPage \/ RenderFails
  <2>1. UNCHANGED <<verdict, evidence, receipt>>
    BY <1>4 DEF Redeploy, LogIn, FetchManifests, RepeatPage, RenderPage, RenderFails
  <2> QED BY <1>1, <2>1
<1>5. CASE LogInFails
  BY <1>2, <1>5 DEF LogInFails
<1>6. CASE FetchPage
  BY <1>1, <1>2, <1>6, FetchPageCases
<1>7. CASE Evaluate
  BY <1>7, EvaluateEarns
<1>8. CASE LogInAgain
  <2>1. /\ receipt'.ok = receipt.ok /\ receipt'.read = receipt.read /\ receipt'.had = receipt.had
        /\ UNCHANGED <<verdict, evidence>>
    BY <1>0, <1>8 DEF LogInAgain
  <2> QED BY <2>1 DEF Promises, PassIsEarned, AgreeMeansRendered, ReadMeansSettled
<1>9. CASE LogInAgainFails \/ SettlementThrows
  BY <1>1, <1>9 DEF LogInAgainFails, SettlementThrows
<1>10. CASE FetchBanner
  <2>1. /\ receipt'.ok = receipt.ok /\ receipt'.read = receipt.read /\ receipt'.had = receipt.had
        /\ UNCHANGED verdict /\ evidence'.had = {} /\ evidence'.revs = {}
    BY <1>0, <1>10 DEF FetchBanner, NoEvidence
  <2> QED BY <2>1 DEF Promises, PassIsEarned, AgreeMeansRendered, ReadMeansSettled
<1>11. CASE FetchSettlement
  BY <1>11, SettlementReads
<1>12. CASE UNCHANGED vars
  BY <1>1, <1>12 DEF vars
<1> QED BY <1>3, <1>4, <1>5, <1>6, <1>7, <1>8, <1>9, <1>10, <1>11, <1>12 DEF Next, AuditStep

(* Nothing is promised before the first verdict.                           *)
THEOREM Initially == Init => IInv
<1>1. Init => Promises
  BY DEF Init, Promises, PassIsEarned, AgreeMeansRendered, ReadMeansSettled, NoVerdict, NoReceipt
<1> QED BY <1>1, InitType, WalkStart DEF IInv

(* Every step of the audit and of the instance keeps the invariant.        *)
THEOREM Inductive == IInv /\ [Next]_vars => IInv'
  BY TypeStep, WalkStep, PromiseStep DEF IInv

(* Types: what was read are pages of connections as they were.             *)
THEOREM Typed == Spec => []TypeOK
<1>1. IInv => TypeOK
  BY DEF IInv
<1> QED BY <1>1, Initially, Inductive, PTL DEF Spec

(* runLiveStreamHealthAuthority: a pass is never the result of having      *)
(* overlooked trouble that lasted, nor of answers of two revisions.        *)
THEOREM Earned == Spec => []PassIsEarned
<1>1. IInv => PassIsEarned
  BY DEF IInv, Promises
<1> QED BY <1>1, Initially, Inductive, PTL DEF Spec

(* compareDom: an agreement vouches for every connection that was active.  *)
THEOREM Rendered == Spec => []AgreeMeansRendered
<1>1. IInv => AgreeMeansRendered
  BY DEF IInv, Promises
<1> QED BY <1>1, Initially, Inductive, PTL DEF Spec

(* fetchConnectionsForSettlement: a second walk that came to its end       *)
(* overlooks no projection that was unsettled.                             *)
THEOREM SettledRead == Spec => []ReadMeansSettled
<1>1. IInv => ReadMeansSettled
  BY DEF IInv, Promises
<1> QED BY <1>1, Initially, Inductive, PTL DEF Spec

(* fetchAllConnectorSummaries: no continuation is followed twice, so the   *)
(* walk ends although the instance decides how it goes on.                 *)
THEOREM Bounded == Spec => []WalkIsBounded
<1>1. IInv => WalkIsBounded
  <2> SUFFICES ASSUME IInv PROVE WalkIsBounded
    OBVIOUS
  <2>1. walk.seen \in SUBSET Conns /\ Len(walk.data) \in Nat
    BY DEF IInv, TypeOK
  <2>2. Cardinality(walk.seen) \in 0 .. N
    BY <2>1, FiniteConns
  <2>3. Len(walk.data) <= Cardinality(walk.seen) + 1
    BY DEF IInv, WalkInv, Counted
  <2> QED BY <2>1, <2>2, <2>3, NType DEF WalkIsBounded
<1> QED BY <1>1, Initially, Inductive, PTL DEF Spec
=============================================================================
