-------------------------- MODULE SyncServerProofs --------------------------
(***************************************************************************)
(* Proofs about SyncServer, for every fixture, projection, set of limits   *)
(* and number of clients.                                                  *)
(***************************************************************************)
EXTENDS SyncServer, FiniteSetTheorems, TLAPS

(* What the version clock has stamped: every record has a stamp, a         *)
(* deletion is stamped once, and a field counted as changed was written by *)
(* the record's last write.                                                *)
Stamped ==
  /\ \A r \in Records : recordVersions[r] > 0 /\ recordVersions[r] <= versionClock
  /\ \A r \in Records : r \in live <=> tombstones[r] = 0
  /\ \A r \in Records : r \notin live => tombstones[r] = recordVersions[r]
  /\ \A r, s \in Records : r \notin live /\ s \notin live /\ tombstones[r] = tombstones[s] => r = s
  /\ \A r \in Records : \A f \in Fields : content[r][f] <= recordVersions[r]
  /\ \A r \in live : \A f \in changedFields[r] : content[r][f] = recordVersions[r]

(* The cursor of an open session, and the tokens stored. *)
Anchored ==
  \A c \in Clients :
    /\ token[c] <= versionClock
    /\ anchor[c] <= versionClock
    /\ session[c].open => session[c].horizon = anchor[c] /\ session[c].from = token[c]

SessionData(c) == Data(c, session[c].from, session[c].horizon)

(* The rows of an open session that have been delivered and still qualify  *)
(* lie before its offset.                                                  *)
DeliveredBehind ==
  \A c \in Clients : session[c].open =>
    \A r \in seen[c] \cap SessionData(c) : Index(r, SessionData(c)) < session[c].offset

(* A record whose last write a grant cannot see is up to date or missed. *)
HiddenWrite ==
  \A c \in Clients : \A r \in live \ missed[c] :
    changedFields[r] \cap Projection[c] = {} => Exact(c, r)

(* What an open session has not made exact it has yet to deliver. *)
Pending ==
  \A c \in Clients : session[c].open =>
    \A r \in Records \ missed[c] :
      recordVersions[r] <= session[c].horizon => Exact(c, r) \/ r \in SessionData(c) \ seen[c]

-----------------------------------------------------------------------------
(* The order of a response                                                 *)

(* A set of records is finite, and so are its parts. *)
LEMMA FiniteParts ==
  ASSUME NEW D \in SUBSET Records
  PROVE  IsFiniteSet(D) /\ Cardinality(D) \in Nat
  BY FS_Subset, FS_CardinalityType, SyncAssumption

(* Before is a strict total order on records. *)
LEMMA Order ==
  ASSUME TypeOK, Stamped, NEW r \in Records, NEW s \in Records
  PROVE  /\ ~Before(r, r)
         /\ r # s => Before(r, s) \/ Before(s, r)
         /\ \A q \in Records : Before(q, s) /\ Before(s, r) => Before(q, r)
<1>1. \A q \in Records : Pos[q] \in Nat /\ tombstones[q] \in Nat
  BY SyncAssumption DEF TypeOK
<1>2. \A q \in Records : Pos[q] = Pos[s] => q = s
  BY SyncAssumption
<1>3. ~Before(r, r)
  BY <1>1 DEF Before
<1>4. r # s => Before(r, s) \/ Before(s, r)
  BY <1>1, <1>2 DEF Before, Stamped
<1>5. \A q \in Records : Before(q, s) /\ Before(s, r) => Before(q, r)
  BY <1>1 DEF Before
<1> QED BY <1>3, <1>4, <1>5

(* The index of a row is a natural number. *)
LEMMA IndexNat ==
  ASSUME NEW D \in SUBSET Records, NEW r
  PROVE  Index(r, D) \in Nat
  BY FiniteParts DEF Index

(* An earlier row has a smaller index, and two rows never share one. *)
LEMMA IndexMonotone ==
  ASSUME TypeOK, Stamped, NEW D \in SUBSET Records, NEW r \in D, NEW s \in D, Before(s, r)
  PROVE  Index(s, D) < Index(r, D)
<1> DEFINE S == {q \in D : Before(q, s)}
           R == {q \in D : Before(q, r)}
<1>1. S \in SUBSET R /\ s \in R /\ s \notin S
  BY Order
<1>2. IsFiniteSet(R) /\ Cardinality(R) \in Nat /\ Cardinality(S) \in Nat
  BY FiniteParts
<1> HIDE DEF S, R
<1>3. Cardinality(S) <= Cardinality(R) /\ Cardinality(S) # Cardinality(R)
  BY <1>1, <1>2, FS_Subset
<1> QED BY <1>2, <1>3 DEF S, R, Index

(* No two rows of a response have the same index. *)
LEMMA IndexInjective ==
  ASSUME TypeOK, Stamped, NEW D \in SUBSET Records, NEW r \in D, NEW s \in D,
         Index(r, D) = Index(s, D)
  PROVE  r = s
<1>1. Index(r, D) \in Nat
  BY IndexNat
<1> QED BY <1>1, IndexMonotone, Order

(* Every index is smaller than the length of the response. *)
LEMMA IndexBound ==
  ASSUME TypeOK, Stamped, NEW D \in SUBSET Records, NEW r \in D
  PROVE  Index(r, D) < Cardinality(D)
<1> DEFINE R == {q \in D : Before(q, r)}
<1>1. R \in SUBSET D /\ r \notin R
  BY Order
<1>2. IsFiniteSet(D) /\ Cardinality(D) \in Nat /\ Cardinality(R) \in Nat
  BY FiniteParts
<1> HIDE DEF R
<1>3. Cardinality(R) <= Cardinality(D) /\ Cardinality(R) # Cardinality(D)
  BY <1>1, <1>2, FS_Subset
<1> QED BY <1>2, <1>3 DEF R, Index

(* At most n rows have an index below n. *)
LEMMA FewBehind ==
  ASSUME TypeOK, Stamped, NEW D \in SUBSET Records, NEW n \in Nat
  PROVE  Cardinality({s \in D : Index(s, D) < n}) <= n
<1> DEFINE T == {s \in D : Index(s, D) < n}
           h == [s \in T |-> Index(s, D)]
<1>1. h \in Injection(T, 0..(n - 1))
  <2>1. h \in [T -> 0..(n - 1)]
    BY IndexNat
  <2>2. \A r, s \in T : h[r] = h[s] => r = s
    BY IndexInjective
  <2> HIDE DEF T, h
  <2> QED BY <2>1, <2>2 DEF Injection, IsInjective
<1>2. IsFiniteSet(0..(n - 1)) /\ Cardinality(0..(n - 1)) = n
  BY FS_Interval
<1> HIDE DEF T, h
<1>3. Cardinality(T) <= n
  BY <1>1, <1>2, FS_Injection
<1> QED BY <1>3 DEF T

(* The rows of a page fill the offsets from its first to the next one. *)
LEMMA PageIsContiguous ==
  ASSUME TypeOK, Stamped, NEW D \in SUBSET Records, NEW offset \in Nat, NEW limit \in Nat,
         NEW r \in Window(D, offset, limit)
  PROVE  Index(r, D) < offset + Cardinality(Window(D, offset, limit))
<1> DEFINE rows   == Window(D, offset, limit)
           R      == {q \in D : Before(q, r)}
           behind == {s \in D : Index(s, D) < offset}
           inside == R \ behind
<1>1. r \in D /\ rows \in SUBSET D /\ R \in SUBSET D /\ behind \in SUBSET D
  BY DEF Window
<1>2. (inside \cup {r}) \in SUBSET rows
  <2>1. ASSUME NEW s \in inside PROVE s \in rows
    <3>1. s \in D /\ Index(s, D) < Index(r, D) /\ ~(Index(s, D) < offset)
      BY <1>1, <2>1, IndexMonotone
    <3>2. Index(s, D) \in Nat /\ Index(r, D) \in Nat
      BY IndexNat
    <3> QED BY <3>1, <3>2 DEF Window
  <2> QED BY <2>1
<1>3. r \notin inside
  BY <1>1, Order
<1>4. /\ IsFiniteSet(R) /\ IsFiniteSet(inside) /\ IsFiniteSet(rows) /\ IsFiniteSet(R \cap behind)
      /\ IsFiniteSet(behind)
      /\ Cardinality(R) \in Nat /\ Cardinality(inside) \in Nat /\ Cardinality(rows) \in Nat
      /\ Cardinality(R \cap behind) \in Nat /\ Cardinality(behind) \in Nat
  BY <1>1, FiniteParts
<1>5. Cardinality(behind) <= offset
  BY FewBehind
<1>6. Cardinality(R) = Index(r, D)
  BY DEF Index
<1> HIDE DEF rows, R, behind
<1>7. Cardinality(inside) = Cardinality(R) - Cardinality(R \cap behind)
  BY <1>4, FS_Difference
<1>8. Cardinality(R \cap behind) <= Cardinality(behind)
  BY <1>4, FS_Subset
<1>9. Cardinality(inside \cup {r}) = Cardinality(inside) + 1
  BY <1>3, <1>4, FS_AddElement
<1>10. Cardinality(inside \cup {r}) <= Cardinality(rows)
  BY <1>2, <1>4, FS_Subset
<1>11. Index(r, D) < offset + Cardinality(rows)
  BY <1>4, <1>5, <1>6, <1>7, <1>8, <1>9, <1>10
<1> QED BY <1>11 DEF rows

-----------------------------------------------------------------------------
(* One page                                                                *)

IInv ==
  /\ TypeOK /\ Stamped /\ Anchored /\ DeliveredBehind /\ HiddenWrite /\ Pending
  /\ NoHiddenChange /\ AnchoredToFirstPage /\ CaughtUp

(* What holds of a request, the first or a later one, before its page. *)
PageReady(c, from, horizon, offset, earlier) ==
  /\ from \in Nat /\ horizon \in Nat /\ offset \in Nat /\ earlier \in SUBSET Records
  /\ from = token[c] /\ anchor[c] <= horizon /\ horizon <= versionClock
  /\ \A r \in earlier \cap Data(c, from, horizon) : Index(r, Data(c, from, horizon)) < offset
  /\ \A r \in Records \ missed[c] :
       recordVersions[r] <= horizon => Exact(c, r) \/ r \in Data(c, from, horizon) \ earlier
  /\ \A r \in earlier \cap live : \E f \in Projection[c] : content[r][f] > from

(* A row that is live is eligible, and then a field the grant may see was  *)
(* written within the window of the session.                               *)
LEMMA LiveRow ==
  ASSUME TypeOK, Stamped, NEW c \in Clients, NEW from \in Nat, NEW horizon \in Nat,
         NEW r \in Data(c, from, horizon) \cap live
  PROVE  /\ \E f \in Projection[c] : content[r][f] > from
         /\ \A f \in Fields : content[r][f] <= horizon
<1>1. r \in Records /\ tombstones[r] = 0
  BY DEF Data, Stamped
<1>2. Eligible(c, r, from, horizon)
  BY <1>1 DEF Data, Deletion
<1>3. PICK f \in changedFields[r] \cap Projection[c] : TRUE
  BY <1>2 DEF Eligible
<1>4. content[r][f] = recordVersions[r]
  BY <1>3 DEF Stamped
<1>5. \A k \in Fields : content[r][k] \in Nat /\ recordVersions[r] \in Nat
  BY <1>1 DEF TypeOK
<1> QED BY <1>1, <1>2, <1>3, <1>4, <1>5 DEF Eligible, Stamped

(* The effect of a page on each variable. *)
LEMMA PageEffect ==
  ASSUME TypeOK, NEW c \in Clients, NEW from \in Nat, NEW horizon \in Nat,
         NEW offset \in Nat, NEW limit \in Limits, NEW earlier \in SUBSET Records,
         ServePage(c, from, horizon, offset, limit, earlier),
         NEW D, D = Data(c, from, horizon),
         NEW rows, rows = Window(D, offset, limit),
         NEW next, next = offset + Cardinality(rows)
  PROVE  /\ rows \in SUBSET D /\ D \in SUBSET Records /\ next \in Nat
         /\ page' = [page EXCEPT ![c] = rows]
         /\ seen' = [seen EXCEPT ![c] = earlier \cup rows]
         /\ held' = [held EXCEPT ![c] = (held[c] \cup (rows \cap live)) \ (rows \ live)]
         /\ copy' = [copy EXCEPT ![c] = [r \in Records |->
              IF r \in rows \cap live
              THEN [f \in Fields |-> IF f \in Projection[c] THEN content[r][f] ELSE 0]
              ELSE copy[c][r]]]
         /\ session' = [session EXCEPT ![c] =
              [open |-> next < Cardinality(D), from |-> from, horizon |-> horizon, offset |-> next]]
         /\ token' = [token EXCEPT ![c] = IF next < Cardinality(D) THEN token[c] ELSE horizon]
         /\ missed' = [missed EXCEPT ![c] = (missed[c] \ rows) \cup
              (IF next < Cardinality(D) THEN {}
               ELSE {r \in D : Index(r, D) < next} \ (earlier \cup rows))]
<1>1. rows \in SUBSET D /\ D \in SUBSET Records
  BY DEF Window, Data
<1>2. next \in Nat
  BY <1>1, FiniteParts
<1>3. next = NextOffset(offset, Window(Data(c, from, horizon), offset, limit))
  BY DEF NextOffset
<1> QED BY <1>1, <1>2, <1>3 DEF ServePage, NextChangesSince, TypeOK

(* Between writes the responses stay the same. *)
LEMMA SameResponse ==
  ASSUME UNCHANGED server
  PROVE  /\ \A c, x, y : Data(c, x, y)' = Data(c, x, y)
         /\ \A r, D : Index(r, D)' = Index(r, D)
  BY DEF server, Data, Eligible, Deletion, Index, Before

(* A page keeps the invariant. *)
LEMMA PageInv ==
  ASSUME IInv, NEW c \in Clients, NEW from, NEW horizon, NEW offset, NEW limit \in Limits,
         NEW earlier, PageReady(c, from, horizon, offset, earlier),
         ServePage(c, from, horizon, offset, limit, earlier),
         UNCHANGED server, UNCHANGED expiredSyncTokens,
         anchor' = [anchor EXCEPT ![c] = horizon]
  PROVE  IInv'
<1> DEFINE D    == Data(c, from, horizon)
           rows == Window(D, offset, limit)
           next == offset + Cardinality(rows)
           more == next < Cardinality(D)
<1> USE DEF server
<1>a. TypeOK /\ Stamped /\ Anchored /\ DeliveredBehind /\ HiddenWrite /\ Pending
  BY DEF IInv
<1>b. NoHiddenChange /\ AnchoredToFirstPage /\ CaughtUp
  BY DEF IInv
<1>c. from \in Nat /\ horizon \in Nat /\ offset \in Nat /\ earlier \in SUBSET Records
  BY DEF PageReady
<1>d. from = token[c] /\ anchor[c] <= horizon /\ horizon <= versionClock
  BY DEF PageReady
<1>e. \A r \in earlier \cap D : Index(r, D) < offset
  BY DEF PageReady
<1>f. \A r \in Records \ missed[c] :
        recordVersions[r] <= horizon => Exact(c, r) \/ r \in D \ earlier
  BY DEF PageReady
<1>g. \A r \in earlier \cap live : \E f \in Projection[c] : content[r][f] > from
  BY DEF PageReady
<1>h. limit \in Nat
  BY SyncAssumption
<1>1. /\ rows \in SUBSET D /\ D \in SUBSET Records /\ next \in Nat
      /\ page' = [page EXCEPT ![c] = rows]
      /\ seen' = [seen EXCEPT ![c] = earlier \cup rows]
      /\ held' = [held EXCEPT ![c] = (held[c] \cup (rows \cap live)) \ (rows \ live)]
      /\ copy' = [copy EXCEPT ![c] = [r \in Records |->
           IF r \in rows \cap live
           THEN [f \in Fields |-> IF f \in Projection[c] THEN content[r][f] ELSE 0]
           ELSE copy[c][r]]]
      /\ session' = [session EXCEPT ![c] =
           [open |-> more, from |-> from, horizon |-> horizon, offset |-> next]]
      /\ token' = [token EXCEPT ![c] = IF more THEN token[c] ELSE horizon]
      /\ missed' = [missed EXCEPT ![c] = (missed[c] \ rows) \cup
           (IF more THEN {} ELSE {r \in D : Index(r, D) < next} \ (earlier \cup rows))]
  BY <1>a, <1>c, PageEffect
<1>2. \A r \in rows : Index(r, D) < next
  BY <1>a, <1>c, <1>h, <1>1, PageIsContiguous
<1>3. /\ \A k, x, y : Data(k, x, y)' = Data(k, x, y)
      /\ \A r, S : Index(r, S)' = Index(r, S)
  BY SameResponse
<1>4. \A r \in D : Index(r, D) \in Nat /\ Index(r, D) < Cardinality(D) /\ Cardinality(D) \in Nat
  BY <1>a, <1>1, IndexNat, IndexBound, FiniteParts
<1>5. \A r \in rows \cap live : /\ \E f \in Projection[c] : content[r][f] > from
                              /\ \A f \in Fields : content[r][f] <= horizon
  BY <1>a, <1>c, <1>1, LiveRow
<1>s. /\ session'[c] = [open |-> more, from |-> from, horizon |-> horizon, offset |-> next]
      /\ \A k \in Clients \ {c} : session'[k] = session[k]
  BY <1>a, <1>1 DEF TypeOK
<1>v. more \in BOOLEAN
  OBVIOUS
<1> HIDE DEF D, rows, next, more
<1>6. TypeOK'
  <2>1. session' \in [Clients -> Sessions]
    BY <1>a, <1>c, <1>1, <1>v DEF TypeOK, Sessions
  <2>2. copy' \in [Clients -> [Records -> [Fields -> Nat]]]
    BY <1>a, <1>1 DEF TypeOK
  <2>3. missed' \in [Clients -> SUBSET Records]
    BY <1>a, <1>1 DEF TypeOK
  <2>4. /\ held' \in [Clients -> SUBSET Records] /\ seen' \in [Clients -> SUBSET Records]
        /\ page' \in [Clients -> SUBSET Records]
    BY <1>a, <1>c, <1>1 DEF TypeOK
  <2>5. token' \in [Clients -> Nat] /\ anchor' \in [Clients -> Nat]
    BY <1>a, <1>c, <1>1 DEF TypeOK
  <2> QED BY <1>a, <2>1, <2>2, <2>3, <2>4, <2>5 DEF TypeOK
<1>7. Stamped'
  BY <1>a DEF Stamped
<1>8. Anchored'
  BY <1>a, <1>c, <1>d, <1>1, <1>s DEF Anchored, TypeOK
<1>9. DeliveredBehind'
  <2> SUFFICES ASSUME NEW k \in Clients, session'[k].open,
                      NEW r \in seen'[k], r \in SessionData(k)'
               PROVE  Index(r, SessionData(k)') < session'[k].offset
    BY <1>3 DEF DeliveredBehind, SessionData
  <2>1. CASE k = c
    <3>1. SessionData(k)' = D /\ session'[k].offset = next /\ seen'[k] = earlier \cup rows
      BY <2>1, <1>a, <1>1, <1>3, <1>s DEF SessionData, TypeOK, D
    <3>2. Cardinality(rows) \in Nat
      BY <1>1, FiniteParts
    <3>3. next = offset + Cardinality(rows)
      BY DEF next
    <3> QED BY <3>1, <3>2, <3>3, <1>c, <1>e, <1>2, <1>4
  <2>2. CASE k # c
    <3>1. SessionData(k)' = SessionData(k) /\ session'[k] = session[k] /\ seen'[k] = seen[k]
      BY <2>2, <1>a, <1>1, <1>3, <1>s DEF SessionData, TypeOK
    <3> QED BY <3>1, <1>a DEF DeliveredBehind
  <2> QED BY <2>1, <2>2
<1>10. /\ \A r \in rows : Exact(c, r)'
       /\ \A r \in Records \ rows : Exact(c, r) => Exact(c, r)'
       /\ \A k \in Clients \ {c} : \A r \in Records : Exact(k, r) => Exact(k, r)'
  <2>1. /\ held'[c] = (held[c] \cup (rows \cap live)) \ (rows \ live)
        /\ \A k \in Clients \ {c} : held'[k] = held[k] /\ copy'[k] = copy[k]
    BY <1>a, <1>1 DEF TypeOK
  <2>2. /\ \A r \in rows \cap live : \A f \in Projection[c] : copy'[c][r][f] = content[r][f]
        /\ \A r \in Records \ rows : copy'[c][r] = copy[c][r]
    BY <1>a, <1>1, SyncAssumption DEF TypeOK
  <2>3. rows \in SUBSET Records
    BY <1>1
  <2>4. live' = live /\ content' = content
    OBVIOUS
  <2> QED BY <2>1, <2>2, <2>3, <2>4 DEF Exact
<1>11. /\ \A r \in Records \ missed'[c] : r \in rows \/ r \notin missed[c]
       /\ \A k \in Clients \ {c} : missed'[k] = missed[k]
  BY <1>a, <1>1 DEF TypeOK
<1>12. HiddenWrite'
  <2> SUFFICES ASSUME NEW k \in Clients, NEW r \in live \ missed'[k],
                      changedFields[r] \cap Projection[k] = {}
               PROVE  Exact(k, r)'
    BY DEF HiddenWrite
  <2>1. r \in Records
    BY <1>a DEF TypeOK
  <2> QED BY <1>a, <1>10, <1>11, <2>1 DEF HiddenWrite
<1>13. Pending'
  <2> SUFFICES ASSUME NEW k \in Clients, session'[k].open, NEW r \in Records \ missed'[k],
                      recordVersions[r] <= session'[k].horizon
               PROVE  Exact(k, r)' \/ (r \in SessionData(k)' /\ r \notin seen'[k])
    BY DEF Pending
  <2>1. CASE k = c
    <3>1. SessionData(k)' = D /\ session'[k].horizon = horizon /\ seen'[k] = earlier \cup rows
      BY <2>1, <1>a, <1>1, <1>3, <1>s DEF SessionData, TypeOK, D
    <3> QED BY <2>1, <3>1, <1>f, <1>10, <1>11
  <2>2. CASE k # c
    <3>1. SessionData(k)' = SessionData(k) /\ session'[k] = session[k] /\ seen'[k] = seen[k]
      BY <2>2, <1>a, <1>1, <1>3, <1>s DEF SessionData, TypeOK
    <3> QED BY <2>2, <3>1, <1>a, <1>10, <1>11 DEF Pending
  <2> QED BY <2>1, <2>2
<1>14. NoHiddenChange'
  <2>1. /\ seen'[c] = earlier \cup rows /\ session'[c].from = from
        /\ \A k \in Clients \ {c} : seen'[k] = seen[k] /\ session'[k] = session[k]
    BY <1>a, <1>1, <1>s DEF TypeOK
  <2> QED BY <2>1, <1>b, <1>g, <1>5 DEF NoHiddenChange
<1>15. AnchoredToFirstPage'
  <2> SUFFICES ASSUME NEW k \in Clients, NEW r \in held'[k], NEW f \in Projection[k]
               PROVE  copy'[k][r][f] <= anchor'[k]
    BY DEF AnchoredToFirstPage
  <2>0. f \in Fields /\ r \in Records
    BY <1>6, SyncAssumption DEF TypeOK
  <2>1. CASE k = c
    <3>1. anchor'[k] = horizon /\ anchor[c] \in Nat
      BY <2>1, <1>a DEF TypeOK
    <3>2. CASE r \in rows \cap live
      BY <1>a, <1>1, <1>5, <2>0, <2>1, <3>1, <3>2 DEF TypeOK
    <3>3. CASE r \notin rows \cap live
      <4>1. r \in held[c] /\ copy'[k][r] = copy[c][r] /\ copy[c][r][f] \in Nat
        BY <1>a, <1>1, <2>0, <2>1, <3>3 DEF TypeOK
      <4> QED BY <4>1, <3>1, <1>b, <1>c, <1>d, <2>1 DEF AnchoredToFirstPage
    <3> QED BY <3>2, <3>3
  <2>2. CASE k # c
    <3>1. anchor'[k] = anchor[k] /\ held'[k] = held[k] /\ copy'[k] = copy[k]
      BY <2>2, <1>a, <1>1 DEF TypeOK
    <3> QED BY <3>1, <1>b DEF AnchoredToFirstPage
  <2> QED BY <2>1, <2>2
<1>16. CaughtUp'
  <2> SUFFICES ASSUME NEW k \in Clients, ~session'[k].open, NEW r \in Records \ missed'[k],
                      recordVersions[r] <= token'[k]
               PROVE  Exact(k, r)'
    BY DEF CaughtUp
  <2>1. CASE k = c
    <3>1. ~more
      BY <2>1, <1>s
    <3>2. token'[k] = horizon
      BY <2>1, <3>1, <1>a, <1>1 DEF TypeOK
    <3>3. \A q \in D : Index(q, D) < next
      BY <3>1, <1>1, <1>4 DEF more
    <3>4. r \in rows \/ r \notin D \ earlier
      BY <2>1, <3>1, <3>3, <1>a, <1>1 DEF TypeOK
    <3> QED BY <2>1, <3>2, <3>4, <1>f, <1>10, <1>11
  <2>2. CASE k # c
    <3>1. session'[k] = session[k] /\ token'[k] = token[k]
      BY <2>2, <1>a, <1>1, <1>s DEF TypeOK
    <3> QED BY <2>2, <3>1, <1>b, <1>10, <1>11 DEF CaughtUp
  <2> QED BY <2>1, <2>2
<1> QED BY <1>6, <1>7, <1>8, <1>9, <1>12, <1>13, <1>14, <1>15, <1>16 DEF IInv

(* The first page of a session keeps the invariant: what the client does   *)
(* not hold exactly is within the window it asks for.                      *)
LEMMA OpenSessionInv ==
  ASSUME IInv, NEW c \in Clients, NEW limit \in Limits, OpenSession(c, limit)
  PROVE  IInv'
<1> DEFINE from == token[c]
           horizon == versionClock
<1>1. TypeOK /\ Stamped /\ Anchored /\ HiddenWrite /\ CaughtUp /\ ~session[c].open
  BY DEF IInv, OpenSession
<1>2. from \in Nat /\ horizon \in Nat
  BY <1>1 DEF TypeOK
<1>3. ASSUME NEW r \in Records \ missed[c], recordVersions[r] <= horizon
      PROVE  Exact(c, r) \/ r \in Data(c, from, horizon) \ {}
  <2>0. recordVersions[r] \in Nat
    BY <1>1 DEF TypeOK
  <2>1. CASE recordVersions[r] <= from
    BY <2>1, <1>1 DEF CaughtUp
  <2>2. CASE recordVersions[r] > from /\ r \in live
    BY <2>2, <1>1, <1>3 DEF HiddenWrite, Data, Eligible
  <2>3. CASE recordVersions[r] > from /\ r \notin live
    BY <2>3, <1>1, <1>3 DEF Stamped, Data, Deletion
  <2> QED BY <1>2, <2>0, <2>1, <2>2, <2>3
<1>4. PageReady(c, from, horizon, 0, {})
  BY <1>1, <1>2, <1>3 DEF PageReady, Anchored
<1> QED BY <1>4, PageInv DEF OpenSession

(* A later page of a session keeps the invariant. *)
LEMMA ContinueSessionInv ==
  ASSUME IInv, NEW c \in Clients, NEW limit \in Limits, ContinueSession(c, limit)
  PROVE  IInv'
<1>1. /\ TypeOK /\ Anchored /\ DeliveredBehind /\ Pending /\ NoHiddenChange
      /\ session[c].open
  BY DEF IInv, ContinueSession
<1>2. /\ session[c].from \in Nat /\ session[c].horizon \in Nat /\ session[c].offset \in Nat
      /\ seen[c] \in SUBSET Records /\ anchor[c] \in Nat
  BY <1>1 DEF TypeOK, Sessions
<1>3. PageReady(c, session[c].from, session[c].horizon, session[c].offset, seen[c])
  BY <1>1, <1>2
  DEF PageReady, Anchored, DeliveredBehind, Pending, NoHiddenChange, SessionData
<1>4. anchor' = [anchor EXCEPT ![c] = session[c].horizon]
  BY <1>1 DEF ContinueSession, Anchored, TypeOK
<1> QED BY <1>3, <1>4, PageInv DEF ContinueSession

(* After 410 the client holds nothing and its token covers nothing. *)
LEMMA CursorExpiredInv ==
  ASSUME IInv, NEW c \in Clients, CursorExpired(c)
  PROVE  IInv'
<1> USE DEF server
<1>0. /\ TypeOK /\ Stamped /\ Anchored /\ DeliveredBehind /\ HiddenWrite /\ Pending
      /\ NoHiddenChange /\ AnchoredToFirstPage /\ CaughtUp
  BY DEF IInv
<1>1. /\ UNCHANGED server /\ copy' = copy /\ anchor' = anchor
      /\ expiredSyncTokens' = expiredSyncTokens
      /\ token' = [token EXCEPT ![c] = 0]
      /\ session' = [session EXCEPT ![c] = [open |-> FALSE, from |-> 0, horizon |-> 0, offset |-> 0]]
      /\ held' = [held EXCEPT ![c] = {}] /\ page' = [page EXCEPT ![c] = {}]
      /\ seen' = [seen EXCEPT ![c] = {}]
      /\ missed' = [missed EXCEPT ![c] = {r \in live : changedFields[r] \cap Projection[c] = {}}]
  BY DEF CursorExpired
<1>2. /\ token'[c] = 0 /\ held'[c] = {} /\ seen'[c] = {} /\ ~session'[c].open
      /\ missed'[c] = {r \in live : changedFields[r] \cap Projection[c] = {}}
      /\ \A k \in Clients \ {c} :
           /\ token'[k] = token[k] /\ held'[k] = held[k] /\ seen'[k] = seen[k]
           /\ session'[k] = session[k] /\ missed'[k] = missed[k]
  BY <1>0, <1>1 DEF TypeOK
<1>3. TypeOK'
  <2>1. session' \in [Clients -> Sessions]
    BY <1>0, <1>1 DEF TypeOK, Sessions
  <2> QED BY <1>0, <1>1, <2>1 DEF TypeOK
<1>4. Stamped'
  BY <1>0, <1>1 DEF Stamped
<1>5. Anchored'
  BY <1>0, <1>1, <1>2 DEF Anchored, TypeOK
<1>6. /\ \A k, x, y : Data(k, x, y)' = Data(k, x, y)
      /\ \A r, S : Index(r, S)' = Index(r, S)
  BY <1>1, SameResponse
<1>7. \A k \in Clients \ {c} : SessionData(k)' = SessionData(k)
  BY <1>2, <1>6 DEF SessionData
<1>8. \A k \in Clients \ {c} : \A r \in Records : Exact(k, r) => Exact(k, r)'
  BY <1>1, <1>2 DEF Exact
<1>9. DeliveredBehind'
  BY <1>0, <1>2, <1>6, <1>7 DEF DeliveredBehind
<1>10. HiddenWrite'
  <2> SUFFICES ASSUME NEW k \in Clients, NEW r \in live \ missed'[k],
                      changedFields[r] \cap Projection[k] = {}
               PROVE  Exact(k, r)'
    BY <1>1 DEF HiddenWrite
  <2>1. r \in Records /\ k # c
    BY <1>0, <1>2 DEF TypeOK
  <2> QED BY <1>0, <1>2, <1>8, <2>1 DEF HiddenWrite
<1>11. Pending'
  BY <1>0, <1>1, <1>2, <1>7, <1>8 DEF Pending
<1>12. NoHiddenChange' /\ AnchoredToFirstPage'
  BY <1>0, <1>1, <1>2 DEF NoHiddenChange, AnchoredToFirstPage
<1>13. CaughtUp'
  <2>1. \A r \in Records : ~(recordVersions[r] <= 0)
    BY <1>0 DEF Stamped, TypeOK
  <2> QED BY <1>0, <1>1, <1>2, <1>8, <2>1 DEF CaughtUp
<1> QED BY <1>3, <1>4, <1>5, <1>9, <1>10, <1>11, <1>12, <1>13 DEF IInv

(* Retiring a token keeps it: no session state depends on the set. *)
LEMMA ExpireSyncCursorInv ==
  ASSUME IInv, NEW t \in Nat, ExpireSyncCursor(t)
  PROVE  IInv'
<1>1. UNCHANGED <<server, client, missed>> /\ expiredSyncTokens' \subseteq Nat
  BY DEF ExpireSyncCursor, IInv, TypeOK
<1>2. TypeOK' /\ Stamped' /\ Anchored'
  BY <1>1 DEF server, client, IInv, TypeOK, Stamped, Anchored
<1>3. (DeliveredBehind /\ HiddenWrite /\ Pending)'
  BY <1>1 DEF server, client, IInv, DeliveredBehind, HiddenWrite, Pending, SessionData,
     Data, Eligible, Deletion, Index, Before, Exact
<1>4. (NoHiddenChange /\ AnchoredToFirstPage /\ CaughtUp)'
  BY <1>1 DEF server, client, IInv, NoHiddenChange, AnchoredToFirstPage, CaughtUp, Exact
<1> QED BY <1>2, <1>3, <1>4 DEF IInv

-----------------------------------------------------------------------------
(* The owner's writes                                                      *)

(* A write or deletion of r takes r out of every session that is open, and *)
(* leaves the order of the other rows alone.                               *)
TakesOut(r) ==
  /\ \A c \in Clients, x \in Nat, y \in Nat :
       y <= versionClock => Data(c, x, y)' = Data(c, x, y) \ {r}
  /\ \A q, s \in Records \ {r} : Before(q, s)' <=> Before(q, s)

(* So each of the others can only move to a smaller index. *)
LEMMA IndexFalls ==
  ASSUME NEW r, TakesOut(r), NEW D \in SUBSET Records, NEW s \in D \ {r}
  PROVE  Index(s, D \ {r})' <= Index(s, D)
<1> DEFINE A == {q \in D \ {r} : Before(q, s)'}
           B == {q \in D : Before(q, s)}
<1>1. A \in SUBSET B
  BY DEF TakesOut
<1>2. IsFiniteSet(B)
  BY FiniteParts
<1>3. Index(s, D \ {r})' = Cardinality(A) /\ Index(s, D) = Cardinality(B)
  BY DEF Index
<1> HIDE DEF A, B
<1> QED BY <1>1, <1>2, <1>3, FS_Subset

(* What a write and a deletion have in common. *)
LEMMA StampInv ==
  ASSUME IInv, NEW r \in Records, TypeOK', TakesOut(r), UNCHANGED client,
         versionClock' = versionClock + 1,
         recordVersions' = [recordVersions EXCEPT ![r] = versionClock + 1],
         \A c \in Clients : \A s \in Records \ {r} : Exact(c, s)' <=> Exact(c, s),
         \A c \in Clients : \A s \in Records \ {r} : s \notin missed'[c] => s \notin missed[c]
  PROVE  (Anchored /\ DeliveredBehind /\ Pending /\ AnchoredToFirstPage /\ CaughtUp)'
<1> USE DEF client
<1>0. /\ TypeOK /\ Stamped /\ Anchored /\ DeliveredBehind /\ Pending
      /\ AnchoredToFirstPage /\ CaughtUp
  BY DEF IInv
<1>1. /\ versionClock \in Nat
      /\ recordVersions'[r] = versionClock + 1
      /\ \A s \in Records \ {r} : recordVersions'[s] = recordVersions[s]
      /\ \A c \in Clients : token[c] \in Nat /\ anchor[c] \in Nat
      /\ \A c \in Clients : session[c].from \in Nat /\ session[c].horizon \in Nat /\ session[c].offset \in Nat
  BY <1>0 DEF TypeOK, Sessions
<1>2. Anchored'
  BY <1>0, <1>1 DEF Anchored
<1>3. AnchoredToFirstPage'
  BY <1>0 DEF AnchoredToFirstPage
<1>4. \A c \in Clients : session[c].open =>
        session[c].horizon <= versionClock /\ SessionData(c)' = SessionData(c) \ {r}
  BY <1>0, <1>1 DEF Anchored, TakesOut, SessionData
<1>5. DeliveredBehind'
  <2> SUFFICES ASSUME NEW c \in Clients, session[c].open,
                      NEW s \in seen[c], s \in SessionData(c)'
               PROVE  Index(s, SessionData(c))' < session[c].offset
    BY DEF DeliveredBehind
  <2>1. s \in SessionData(c) \ {r} /\ SessionData(c)' = SessionData(c) \ {r}
    BY <1>4
  <2>2. Index(s, SessionData(c)) < session[c].offset
    BY <1>0, <2>1 DEF DeliveredBehind
  <2>3. SessionData(c) \in SUBSET Records
    BY DEF SessionData, Data
  <2>4. PICK D \in SUBSET Records : D = SessionData(c)
    BY <2>3
  <2>5. Index(s, D \ {r})' <= Index(s, D)
    BY <2>1, <2>4, IndexFalls
  <2>6. Index(s, D) \in Nat /\ Index(s, D \ {r})' \in Nat
    <3>1. {q \in D \ {r} : Before(q, s)'} \in SUBSET Records
      OBVIOUS
    <3> QED BY <3>1, FiniteParts, IndexNat DEF Index
  <2>7. Index(s, SessionData(c))' = Index(s, D \ {r})'
    BY <2>1, <2>4 DEF Index
  <2> QED BY <1>1, <2>2, <2>4, <2>5, <2>6, <2>7
<1>6. Pending'
  BY <1>0, <1>1, <1>4 DEF Pending
<1>7. CaughtUp'
  BY <1>0, <1>1 DEF CaughtUp, Anchored
<1> QED BY <1>2, <1>3, <1>5, <1>6, <1>7

(* writeField keeps it: the record leaves every open session, or is noted as missed. *)
LEMMA WriteFieldInv ==
  ASSUME IInv, NEW r \in Records, NEW f \in Fields, WriteField(r, f)
  PROVE  IInv'
<1> USE DEF client
<1>0. TypeOK /\ Stamped /\ Anchored /\ HiddenWrite /\ NoHiddenChange
  BY DEF IInv
<1>1. /\ r \in live /\ live' = live /\ tombstones' = tombstones /\ UNCHANGED client
      /\ expiredSyncTokens' = expiredSyncTokens
      /\ versionClock' = versionClock + 1
      /\ recordVersions' = [recordVersions EXCEPT ![r] = versionClock + 1]
      /\ changedFields' = [changedFields EXCEPT ![r] = {f}]
      /\ content' = [content EXCEPT ![r] = [content[r] EXCEPT ![f] = versionClock + 1]]
      /\ missed' = [c \in Clients |->
           missed[c] \cup (IF f \notin Projection[c] /\ ~Exact(c, r) THEN {r} ELSE {})]
  BY <1>0 DEF WriteField, Touched, TypeOK
<1>2. /\ versionClock \in Nat /\ recordVersions'[r] = versionClock + 1
      /\ changedFields'[r] = {f}
      /\ content'[r][f] = versionClock + 1
      /\ \A k \in Fields \ {f} : content'[r][k] = content[r][k]
      /\ \A s \in Records \ {r} :
           /\ recordVersions'[s] = recordVersions[s] /\ changedFields'[s] = changedFields[s]
           /\ content'[s] = content[s]
      /\ \A s \in Records : recordVersions[s] \in Nat /\ \A k \in Fields : content[s][k] \in Nat
  BY <1>0, <1>1 DEF TypeOK
<1>3. TypeOK'
  <2>1. content' \in [Records -> [Fields -> Nat]]
    BY <1>0, <1>1 DEF TypeOK
  <2>2. missed' \in [Clients -> SUBSET Records]
    BY <1>0, <1>1 DEF TypeOK
  <2>3. changedFields' \in [Records -> SUBSET Fields]
    BY <1>0, <1>1 DEF TypeOK
  <2>4. recordVersions' \in [Records -> Nat] /\ versionClock' \in Nat
    BY <1>0, <1>1 DEF TypeOK
  <2> QED BY <1>0, <1>1, <2>1, <2>2, <2>3, <2>4 DEF TypeOK
<1>4. Stamped'
  <2>1. \A s \in Records : recordVersions'[s] > 0 /\ recordVersions'[s] <= versionClock'
    BY <1>0, <1>1, <1>2 DEF Stamped
  <2>2. /\ \A s \in Records : s \in live' <=> tombstones'[s] = 0
        /\ \A s \in Records : s \notin live' => tombstones'[s] = recordVersions'[s]
        /\ \A q, s \in Records : q \notin live' /\ s \notin live' /\ tombstones'[q] = tombstones'[s] => q = s
    BY <1>0, <1>1, <1>2 DEF Stamped
  <2>3. \A s \in Records : \A k \in Fields : content'[s][k] <= recordVersions'[s]
    BY <1>0, <1>2 DEF Stamped
  <2>4. \A s \in live' : \A k \in changedFields'[s] : content'[s][k] = recordVersions'[s]
    BY <1>0, <1>1, <1>2 DEF Stamped, TypeOK
  <2> QED BY <2>1, <2>2, <2>3, <2>4 DEF Stamped
<1>5. TakesOut(r)
  <2>1. \A q, s \in Records \ {r} : Before(q, s)' <=> Before(q, s)
    BY <1>1 DEF Before
  <2>2. ASSUME NEW c \in Clients, NEW x \in Nat, NEW y \in Nat, y <= versionClock, NEW s \in Records
        PROVE  s \in Data(c, x, y)' <=> s \in Data(c, x, y) \ {r}
    <3>1. CASE s = r
      <4>1. tombstones'[r] = 0 /\ ~(recordVersions'[r] <= y)
        BY <1>0, <1>1, <1>2, <2>2 DEF Stamped
      <4> QED BY <3>1, <4>1 DEF Data, Eligible, Deletion
    <3>2. CASE s # r
      BY <3>2, <1>1, <1>2 DEF Data, Eligible, Deletion
    <3> QED BY <3>1, <3>2
  <2>3. \A c \in Clients, x \in Nat, y \in Nat :
          Data(c, x, y)' \in SUBSET Records /\ Data(c, x, y) \in SUBSET Records
    BY DEF Data
  <2>4. \A c \in Clients, x \in Nat, y \in Nat :
          y <= versionClock => Data(c, x, y)' = Data(c, x, y) \ {r}
    BY <2>2, <2>3
  <2> QED BY <2>1, <2>4 DEF TakesOut
<1>6. \A c \in Clients : \A s \in Records \ {r} : Exact(c, s)' <=> Exact(c, s)
  BY <1>1, <1>2 DEF Exact
<1>7. \A c \in Clients : \A s \in Records : s \notin missed'[c] => s \notin missed[c]
  BY <1>1
<1>8. (Anchored /\ DeliveredBehind /\ Pending /\ AnchoredToFirstPage /\ CaughtUp)'
  BY <1>1, <1>3, <1>5, <1>6, <1>7, StampInv
<1>9. HiddenWrite'
  <2> SUFFICES ASSUME NEW c \in Clients, NEW s \in live \ missed'[c],
                      changedFields'[s] \cap Projection[c] = {}
               PROVE  Exact(c, s)'
    BY <1>1 DEF HiddenWrite
  <2>0. s \in Records
    BY <1>0 DEF TypeOK
  <2>1. CASE s # r
    BY <2>0, <2>1, <1>0, <1>2, <1>6, <1>7 DEF HiddenWrite
  <2>2. CASE s = r
    <3>1. f \notin Projection[c] /\ Exact(c, r)
      BY <2>2, <1>1, <1>2
    <3>2. \A k \in Projection[c] : content'[r][k] = content[r][k]
      BY <3>1, <1>2, SyncAssumption
    <3> QED BY <2>2, <3>1, <3>2, <1>1 DEF Exact
  <2> QED BY <2>1, <2>2
<1>10. NoHiddenChange'
  <2> SUFFICES ASSUME NEW c \in Clients, NEW s \in seen[c] \cap live
               PROVE  \E k \in Projection[c] : content'[s][k] > session[c].from
    BY <1>1 DEF NoHiddenChange
  <2>1. PICK k \in Projection[c] : content[s][k] > session[c].from
    BY <1>0 DEF NoHiddenChange
  <2>2. s \in Records /\ k \in Fields /\ session[c].from \in Nat
    BY <1>0, SyncAssumption DEF TypeOK, Sessions
  <2>3. content[s][k] <= versionClock
    BY <1>0, <1>2, <2>2 DEF Stamped
  <2>4. content'[s][k] > session[c].from
    BY <1>2, <2>1, <2>2, <2>3
  <2> QED BY <2>4
<1> QED BY <1>3, <1>4, <1>8, <1>9, <1>10 DEF IInv

(* deleteRecord keeps it: the tombstone lies past every horizon. *)
LEMMA DeleteRecordInv ==
  ASSUME IInv, NEW r \in Records, DeleteRecord(r)
  PROVE  IInv'
<1> USE DEF client
<1>0. TypeOK /\ Stamped /\ Anchored /\ HiddenWrite /\ NoHiddenChange
  BY DEF IInv
<1>1. /\ r \in live /\ live' = live \ {r} /\ UNCHANGED client
      /\ tombstones' = [tombstones EXCEPT ![r] = versionClock + 1]
      /\ versionClock' = versionClock + 1
      /\ recordVersions' = [recordVersions EXCEPT ![r] = versionClock + 1]
      /\ UNCHANGED <<changedFields, content, expiredSyncTokens, missed>>
  BY DEF DeleteRecord
<1>2. /\ versionClock \in Nat /\ recordVersions'[r] = versionClock + 1
      /\ tombstones'[r] = versionClock + 1
      /\ \A s \in Records \ {r} :
           recordVersions'[s] = recordVersions[s] /\ tombstones'[s] = tombstones[s]
      /\ \A s \in Records : recordVersions[s] \in Nat /\ tombstones[s] \in Nat
      /\ \A s \in Records : \A k \in Fields : content[s][k] \in Nat
      /\ live \subseteq Records
  BY <1>0, <1>1 DEF TypeOK
<1>3. TypeOK'
  BY <1>0, <1>1 DEF TypeOK
<1>4. Stamped'
  <2>1. \A s \in Records : recordVersions'[s] > 0 /\ recordVersions'[s] <= versionClock'
    BY <1>0, <1>1, <1>2 DEF Stamped
  <2>2. /\ \A s \in Records : s \in live' <=> tombstones'[s] = 0
        /\ \A s \in Records : s \notin live' => tombstones'[s] = recordVersions'[s]
    BY <1>0, <1>1, <1>2 DEF Stamped
  <2>3. \A q, s \in Records : q \notin live' /\ s \notin live' /\ tombstones'[q] = tombstones'[s] => q = s
    BY <1>0, <1>1, <1>2 DEF Stamped
  <2>4. \A s \in Records : \A k \in Fields : content'[s][k] <= recordVersions'[s]
    BY <1>0, <1>1, <1>2 DEF Stamped
  <2>5. \A s \in live' : \A k \in changedFields'[s] : content'[s][k] = recordVersions'[s]
    BY <1>0, <1>1, <1>2 DEF Stamped
  <2> QED BY <2>1, <2>2, <2>3, <2>4, <2>5 DEF Stamped
<1>5. TakesOut(r)
  <2>1. \A q, s \in Records \ {r} : Before(q, s)' <=> Before(q, s)
    BY <1>1, <1>2 DEF Before
  <2>2. ASSUME NEW c \in Clients, NEW x \in Nat, NEW y \in Nat, y <= versionClock, NEW s \in Records
        PROVE  s \in Data(c, x, y)' <=> s \in Data(c, x, y) \ {r}
    <3>1. CASE s = r
      <4>1. r \notin live' /\ ~(tombstones'[r] <= y)
        BY <1>1, <1>2, <2>2
      <4> QED BY <3>1, <4>1 DEF Data, Eligible, Deletion
    <3>2. CASE s # r
      BY <3>2, <1>1, <1>2 DEF Data, Eligible, Deletion
    <3> QED BY <3>1, <3>2
  <2>3. \A c \in Clients, x \in Nat, y \in Nat :
          Data(c, x, y)' \in SUBSET Records /\ Data(c, x, y) \in SUBSET Records
    BY DEF Data
  <2>4. \A c \in Clients, x \in Nat, y \in Nat :
          y <= versionClock => Data(c, x, y)' = Data(c, x, y) \ {r}
    BY <2>2, <2>3
  <2> QED BY <2>1, <2>4 DEF TakesOut
<1>6. \A c \in Clients : \A s \in Records \ {r} : Exact(c, s)' <=> Exact(c, s)
  BY <1>1 DEF Exact
<1>7. (Anchored /\ DeliveredBehind /\ Pending /\ AnchoredToFirstPage /\ CaughtUp)'
  BY <1>1, <1>3, <1>5, <1>6, StampInv
<1>8. HiddenWrite'
  BY <1>0, <1>1, <1>2, <1>6 DEF HiddenWrite
<1>9. NoHiddenChange'
  BY <1>0, <1>1 DEF NoHiddenChange
<1> QED BY <1>3, <1>4, <1>7, <1>8, <1>9 DEF IInv

-----------------------------------------------------------------------------
(* The theorems                                                            *)

(* The freshly seeded server satisfies the invariant. *)
LEMMA InitInv == Init => IInv
<1> SUFFICES ASSUME Init PROVE IInv
  OBVIOUS
<1>1. Cardinality(Records) \in Nat
  BY FS_CardinalityType, SyncAssumption
<1>2. TypeOK
  <2>1. session \in [Clients -> Sessions]
    BY DEF Init, Sessions
  <2> QED BY <1>1, <2>1, SyncAssumption DEF Init, TypeOK
<1>3. Stamped
  BY <1>1, SyncAssumption DEF Init, Stamped
<1>4. Anchored
  BY <1>1 DEF Init, Anchored
<1>5. DeliveredBehind /\ Pending
  BY DEF Init, DeliveredBehind, Pending
<1>6. HiddenWrite
  <2>1. \A c \in Clients : Projection[c] # {} /\ Projection[c] \subseteq Fields
    BY SyncAssumption
  <2> QED BY <2>1 DEF Init, HiddenWrite
<1>7. NoHiddenChange /\ AnchoredToFirstPage
  BY DEF Init, NoHiddenChange, AnchoredToFirstPage
<1>8. CaughtUp
  BY SyncAssumption DEF Init, CaughtUp
<1> QED BY <1>2, <1>3, <1>4, <1>5, <1>6, <1>7, <1>8 DEF IInv

(* Every step keeps the invariant. *)
LEMMA StepInv == IInv /\ [Next]_vars => IInv'
<1> SUFFICES ASSUME IInv, [Next]_vars PROVE IInv'
  OBVIOUS
<1>1. CASE \E r \in Records : DeleteRecord(r) \/ \E f \in Fields : WriteField(r, f)
  BY <1>1, DeleteRecordInv, WriteFieldInv
<1>2. CASE \E c \in Clients : ExpireSyncCursor(token[c])
  <2>1. \A c \in Clients : token[c] \in Nat
    BY DEF IInv, TypeOK
  <2> QED BY <1>2, <2>1, ExpireSyncCursorInv
<1>3. CASE \E c \in Clients : CursorExpired(c)
  BY <1>3, CursorExpiredInv
<1>4. CASE \E c \in Clients, limit \in Limits : OpenSession(c, limit) \/ ContinueSession(c, limit)
  BY <1>4, OpenSessionInv, ContinueSessionInv
<1>5. CASE UNCHANGED vars
  <2> USE <1>5 DEF vars, server, client, IInv
  <2>1. TypeOK' /\ Stamped' /\ Anchored'
    BY DEF TypeOK, Stamped, Anchored
  <2>2. (DeliveredBehind /\ HiddenWrite /\ Pending)'
    BY DEF DeliveredBehind, HiddenWrite, Pending, SessionData,
       Data, Eligible, Deletion, Index, Before, Exact
  <2>3. (NoHiddenChange /\ AnchoredToFirstPage /\ CaughtUp)'
    BY DEF NoHiddenChange, AnchoredToFirstPage, CaughtUp, Exact
  <2> QED BY <2>1, <2>2, <2>3
<1> QED BY <1>1, <1>2, <1>3, <1>4, <1>5 DEF Next

(* The invariant holds throughout. *)
THEOREM Invariance == Spec => []IInv
<1>1. Init => IInv
  BY InitInv
<1>2. IInv /\ [Next]_vars => IInv'
  BY StepInv
<1> QED BY <1>1, <1>2, PTL DEF Spec

(* The versions, cursors and copies stay inside the types the handlers of  *)
(* writeField, deleteRecord and GET records assume.                        *)
THEOREM Typed == Spec => []TypeOK
<1>1. IInv => TypeOK
  BY DEF IInv
<1> QED BY <1>1, Invariance, PTL

(* Clause 8.9-13, eligibleForSync: no session delivers a live record none  *)
(* of whose visible fields changed since its changes_since.                *)
THEOREM OnlyVisibleChanges == Spec => []NoHiddenChange
<1>1. IInv => NoHiddenChange
  BY DEF IInv
<1> QED BY <1>1, Invariance, PTL

(* Clause 8.9-14, the session horizon: no page carries a value written     *)
(* after the first page of its session.                                    *)
THEOREM Horizon == Spec => []AnchoredToFirstPage
<1>1. IInv => AnchoredToFirstPage
  BY DEF IInv
<1> QED BY <1>1, Invariance, PTL

(* Clause 8.9-15, next_changes_since: a client that has followed a session *)
(* to its end agrees with the stream on all the token covers, except the   *)
(* records a shifted offset or a later hidden write took from it.          *)
THEOREM NothingElseMissed == Spec => []CaughtUp
<1>1. IInv => CaughtUp
  BY DEF IInv
<1> QED BY <1>1, Invariance, PTL

(* Offset paging under concurrent writes: rows only move towards the start *)
(* of a response, so no row is delivered twice in a session.               *)
THEOREM DeliveredOnce == Spec => OncePerSession
<1>1. ASSUME IInv, NEW c \in Clients, NEW limit \in Limits, ContinueSession(c, limit)
      PROVE  page'[c] \cap seen[c] = {}
  <2> DEFINE D == SessionData(c)
             rows == Window(D, session[c].offset, limit)
  <2>1. TypeOK /\ session[c].open /\ DeliveredBehind
    BY <1>1 DEF IInv, ContinueSession
  <2>2. page'[c] = rows
    BY <1>1, <2>1 DEF ContinueSession, ServePage, SessionData, TypeOK
  <2>3. \A r \in rows : r \in D /\ session[c].offset <= Index(r, D)
    BY DEF Window
  <2>4. D \in SUBSET Records /\ session[c].offset \in Nat
    BY <2>1 DEF SessionData, Data, TypeOK, Sessions
  <2>5. \A r \in seen[c] \cap D : Index(r, D) < session[c].offset
    BY <2>1 DEF DeliveredBehind
  <2>6. \A r \in D : Index(r, D) \in Nat
    BY <2>4, IndexNat
  <2> HIDE DEF D, rows
  <2> QED BY <2>2, <2>3, <2>4, <2>5, <2>6
<1>2. IInv => (\A c \in Clients : (\E limit \in Limits : ContinueSession(c, limit))
                                => page'[c] \cap seen[c] = {})
  BY <1>1
<1> QED BY <1>2, Invariance, PTL DEF OncePerSession
=============================================================================
