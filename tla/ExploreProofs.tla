----------------------------- MODULE ExploreProofs -----------------------------
(***************************************************************************)
(* The two lenses of the Explore page keep their promises for any horizon, *)
(* limits, streams and number of navigations and records.                  *)
(***************************************************************************)
EXTENDS Explore, TLAPS, FiniteSetTheorems, NaturalsInduction, WellFoundedInduction

(***************************************************************************)
(* The two orders.                                                         *)
(***************************************************************************)
Order == {NewestFirst, SoonestFirst}

(* Both order the records strictly, transitively and totally.              *)
LEMMA OrderFacts ==
  ASSUME NEW order \in Order, NEW p \in Record, NEW q \in Record, NEW r \in Record
  PROVE  /\ <<p, p>> \notin order
         /\ <<p, q>> \in order /\ <<q, r>> \in order => <<p, r>> \in order
         /\ p = q \/ <<p, q>> \in order \/ <<q, p>> \in order
         /\ <<p, q>> \in order => <<q, p>> \notin order
<1>1. CASE order = NewestFirst
  BY <1>1, TimelineAssumption DEF NewestFirst, Record
<1>2. CASE order = SoonestFirst
  BY <1>2, TimelineAssumption DEF SoonestFirst, Record
<1> QED BY <1>1, <1>2 DEF Order

(* Both orders are transitive.                                             *)
LEMMA OrderTransitive ==
  ASSUME NEW order \in Order
  PROVE  \A p, q, r \in Record : <<p, q>> \in order /\ <<q, r>> \in order => <<p, r>> \in order
  BY OrderFacts

(* A set of numbers has a smallest one.                                    *)
LEMMA Smallest ==
  ASSUME NEW S \in SUBSET Nat, S # {}
  PROVE  \E m \in S : \A n \in S : m <= n
<1>1. PICK m \in S : \A n \in Nat : <<n, m>> \in OpToRel(<, Nat) => n \notin S
  BY NatLessThanWellFounded, WFMin
<1>2. ASSUME NEW n \in S PROVE m <= n
  <2>1. \A k \in Nat : k < m => <<k, m>> \in OpToRel(<, Nat)
    BY DEF OpToRel
  <2>2. n \in Nat /\ m \in Nat /\ ~(n < m)
    BY <1>1, <2>1
  <2> QED BY <2>2
<1> QED BY <1>2

(* Of the records in a set, one is the first and one is the last.          *)
LEMMA Ends ==
  ASSUME NEW order \in Order, NEW rows \in SUBSET Record, rows # {}
  PROVE  /\ \E f \in rows : \A q \in rows \ {f} : <<f, q>> \in order
         /\ \E l \in rows : \A q \in rows \ {l} : <<q, l>> \in order
<1>1. PICK lo \in rows : \A q \in rows : lo <= q
  BY Smallest, TimelineAssumption DEF Record
<1>2. \E hi \in rows : \A q \in rows : q <= hi
  <2> DEFINE D == {d \in 0 .. Horizon : Horizon - d \in rows}
  <2>1. D \in SUBSET Nat
    BY TimelineAssumption
  <2>2. \A q \in rows : Horizon - q \in D /\ Horizon - (Horizon - q) = q
    BY TimelineAssumption DEF Record
  <2>3. D # {}
    BY <2>2
  <2> HIDE DEF D
  <2>4. PICK d \in D : \A e \in D : d <= e
    BY <2>1, <2>3, Smallest
  <2>5. Horizon - d \in rows /\ d \in 0 .. Horizon
    BY <2>4 DEF D
  <2>6. ASSUME NEW q \in rows PROVE q <= Horizon - d
    <3>1. d <= Horizon - q
      BY <2>2, <2>4
    <3> QED BY <2>5, <3>1, TimelineAssumption DEF Record
  <2> QED BY <2>5, <2>6
<1>3. PICK hi \in rows : \A q \in rows : q <= hi
  BY <1>2
<1>4. CASE order = NewestFirst
  <2>1. ASSUME NEW q \in rows \ {hi} PROVE <<hi, q>> \in order
    BY <1>3, <1>4, TimelineAssumption DEF NewestFirst, Record
  <2>2. ASSUME NEW q \in rows \ {lo} PROVE <<q, lo>> \in order
    BY <1>1, <1>4, TimelineAssumption DEF NewestFirst, Record
  <2> QED BY <2>1, <2>2
<1>5. CASE order = SoonestFirst
  <2>1. ASSUME NEW q \in rows \ {lo} PROVE <<lo, q>> \in order
    BY <1>1, <1>5, TimelineAssumption DEF SoonestFirst, Record
  <2>2. ASSUME NEW q \in rows \ {hi} PROVE <<q, hi>> \in order
    BY <1>3, <1>5, TimelineAssumption DEF SoonestFirst, Record
  <2> QED BY <2>1, <2>2
<1> QED BY <1>4, <1>5 DEF Order

(* The rows before a record are fewer than all of them.                    *)
LEMMA Earlier ==
  ASSUME NEW order \in Order, NEW rows \in SUBSET Record, NEW r \in rows
  PROVE  /\ IsFiniteSet(rows) /\ Cardinality(rows) \in Nat
         /\ Cardinality({q \in rows : <<q, r>> \in order}) \in Nat
         /\ Cardinality({q \in rows : <<q, r>> \in order}) < Cardinality(rows)
         /\ \A s \in rows : <<r, s>> \in order =>
              Cardinality({q \in rows : <<q, r>> \in order})
                <= Cardinality({q \in rows : <<q, s>> \in order})
<1> DEFINE B(s) == {q \in rows : <<q, s>> \in order}
<1>1. IsFiniteSet(rows)
  <2>1. IsFiniteSet(Record)
    BY FS_Interval, TimelineAssumption DEF Record
  <2> QED BY <2>1, FS_Subset
<1>2. \A s : IsFiniteSet(B(s)) /\ B(s) \subseteq rows /\ Cardinality(B(s)) <= Cardinality(rows)
  BY <1>1, FS_Subset
<1>3. B(r) # rows
  BY OrderFacts
<1>4. Cardinality(B(r)) < Cardinality(rows)
  <2> HIDE DEF B
  <2>1. B(r) \subseteq rows /\ Cardinality(B(r)) # Cardinality(rows)
    BY <1>1, <1>2, <1>3, FS_Subset
  <2>2. /\ Cardinality(B(r)) \in Nat /\ Cardinality(rows) \in Nat
        /\ Cardinality(B(r)) <= Cardinality(rows)
    BY <1>1, <1>2, FS_CardinalityType
  <2> QED BY <2>1, <2>2
<1>5. ASSUME NEW s \in rows, <<r, s>> \in order
      PROVE  Cardinality(B(r)) <= Cardinality(B(s))
  <2>1. B(r) \subseteq B(s)
    BY <1>5, OrderFacts
  <2> HIDE DEF B
  <2> QED BY <1>2, <2>1, FS_Subset
<1>6. Cardinality(rows) \in Nat /\ Cardinality(B(r)) \in Nat
  BY <1>1, <1>2, FS_CardinalityType
<1> QED BY <1>1, <1>4, <1>5, <1>6

(* A page of some rows ends with the last of them, and holds all the rows  *)
(* but those after it.                                                     *)
LEMMA PageSplits ==
  ASSUME NEW order \in Order, NEW rows \in SUBSET Record, rows # {}, NEW limit \in Nat \ {0}
  PROVE  LET l == LastOf(FirstOf(limit, rows, order), order)
         IN  l \in rows /\ FirstOf(limit, rows, order) = rows \ After(l, rows, order)
<1> DEFINE before(r) == Cardinality({q \in rows : <<q, r>> \in order})
           page == FirstOf(limit, rows, order)
           l == LastOf(page, order)
<1>1. page # {}
  <2>1. PICK f \in rows : \A q \in rows \ {f} : <<f, q>> \in order
    BY Ends
  <2>2. {q \in rows : <<q, f>> \in order} = {}
    BY <2>1, OrderFacts
  <2>3. before(f) = 0
    BY <2>2, FS_EmptySet
  <2> QED BY <2>3 DEF FirstOf
<1>2. page \in SUBSET Record
  BY DEF FirstOf
<1>3. l \in page /\ \A q \in page \ {l} : <<q, l>> \in order
  <2> HIDE DEF page
  <2>1. \E r \in page : \A q \in page \ {r} : <<q, r>> \in order
    BY <1>1, <1>2, Ends
  <2> QED BY <2>1 DEF LastOf
<1>4. l \in rows /\ before(l) < limit
  BY <1>3 DEF FirstOf
<1> HIDE DEF l
<1>5. ASSUME NEW r \in page PROVE r \in rows \ After(l, rows, order)
  <2>1. r \in rows /\ r \in Record /\ l \in Record
    BY <1>4 DEF FirstOf
  <2>2. <<l, r>> \notin order
    BY <1>3, <2>1, OrderFacts
  <2> QED BY <2>1, <2>2 DEF After
<1>6. ASSUME NEW r \in rows \ After(l, rows, order) PROVE r \in page
  <2>1. r = l \/ <<r, l>> \in order
    BY <1>4, OrderFacts DEF After
  <2>2. before(r) \in Nat /\ before(l) \in Nat
    BY <1>4, Earlier
  <2>3. CASE r = l
    BY <1>4, <2>3 DEF FirstOf
  <2>4. CASE <<r, l>> \in order
    <3>1. before(r) <= before(l)
      BY <1>4, <2>4, Earlier
    <3> HIDE DEF before
    <3>2. before(r) < limit
      BY <1>4, <2>2, <3>1
    <3> USE DEF before
    <3> QED BY <3>2 DEF FirstOf
  <2> QED BY <2>1, <2>3, <2>4
<1>7. page = rows \ After(l, rows, order)
  BY <1>5, <1>6
<1> QED BY <1>4, <1>7 DEF l

(* No more rows than the limit are one page.                               *)
LEMMA PageHoldsAll ==
  ASSUME NEW order \in Order, NEW rows \in SUBSET Record, NEW limit \in Nat \ {0},
         ~(Cardinality(rows) > limit)
  PROVE  FirstOf(limit, rows, order) = rows
<1>1. ASSUME NEW r \in rows PROVE Cardinality({q \in rows : <<q, r>> \in order}) < limit
  BY Earlier
<1> QED BY <1>1 DEF FirstOf

(***************************************************************************)
(* A trail of cursors through the rows of a snapshot.  Page i holds the    *)
(* first of the rows that the cursors before it left; every cursor names   *)
(* the last row of its page, and there were more.                          *)
(***************************************************************************)
Rest(cs, all, order, i) == IF i = 1 THEN all ELSE After(cs[i - 1].after, all, order)

Rows(cs, all, limit, order, i) == FirstOf(limit, Rest(cs, all, order, i), order)

Trail(cs, snap, all, limit, order) ==
    \A i \in 1 .. Len(cs) :
        /\ cs[i].snap = snap
        /\ Cardinality(Rest(cs, all, order, i)) > limit
        /\ cs[i].after = LastOf(Rows(cs, all, limit, order, i), order)

(* The rows that a trail has shown, as pages, and the handle it left.      *)
Shows(pages, next, cs, snap, all, limit, order) ==
    /\ Trail(cs, snap, all, limit, order)
    /\ pages = [i \in 1 .. Len(cs) + 1 |-> Rows(cs, all, limit, order, i)]
    /\ next = PageOf(snap, Rest(cs, all, order, Len(cs) + 1), limit, order).next

(* A cursor splits what was left into its page and the rows after it.      *)
LEMMA CursorSplits ==
  ASSUME NEW order \in Order, NEW all \in SUBSET Record, NEW limit \in Nat \ {0},
         NEW cs \in Seq(Cursor), NEW snap, Trail(cs, snap, all, limit, order),
         NEW i \in 1 .. Len(cs)
  PROVE  /\ cs[i].after \in Rest(cs, all, order, i) /\ cs[i].after \in Record
         /\ Rest(cs, all, order, i) \in SUBSET all
         /\ Rows(cs, all, limit, order, i)
              = Rest(cs, all, order, i) \ After(cs[i].after, all, order)
<1> DEFINE rest == Rest(cs, all, order, i)
<1>1. rest \in SUBSET all
  BY DEF Rest, After
<1>2. Cardinality(rest) > limit /\ cs[i].after = LastOf(FirstOf(limit, rest, order), order)
  BY DEF Trail, Rows
<1>3. Rows(cs, all, limit, order, i) = FirstOf(limit, rest, order)
  BY DEF Rows
<1> HIDE DEF rest
<1>4. rest # {}
  <2> SUFFICES ASSUME rest = {} PROVE FALSE
    OBVIOUS
  <2>1. Cardinality(rest) = 0
    BY FS_EmptySet
  <2> QED BY <1>2, <2>1
<1>5. /\ cs[i].after \in rest
      /\ FirstOf(limit, rest, order) = rest \ After(cs[i].after, rest, order)
  <2>1. rest \in SUBSET Record
    BY <1>1
  <2>2. LET l == LastOf(FirstOf(limit, rest, order), order)
        IN  l \in rest /\ FirstOf(limit, rest, order) = rest \ After(l, rest, order)
    BY <1>4, <2>1, PageSplits
  <2> QED BY <1>2, <2>2
<1>6. rest \ After(cs[i].after, rest, order) = rest \ After(cs[i].after, all, order)
  BY <1>1 DEF After
<1> QED BY <1>1, <1>3, <1>5, <1>6 DEF rest

(* What a cursor leaves, no later page holds but rows after the cursor.    *)
LEMMA TrailOrdered ==
  ASSUME NEW order \in Order, NEW all \in SUBSET Record, NEW limit \in Nat \ {0},
         NEW cs \in Seq(Cursor), NEW snap, Trail(cs, snap, all, limit, order),
         NEW i \in 1 .. Len(cs), NEW j \in 1 .. Len(cs) + 1, i < j
  PROVE  Rest(cs, all, order, j) \subseteq After(cs[i].after, all, order)
<1> DEFINE Behind(k) == Rest(cs, all, order, k) \subseteq After(cs[i].after, all, order)
           Bad == {k \in 1 .. Len(cs) + 1 : i < k /\ ~Behind(k)}
<1>1. SUFFICES ASSUME Bad # {} PROVE FALSE
  OBVIOUS
<1>2. PICK k \in Bad : \A n \in Bad : k <= n
  <2>1. Bad \in SUBSET Nat
    OBVIOUS
  <2> HIDE DEF Bad
  <2> QED BY <1>1, <2>1, Smallest
<1>3. k \in 1 .. Len(cs) + 1 /\ i < k /\ ~Behind(k)
  BY <1>2
<1>4. CASE k = i + 1
  <2>1. Rest(cs, all, order, i + 1) = After(cs[i].after, all, order)
    BY DEF Rest
  <2> QED BY <1>3, <1>4, <2>1
<1>5. CASE k > i + 1
  <2>1. PICK h \in 1 .. Len(cs) : k = h + 1
    BY <1>3, <1>5
  <2>2. i < h /\ h \in 1 .. Len(cs) + 1 /\ h \notin Bad
    BY <1>2, <1>5, <2>1
  <2>3. Behind(h)
    BY <2>2
  <2>4. cs[h].after \in Rest(cs, all, order, h) /\ cs[h].after \in Record
    BY CursorSplits
  <2>5. Rest(cs, all, order, h + 1) = After(cs[h].after, all, order)
    BY DEF Rest
  <2>6. cs[h].after \in After(cs[i].after, all, order) /\ cs[i].after \in Record
    BY <2>3, <2>4, CursorSplits
  <2>7. <<cs[i].after, cs[h].after>> \in order
    BY <2>6 DEF After
  <2>8. ASSUME NEW r \in all, <<cs[h].after, r>> \in order
        PROVE  <<cs[i].after, r>> \in order
    <3>1. r \in Record
      OBVIOUS
    <3> QED BY <2>4, <2>6, <2>7, <2>8, <3>1, OrderTransitive, Zenon
  <2>9. After(cs[h].after, all, order) \subseteq After(cs[i].after, all, order)
    BY <2>8 DEF After
  <2> QED BY <1>3, <2>1, <2>5, <2>9
<1> HIDE DEF Bad, Behind
<1>6. k = i + 1 \/ k > i + 1
  BY <1>3
<1> QED BY <1>4, <1>5, <1>6

(* Every page of a trail comes after the ones before it.                   *)
LEMMA PagesOrdered ==
  ASSUME NEW order \in Order, NEW all \in SUBSET Record, NEW limit \in Nat \ {0},
         NEW cs \in Seq(Cursor), NEW snap, Trail(cs, snap, all, limit, order),
         NEW i \in 1 .. Len(cs) + 1, NEW j \in 1 .. Len(cs) + 1, i < j,
         NEW q \in Rows(cs, all, limit, order, i), NEW r \in Rows(cs, all, limit, order, j)
  PROVE  <<q, r>> \in order
<1>1. i \in 1 .. Len(cs)
  OBVIOUS
<1>2. /\ cs[i].after \in Record /\ Rest(cs, all, order, i) \in SUBSET all
      /\ Rows(cs, all, limit, order, i)
           = Rest(cs, all, order, i) \ After(cs[i].after, all, order)
  BY <1>1, CursorSplits
<1>3. q \in all /\ <<cs[i].after, q>> \notin order
  BY <1>2 DEF After
<1>4. r \in Rest(cs, all, order, j)
  BY DEF Rows, FirstOf
<1>5. r \in After(cs[i].after, all, order)
  BY <1>1, <1>4, TrailOrdered
<1>6. r \in all /\ <<cs[i].after, r>> \in order
  BY <1>5 DEF After
<1>7. q = cs[i].after \/ <<q, cs[i].after>> \in order
  BY <1>2, <1>3, OrderFacts
<1>8. q \in Record /\ r \in Record
  BY <1>3, <1>6
<1>9. CASE q = cs[i].after
  BY <1>6, <1>9
<1>10. CASE <<q, cs[i].after>> \in order
  BY <1>2, <1>6, <1>8, <1>10, OrderTransitive, Zenon
<1> QED BY <1>7, <1>9, <1>10

(* The pages before page k hold all the rows but those that are left.      *)
LEMMA TrailCovers ==
  ASSUME NEW order \in Order, NEW all \in SUBSET Record, NEW limit \in Nat \ {0},
         NEW cs \in Seq(Cursor), NEW snap, Trail(cs, snap, all, limit, order),
         NEW r \in all, r \notin Rest(cs, all, order, Len(cs) + 1)
  PROVE  \E i \in 1 .. Len(cs) : r \in Rows(cs, all, limit, order, i)
<1> DEFINE Gone == {k \in 1 .. Len(cs) + 1 : r \notin Rest(cs, all, order, k)}
<1>1. Gone \in SUBSET Nat /\ Len(cs) + 1 \in Gone
  OBVIOUS
<1>2. PICK k \in Gone : \A n \in Gone : k <= n
  BY <1>1, Smallest
<1>3. k \in 1 .. Len(cs) + 1 /\ r \notin Rest(cs, all, order, k)
  BY <1>2
<1>4. k # 1
  BY <1>3 DEF Rest
<1>5. PICK h \in 1 .. Len(cs) : k = h + 1
  BY <1>3, <1>4
<1>6. r \in Rest(cs, all, order, h)
  BY <1>2, <1>5
<1>7. Rows(cs, all, limit, order, h)
        = Rest(cs, all, order, h) \ After(cs[h].after, all, order)
  BY CursorSplits
<1>8. Rest(cs, all, order, h + 1) = After(cs[h].after, all, order)
  BY DEF Rest
<1> QED BY <1>3, <1>5, <1>6, <1>7, <1>8

(* The rows of a cursor's page are before all that the trail has left.     *)
LEMMA TrailLeaves ==
  ASSUME NEW order \in Order, NEW all \in SUBSET Record, NEW limit \in Nat \ {0},
         NEW cs \in Seq(Cursor), NEW snap, Trail(cs, snap, all, limit, order),
         NEW i \in 1 .. Len(cs), NEW r \in Rows(cs, all, limit, order, i)
  PROVE  r \in all /\ r \notin Rest(cs, all, order, Len(cs) + 1)
<1>1. /\ Rest(cs, all, order, i) \in SUBSET all
      /\ Rows(cs, all, limit, order, i)
           = Rest(cs, all, order, i) \ After(cs[i].after, all, order)
  BY CursorSplits
<1>2. Len(cs) + 1 \in 1 .. Len(cs) + 1 /\ i < Len(cs) + 1
  OBVIOUS
<1>3. Rest(cs, all, order, Len(cs) + 1) \subseteq After(cs[i].after, all, order)
  BY <1>2, TrailOrdered
<1> QED BY <1>1, <1>3

(* A cursor more changes none of the pages before it.                      *)
LEMMA SamePages ==
  ASSUME NEW order, NEW all, NEW limit, NEW cs \in Seq(Cursor), NEW c \in Cursor,
         NEW i \in 1 .. Len(cs) + 1
  PROVE  /\ Rest(Append(cs, c), all, order, i) = Rest(cs, all, order, i)
         /\ Rows(Append(cs, c), all, limit, order, i) = Rows(cs, all, limit, order, i)
<1>1. CASE i = 1
  BY <1>1 DEF Rest, Rows
<1>2. CASE i # 1
  <2>1. i - 1 \in 1 .. Len(cs) /\ Append(cs, c)[i - 1] = cs[i - 1]
    BY <1>2
  <2>2. Rest(Append(cs, c), all, order, i) = Rest(cs, all, order, i)
    BY <1>2, <2>1 DEF Rest
  <2> QED BY <2>2 DEF Rows
<1> QED BY <1>1, <1>2

(* The handle of what is shown continues the trail, if there is one.       *)
LEMMA HandleContinues ==
  ASSUME NEW order \in Order, NEW all \in SUBSET Record, NEW limit \in Nat \ {0},
         NEW cs \in Seq(Cursor), NEW snap \in Snapshot, NEW pages, NEW next,
         Shows(pages, next, cs, snap, all, limit, order), next # NoCursor
  PROVE  /\ next \in Cursor /\ next.snap = snap /\ next.after \in all
         /\ Append(cs, next) \in Seq(Cursor) /\ Len(Append(cs, next)) = Len(cs) + 1
         /\ Trail(Append(cs, next), snap, all, limit, order)
         /\ Rest(Append(cs, next), all, order, Len(cs) + 2) = After(next.after, all, order)
<1> DEFINE rest == Rest(cs, all, order, Len(cs) + 1)
           l == LastOf(FirstOf(limit, rest, order), order)
<1>1. Cardinality(rest) > limit /\ next = [snap |-> snap, after |-> l]
  BY DEF Shows, PageOf
<1>2. rest \in SUBSET all
  BY DEF Rest, After
<1>3. l \in rest
  <2> HIDE DEF rest
  <2>1. rest # {}
    <3> SUFFICES ASSUME rest = {} PROVE FALSE
      OBVIOUS
    <3>1. Cardinality(rest) = 0
      BY FS_EmptySet
    <3> QED BY <1>1, <3>1
  <2>2. rest \in SUBSET Record
    BY <1>2
  <2> QED BY <2>1, <2>2, PageSplits
<1>4. l = LastOf(Rows(cs, all, limit, order, Len(cs) + 1), order)
  BY DEF Rows
<1> HIDE DEF l, rest
<1>5. next \in Cursor /\ next.snap = snap /\ next.after = l /\ l \in all
  BY <1>1, <1>2, <1>3 DEF Cursor
<1> DEFINE d == Append(cs, next)
<1>6. /\ d \in Seq(Cursor) /\ Len(d) = Len(cs) + 1 /\ d[Len(cs) + 1] = next
      /\ \A i \in 1 .. Len(cs) : d[i] = cs[i]
  BY <1>5
<1>7. \A i \in 1 .. Len(cs) + 1 :
         /\ Rest(d, all, order, i) = Rest(cs, all, order, i)
         /\ Rows(d, all, limit, order, i) = Rows(cs, all, limit, order, i)
  BY <1>5, SamePages
<1> HIDE DEF d
<1>8. ASSUME NEW i \in 1 .. Len(d)
      PROVE  /\ d[i].snap = snap
             /\ Cardinality(Rest(d, all, order, i)) > limit
             /\ d[i].after = LastOf(Rows(d, all, limit, order, i), order)
  <2>1. CASE i \in 1 .. Len(cs)
    <3>1. /\ cs[i].snap = snap
          /\ Cardinality(Rest(cs, all, order, i)) > limit
          /\ cs[i].after = LastOf(Rows(cs, all, limit, order, i), order)
      BY <2>1 DEF Shows, Trail
    <3> QED BY <1>6, <1>7, <2>1, <3>1
  <2>2. CASE i = Len(cs) + 1
    BY <1>1, <1>4, <1>5, <1>6, <1>7, <2>2 DEF rest
  <2> QED BY <1>6, <2>1, <2>2
<1>9. Trail(d, snap, all, limit, order)
  BY <1>8 DEF Trail
<1>10. Rest(d, all, order, Len(cs) + 2) = After(next.after, all, order)
  BY <1>6 DEF Rest
<1> QED BY <1>5, <1>6, <1>9, <1>10 DEF d

(* What is shown is a prefix of the rows of the snapshot.                  *)
LEMMA ShownIsPrefix ==
  ASSUME NEW order \in Order, NEW all \in SUBSET Record, NEW limit \in Nat \ {0},
         NEW cs \in Seq(Cursor), NEW snap \in Snapshot, NEW pages, NEW next,
         Shows(pages, next, cs, snap, all, limit, order)
  PROVE  PrefixOf(pages, next, snap, all, order)
<1> DEFINE n == Len(cs) + 1
<1>1. /\ n \in Nat \ {0} /\ DOMAIN pages = 1 .. n
      /\ \A i \in 1 .. n : pages[i] = Rows(cs, all, limit, order, i)
  BY DEF Shows
<1>2. Trail(cs, snap, all, limit, order)
  BY DEF Shows
<1>3. ASSUME NEW i \in DOMAIN pages, NEW j \in DOMAIN pages, i < j
      PROVE  pages[i] \X pages[j] \subseteq order
  <2>1. i \in 1 .. Len(cs) + 1 /\ j \in 1 .. Len(cs) + 1
    BY <1>1
  <2>2. ASSUME NEW q \in pages[i], NEW r \in pages[j] PROVE <<q, r>> \in order
    <3>1. /\ q \in Rows(cs, all, limit, order, i)
          /\ r \in Rows(cs, all, limit, order, j)
      BY <1>1
    <3> QED BY <1>2, <1>3, <2>1, <3>1, PagesOrdered
  <2> QED BY <2>2
<1>4. UNION Range(pages) = UNION {Rows(cs, all, limit, order, i) : i \in 1 .. n}
  BY <1>1 DEF Range
<1>5. ASSUME next = NoCursor
      PROVE  UNION Range(pages) = all
  <2> DEFINE rest == Rest(cs, all, order, n)
  <2>1. rest \in SUBSET all /\ rest \in SUBSET Record
    BY DEF Rest, After
  <2>2. ~(Cardinality(rest) > limit)
    <3> SUFFICES ASSUME Cardinality(rest) > limit PROVE FALSE
      OBVIOUS
    <3>1. next = [snap |-> snap, after |-> LastOf(FirstOf(limit, rest, order), order)]
      BY DEF Shows, PageOf
    <3> HIDE DEF rest
    <3>2. rest # {}
      <4> SUFFICES ASSUME rest = {} PROVE FALSE
        OBVIOUS
      <4>1. Cardinality(rest) = 0
        BY FS_EmptySet
      <4> QED BY <4>1
    <3>3. next.after \in Record
      BY <2>1, <3>1, <3>2, PageSplits
    <3> QED BY <1>5, <3>3 DEF NoCursor, Record
  <2>3. Rows(cs, all, limit, order, n) = rest
    BY <2>1, <2>2, PageHoldsAll DEF Rows
  <2> HIDE DEF n, rest
  <2>4. ASSUME NEW r \in all
        PROVE  \E i \in 1 .. n : r \in Rows(cs, all, limit, order, i)
    <3>1. CASE r \in rest
      BY <1>1, <2>3, <3>1
    <3>2. CASE r \notin rest
      BY <1>2, <3>2, TrailCovers DEF n, rest
    <3> QED BY <3>1, <3>2
  <2>5. \A i \in 1 .. n : Rows(cs, all, limit, order, i) \subseteq all
    BY DEF Rows, FirstOf, Rest, After
  <2> QED BY <1>4, <2>4, <2>5
<1>6. ASSUME next # NoCursor
      PROVE  /\ next.snap = snap /\ next.after \in all
             /\ UNION Range(pages) = all \ After(next.after, all, order)
  <2> DEFINE d == Append(cs, next)
  <2>1. /\ next \in Cursor /\ next.snap = snap /\ next.after \in all
        /\ d \in Seq(Cursor) /\ Len(d) = n
        /\ Trail(d, snap, all, limit, order)
        /\ Rest(d, all, order, Len(cs) + 2) = After(next.after, all, order)
    BY <1>6, HandleContinues
  <2>2. Rest(d, all, order, n + 1) = After(next.after, all, order)
    BY <2>1
  <2>3. \A i \in 1 .. n : Rows(d, all, limit, order, i) = Rows(cs, all, limit, order, i)
    BY <2>1, SamePages
  <2> HIDE DEF d, n
  <2>4. ASSUME NEW r \in all, r \notin After(next.after, all, order)
        PROVE  \E i \in 1 .. n : r \in Rows(cs, all, limit, order, i)
    BY <2>1, <2>2, <2>3, <2>4, TrailCovers
  <2>5. ASSUME NEW i \in 1 .. n, NEW r \in Rows(cs, all, limit, order, i)
        PROVE  r \in all /\ r \notin After(next.after, all, order)
    <3>1. i \in 1 .. Len(d) /\ r \in Rows(d, all, limit, order, i)
      BY <2>1, <2>3
    <3> QED BY <2>1, <2>2, <3>1, TrailLeaves
  <2> QED BY <1>4, <2>1, <2>4, <2>5
<1> QED BY <1>3, <1>5, <1>6 DEF PrefixOf

(* One cursor more, one page more, and the pages before stay what they are. *)
LEMMA MoreOnlyAdds ==
  ASSUME NEW order, NEW all, NEW limit, NEW cs \in Seq(Cursor), NEW snap,
         NEW pages, NEW next \in Cursor, NEW snap2, NEW pages2, NEW next2,
         Shows(pages, next, cs, snap, all, limit, order),
         Shows(pages2, next2, Append(cs, next), snap2, all, limit, order)
  PROVE  IsPrefix(pages, pages2)
<1> DEFINE n == Len(cs) + 1
<1>1. Len(Append(cs, next)) = n /\ n \in Nat
  OBVIOUS
<1>2. pages = [i \in 1 .. n |-> Rows(cs, all, limit, order, i)]
  BY DEF Shows
<1>3. pages2 = [i \in 1 .. n + 1 |-> Rows(Append(cs, next), all, limit, order, i)]
  BY <1>1 DEF Shows
<1>4. \A i \in 1 .. n : pages2[i] = pages[i]
  BY <1>2, <1>3, SamePages
<1>5. Len(pages) = n /\ Len(pages2) = n + 1
  BY <1>1, <1>2, <1>3
<1>6. SubSeq(pages, 1, Len(pages)) = SubSeq(pages2, 1, Len(pages))
  BY <1>1, <1>4, <1>5
<1> QED BY <1>1, <1>5, <1>6 DEF IsPrefix

(***************************************************************************)
(* The invariant.  A snapshot was taken of what had arrived by then, and   *)
(* what arrives later is not of it.  Every URL's trails go through one     *)
(* such snapshot each, the pages of a render are those of its trails, and  *)
(* what the reader sees is what the trails of its URL have shown.          *)
(***************************************************************************)
Known(snap) == snap \in Snapshot /\ snap.seq <= Seq0

FeedTrail(cs, snap) == Trail(cs, snap, Past(snap), Limit, NewestFirst)

UpcomingTrail(cs, snap) == Trail(cs, snap, Future(snap), UpcomingLimit, SoonestFirst)

UrlFits(url) ==
    /\ url \in [cursors : Seq(Cursor), ucursors : Seq(Cursor)]
    /\ url.cursors # <<>> =>
          Known(url.cursors[1].snap) /\ FeedTrail(url.cursors, url.cursors[1].snap)
    /\ url.ucursors # <<>> =>
          Known(url.ucursors[1].snap) /\ UpcomingTrail(url.ucursors, url.ucursors[1].snap)

PageFits(page, cs, i) ==
    /\ Known(page.snap)
    /\ cs # <<>> => page.snap = cs[1].snap
    /\ page = TimelinePage(page.snap, Rest(cs, Past(page.snap), NewestFirst, i))

RenderFits ==
    /\ UrlFits(render.url)
    /\ render = [at |-> render.at, url |-> render.url,
                 pages |-> render.pages, upages |-> render.upages]
    /\ DOMAIN render.pages \subseteq 1 .. Len(render.url.cursors) + 1
    /\ DOMAIN render.upages \subseteq 1 .. Len(render.url.ucursors)
    /\ render.pages = [i \in DOMAIN render.pages |-> render.pages[i]]
    /\ render.upages = [i \in DOMAIN render.upages |-> render.upages[i]]
    /\ \A i \in DOMAIN render.pages : PageFits(render.pages[i], render.url.cursors, i)
    /\ \A i \in DOMAIN render.upages :
          render.upages[i] = ListUpcoming(render.url.ucursors[i])
    /\ render.at = "upcoming" =>
          DOMAIN render.pages = 1 .. Len(render.url.cursors) + 1

\* The snapshot of a trail, and of an empty one that of page 1.
TrailSnap(cs, snap) == IF cs = <<>> THEN snap ELSE cs[1].snap

UpcomingHandle(ucs, snap) ==
    UpcomingPage(snap, Rest(ucs, Future(snap), SoonestFirst, Len(ucs) + 1)).next

TimelineFits ==
    /\ UrlFits(timeline.url)
    /\ ~timeline.shown =>
          timeline.url = NoUrl /\ timeline.next = NoCursor /\ timeline.upcomingNext = NoCursor
    /\ timeline.shown =>
          /\ Known(timeline.snap)
          /\ Shows(timeline.feed, timeline.next, timeline.url.cursors, timeline.snap,
                   Past(timeline.snap), Limit, NewestFirst)
          /\ timeline.upcomingNext
               = UpcomingHandle(timeline.url.ucursors,
                                TrailSnap(timeline.url.ucursors, timeline.snap))
          /\ OneSnapshot =>
                Shows(timeline.upcoming, timeline.upcomingNext, timeline.url.ucursors,
                      timeline.snap, Future(timeline.snap), UpcomingLimit, SoonestFirst)

TimelineInv == TimelineTypeOK /\ RenderFits /\ TimelineFits

(* Snapshots last: what a known one holds never changes.                   *)
SnapshotsLast ==
    \A snap : Known(snap) =>
        Known(snap)' /\ Past(snap)' = Past(snap) /\ Future(snap)' = Future(snap)

(* Without an arrival no snapshot changes.                                 *)
LEMMA StoreUnchanged == UNCHANGED ingested => SnapshotsLast
  BY DEF SnapshotsLast, Known, Seq0, Past, Future, Members

(* The sequence number of the store is one of its records' number.         *)
LEMMA SeqType ==
  ASSUME ingested \in [Record -> 0 .. Horizon]
  PROVE  Seq0 \in 0 .. Horizon
<1> DEFINE S == {r \in Record : ingested[r] # 0}
<1>1. IsFiniteSet(Record) /\ Cardinality(Record) = Horizon
  BY FS_Interval, TimelineAssumption DEF Record
<1>2. Cardinality(S) \in Nat /\ Cardinality(S) <= Cardinality(Record)
  BY <1>1, FS_Subset, FS_CardinalityType
<1>3. Seq0 = Cardinality(S)
  BY DEF Seq0
<1> QED BY <1>1, <1>2, <1>3, TimelineAssumption

(* A record that arrives is in no snapshot taken before.                   *)
LEMMA ArriveKeepsSnapshots ==
  ASSUME ingested \in [Record -> 0 .. Horizon], NEW r \in Record, Arrive(r)
  PROVE  ingested' \in [Record -> 0 .. Horizon] /\ SnapshotsLast
<1> DEFINE S == {q \in Record : ingested[q] # 0}
<1>1. Seq0 \in 0 .. Horizon /\ Seq0 = Cardinality(S)
  BY SeqType DEF Seq0
<1>2. ingested[r] = 0 /\ ingested' = [ingested EXCEPT ![r] = Seq0 + 1]
  BY DEF Arrive
<1>3. IsFiniteSet(Record) /\ Cardinality(Record) = Horizon
  BY FS_Interval, TimelineAssumption DEF Record
<1>4. IsFiniteSet(S) /\ S \subseteq Record /\ r \notin S
  BY <1>2, <1>3, FS_Subset
<1>5. {q \in Record : ingested'[q] # 0} = S \cup {r}
  <2>1. ingested'[r] # 0
    BY <1>1, <1>2
  <2>2. \A q \in Record \ {r} : ingested'[q] = ingested[q]
    BY <1>2
  <2> QED BY <2>1, <2>2
<1>6. Cardinality(S \cup {r}) = Cardinality(S) + 1 /\ Cardinality(S \cup {r}) <= Horizon
  <2>1. S \cup {r} \subseteq Record
    BY <1>4
  <2>2. Cardinality(S \cup {r}) = Cardinality(S) + 1
    BY <1>4, FS_AddElement
  <2> QED BY <1>3, <2>1, <2>2, FS_Subset
<1>7. Seq0' = Cardinality(S \cup {r})
  BY <1>5 DEF Seq0
<1> HIDE DEF S
<1>8. Seq0' = Seq0 + 1 /\ Seq0 + 1 \in 0 .. Horizon
  BY <1>1, <1>6, <1>7, TimelineAssumption
<1>9. ingested' \in [Record -> 0 .. Horizon]
  BY <1>2, <1>8
<1>10. ASSUME NEW snap, Known(snap)
       PROVE  Known(snap)' /\ Members(snap)' = Members(snap)
  <2>1. snap \in Snapshot /\ snap.seq \in 0 .. Horizon /\ snap.seq <= Seq0
    BY <1>10 DEF Known, Snapshot
  <2>2. Known(snap)'
    BY <1>1, <1>8, <2>1, TimelineAssumption DEF Known
  <2>3. ingested[r] \notin 1 .. snap.seq /\ ingested'[r] \notin 1 .. snap.seq
    BY <1>1, <1>2, <2>1, TimelineAssumption
  <2>4. \A q \in Record \ {r} : ingested'[q] = ingested[q]
    BY <1>2
  <2>5. Members(snap)' = Members(snap)
    BY <2>3, <2>4 DEF Members
  <2> QED BY <2>2, <2>5
<1>11. SnapshotsLast
  BY <1>10 DEF SnapshotsLast, Past, Future
<1> QED BY <1>9, <1>11

(* So the trails of a URL stay trails of their snapshots,                  *)
LEMMA UrlKept ==
  ASSUME SnapshotsLast, NEW url, UrlFits(url)
  PROVE  UrlFits(url)'
<1>1. ASSUME url.cursors # <<>>
      PROVE  Known(url.cursors[1].snap)' /\ FeedTrail(url.cursors, url.cursors[1].snap)'
  <2>1. Known(url.cursors[1].snap) /\ FeedTrail(url.cursors, url.cursors[1].snap)
    BY <1>1 DEF UrlFits
  <2>2. /\ Known(url.cursors[1].snap)'
        /\ Past(url.cursors[1].snap)' = Past(url.cursors[1].snap)
    BY <2>1 DEF SnapshotsLast
  <2> QED BY <2>1, <2>2 DEF FeedTrail
<1>2. ASSUME url.ucursors # <<>>
      PROVE  /\ Known(url.ucursors[1].snap)'
             /\ UpcomingTrail(url.ucursors, url.ucursors[1].snap)'
  <2>1. Known(url.ucursors[1].snap) /\ UpcomingTrail(url.ucursors, url.ucursors[1].snap)
    BY <1>2 DEF UrlFits
  <2>2. /\ Known(url.ucursors[1].snap)'
        /\ Future(url.ucursors[1].snap)' = Future(url.ucursors[1].snap)
    BY <2>1 DEF SnapshotsLast
  <2> QED BY <2>1, <2>2 DEF UpcomingTrail
<1> QED BY <1>1, <1>2 DEF UrlFits

(* a page that was fetched stays the page its cursor stands for,           *)
LEMMA PageKept ==
  ASSUME SnapshotsLast, NEW page, NEW cs, NEW i, PageFits(page, cs, i)
  PROVE  PageFits(page, cs, i)'
<1>1. /\ Known(page.snap)'
      /\ Past(page.snap)' = Past(page.snap) /\ Future(page.snap)' = Future(page.snap)
  BY DEF PageFits, SnapshotsLast
<1>2. page = TimelinePage(page.snap, Rest(cs, Past(page.snap), NewestFirst, i))'
  BY <1>1 DEF PageFits, TimelinePage
<1> QED BY <1>1, <1>2 DEF PageFits

(* The snapshot of a trail is the one of each of its cursors.              *)
LEMMA TrailSnaps ==
  ASSUME NEW url, UrlFits(url)
  PROVE  /\ \A i \in 1 .. Len(url.cursors) :
               url.cursors[i].snap = url.cursors[1].snap /\ Known(url.cursors[i].snap)
         /\ \A i \in 1 .. Len(url.ucursors) :
               url.ucursors[i].snap = url.ucursors[1].snap /\ Known(url.ucursors[i].snap)
<1>1. url.cursors \in Seq(Cursor) /\ url.ucursors \in Seq(Cursor)
  BY DEF UrlFits
<1>2. ASSUME NEW i \in 1 .. Len(url.cursors)
      PROVE  url.cursors[i].snap = url.cursors[1].snap /\ Known(url.cursors[i].snap)
  <2>1. url.cursors # <<>>
    BY <1>1
  <2> QED BY <2>1 DEF UrlFits, FeedTrail, Trail
<1>3. ASSUME NEW i \in 1 .. Len(url.ucursors)
      PROVE  url.ucursors[i].snap = url.ucursors[1].snap /\ Known(url.ucursors[i].snap)
  <2>1. url.ucursors # <<>>
    BY <1>1
  <2> QED BY <2>1 DEF UrlFits, UpcomingTrail, Trail
<1> QED BY <1>2, <1>3

(* and so does all a render has fetched                                    *)
LEMMA RenderKept ==
  ASSUME SnapshotsLast, RenderFits, UNCHANGED render
  PROVE  RenderFits'
<1>1. UrlFits(render.url)'
  BY UrlKept DEF RenderFits
<1>2. \A i \in DOMAIN render.pages : PageFits(render.pages[i], render.url.cursors, i)'
  BY PageKept DEF RenderFits
<1>3. ASSUME NEW i \in DOMAIN render.upages
      PROVE  render.upages[i] = ListUpcoming(render.url.ucursors[i])'
  <2>1. /\ render.upages[i] = ListUpcoming(render.url.ucursors[i])
        /\ i \in 1 .. Len(render.url.ucursors) /\ UrlFits(render.url)
    BY DEF RenderFits
  <2>2. Known(render.url.ucursors[i].snap)
    BY <2>1, TrailSnaps
  <2>3. Future(render.url.ucursors[i].snap)' = Future(render.url.ucursors[i].snap)
    BY <2>2 DEF SnapshotsLast
  <2> QED BY <2>1, <2>3 DEF ListUpcoming
<1> QED BY <1>1, <1>2, <1>3 DEF RenderFits

(* and all the reader sees.                                                *)
LEMMA TimelineKept ==
  ASSUME SnapshotsLast, TimelineFits, UNCHANGED timeline
  PROVE  TimelineFits'
<1>1. UrlFits(timeline.url) /\ UrlFits(timeline.url)'
  BY UrlKept DEF TimelineFits
<1>2. CASE ~timeline.shown
  BY <1>1, <1>2 DEF TimelineFits
<1>3. CASE timeline.shown
  <2> DEFINE U == TrailSnap(timeline.url.ucursors, timeline.snap)
  <2>1. /\ Known(timeline.snap)' /\ Past(timeline.snap)' = Past(timeline.snap)
        /\ Future(timeline.snap)' = Future(timeline.snap)
    BY <1>3 DEF TimelineFits, SnapshotsLast
  <2>2. Known(U)
    BY <1>1, <1>3 DEF TimelineFits, TrailSnap, UrlFits
  <2>3. Future(U)' = Future(U)
    BY <2>2 DEF SnapshotsLast
  <2>4. UpcomingHandle(timeline.url.ucursors, U)' = UpcomingHandle(timeline.url.ucursors, U)
    BY <2>3 DEF UpcomingHandle
  <2>5. OneSnapshot' = OneSnapshot
    BY DEF OneSnapshot
  <2> QED BY <1>1, <1>3, <2>1, <2>4, <2>5 DEF TimelineFits
<1> QED BY <1>2, <1>3

(***************************************************************************)
(* The steps.                                                              *)
(***************************************************************************)
LEMMA NoUrlFits == UrlFits(NoUrl)
  BY DEF UrlFits, NoUrl

(* An empty URL and an empty page fit.                                     *)
LEMMA TimelineStart == TimelineInit => TimelineInv
<1> SUFFICES ASSUME TimelineInit PROVE TimelineInv
  OBVIOUS
<1>1. render = NoRender /\ timeline = NothingShown
  BY DEF TimelineInit
<1>2. RenderFits
  BY <1>1, NoUrlFits DEF RenderFits, NoRender, Empty, NoUrl
<1>3. TimelineFits
  BY <1>1, NoUrlFits DEF TimelineFits, NothingShown
<1>4. TimelineTypeOK
  <2>1. ingested \in [Record -> 0 .. Horizon] /\ now \in Record /\ loads \in 0 .. MaxLoads
    BY TimelineAssumption DEF TimelineInit
  <2>2. render.at = "idle" /\ render.url = NoUrl /\ timeline.url = NoUrl
    BY <1>1 DEF NoRender, NothingShown
  <2>3. /\ timeline.shown = FALSE /\ timeline.snap = [seq |-> 0, ceiling |-> 0]
        /\ timeline.next = NoCursor /\ timeline.upcomingNext = NoCursor
        /\ timeline.feed = <<>> /\ timeline.upcoming = <<>>
    BY <1>1 DEF NothingShown, NoCursor
  <2>4. [seq |-> 0, ceiling |-> 0] \in Snapshot
    BY TimelineAssumption DEF Snapshot
  <2>5. \A url \in {render.url, timeline.url} :
           {url.cursors, url.ucursors} \subseteq Seq(Cursor)
    <3>1. NoUrl.cursors = <<>> /\ NoUrl.ucursors = <<>> /\ <<>> \in Seq(Cursor)
      BY DEF NoUrl
    <3> QED BY <2>2, <3>1
  <2>6. {timeline.feed, timeline.upcoming} \subseteq Seq(SUBSET Record)
    BY <2>3
  <2> QED BY <2>1, <2>2, <2>3, <2>4, <2>5, <2>6 DEF TimelineTypeOK
<1> QED BY <1>2, <1>3, <1>4 DEF TimelineInv

(* An arrival disturbs neither a render nor what the reader sees.          *)
LEMMA ArriveStep ==
  ASSUME TimelineInv, NEW r \in Record, Arrive(r)
  PROVE  TimelineInv'
<1>1. ingested' \in [Record -> 0 .. Horizon] /\ SnapshotsLast
  BY ArriveKeepsSnapshots DEF TimelineInv, TimelineTypeOK
<1>2. UNCHANGED <<now, render, timeline, loads>>
  BY DEF Arrive
<1>3. RenderFits' /\ TimelineFits'
  BY <1>1, <1>2, RenderKept, TimelineKept DEF TimelineInv
<1>4. TimelineTypeOK'
  BY <1>1, <1>2 DEF TimelineInv, TimelineTypeOK
<1> QED BY <1>3, <1>4 DEF TimelineInv

(* Nor does the clock, which only new snapshots read.                      *)
LEMMA TickStep ==
  ASSUME TimelineInv, Tick
  PROVE  TimelineInv'
<1>1. UNCHANGED <<ingested, render, timeline, loads>> /\ now' = now + 1 /\ now < Horizon
  BY DEF Tick
<1>2. RenderFits' /\ TimelineFits'
  BY <1>1, StoreUnchanged, RenderKept, TimelineKept DEF TimelineInv
<1>3. now' \in Record
  BY <1>1, TimelineAssumption DEF TimelineInv, TimelineTypeOK, Record
<1>4. TimelineTypeOK'
  BY <1>1, <1>3 DEF TimelineInv, TimelineTypeOK
<1> QED BY <1>2, <1>4 DEF TimelineInv

(* Steps of the other lens leave this one alone.                           *)
LEMMA StutterStep ==
  ASSUME TimelineInv, UNCHANGED timelineVars
  PROVE  TimelineInv'
<1>1. UNCHANGED <<ingested, now, render, timeline, loads>>
  BY DEF timelineVars
<1>2. RenderFits' /\ TimelineFits'
  BY <1>1, StoreUnchanged, RenderKept, TimelineKept DEF TimelineInv
<1>3. TimelineTypeOK'
  BY <1>1 DEF TimelineInv, TimelineTypeOK
<1> QED BY <1>2, <1>3 DEF TimelineInv

(* A navigation to a URL with good trails starts with no pages.            *)
LEMMA NavigateStep ==
  ASSUME TimelineInv, NEW url, UrlFits(url), Navigate(url)
  PROVE  TimelineInv'
<1>1. /\ loads < MaxLoads /\ loads' = loads + 1
      /\ render' = [at |-> "pages", url |-> url, pages |-> Empty, upages |-> Empty]
      /\ UNCHANGED <<ingested, now, timeline>>
  BY DEF Navigate
<1>2. SnapshotsLast
  BY <1>1, StoreUnchanged
<1>3. TimelineFits'
  BY <1>1, <1>2, TimelineKept DEF TimelineInv
<1>4. UrlFits(url)'
  BY <1>2, UrlKept
<1>5. render'.url = url
  BY <1>1
<1>6. UrlFits(render.url)'
  BY <1>1, <1>4, <1>5 DEF UrlFits, Known, Seq0, FeedTrail, UpcomingTrail, Past, Future, Members
<1>7. RenderFits'
  BY <1>1, <1>5, <1>6 DEF RenderFits, Empty
<1>8. loads' \in 0 .. MaxLoads
  BY <1>1, TimelineAssumption DEF TimelineInv, TimelineTypeOK
<1>9. TimelineTypeOK'
  BY <1>1, <1>5, <1>8 DEF TimelineInv, TimelineTypeOK, UrlFits
<1> QED BY <1>3, <1>7, <1>9 DEF TimelineInv

(* The handles of the page lead to URLs with good trails.                  *)
LEMMA MoreUrlFits ==
  ASSUME TimelineInv, timeline.next # NoCursor
  PROVE  UrlFits([timeline.url EXCEPT !.cursors = Append(@, timeline.next)])
<1> DEFINE cs == timeline.url.cursors
           d == Append(cs, timeline.next)
<1>1. /\ timeline.shown /\ UrlFits(timeline.url) /\ Known(timeline.snap)
      /\ Shows(timeline.feed, timeline.next, cs, timeline.snap,
               Past(timeline.snap), Limit, NewestFirst)
  BY DEF TimelineInv, TimelineFits
<1>2. cs \in Seq(Cursor) /\ timeline.url \in [cursors : Seq(Cursor), ucursors : Seq(Cursor)]
  BY <1>1 DEF UrlFits
<1>3. /\ Past(timeline.snap) \in SUBSET Record /\ Limit \in Nat \ {0}
      /\ NewestFirst \in Order /\ timeline.snap \in Snapshot
  BY <1>1, TimelineAssumption DEF Past, Members, Order, Known
<1>4. /\ d \in Seq(Cursor) /\ Len(d) = Len(cs) + 1
      /\ Trail(d, timeline.snap, Past(timeline.snap), Limit, NewestFirst)
  BY <1>1, <1>2, <1>3, HandleContinues
<1> HIDE DEF cs, d
<1>5. d[1].snap = timeline.snap
  BY <1>2, <1>4 DEF Trail
<1>6. FeedTrail(d, d[1].snap) /\ Known(d[1].snap)
  BY <1>1, <1>4, <1>5 DEF FeedTrail
<1> DEFINE new == [timeline.url EXCEPT !.cursors = d]
<1>7. /\ new \in [cursors : Seq(Cursor), ucursors : Seq(Cursor)]
      /\ new.cursors = d /\ new.ucursors = timeline.url.ucursors
  BY <1>2, <1>4
<1> HIDE DEF new
<1>8. UrlFits(new)
  BY <1>1, <1>6, <1>7 DEF UrlFits
<1> QED BY <1>8 DEF new, d, cs

(* The trail of the Upcoming section, and the handle to go on with.        *)
LEMMA UpcomingTrailIs ==
  ASSUME NEW url, UrlFits(url), NEW snap, Known(snap)
  PROVE  LET U == TrailSnap(url.ucursors, snap)
         IN  /\ Known(U)
             /\ \E pages : Shows(pages, UpcomingHandle(url.ucursors, U), url.ucursors, U,
                                Future(U), UpcomingLimit, SoonestFirst)
<1> DEFINE ucs == url.ucursors
           U == TrailSnap(ucs, snap)
           pages == [i \in 1 .. Len(ucs) + 1 |->
                       Rows(ucs, Future(U), UpcomingLimit, SoonestFirst, i)]
<1>1. Known(U) /\ Trail(ucs, U, Future(U), UpcomingLimit, SoonestFirst)
  <2>1. CASE ucs = <<>>
    BY <2>1 DEF TrailSnap, Trail
  <2>2. CASE ucs # <<>>
    BY <2>2 DEF TrailSnap, UrlFits, UpcomingTrail
  <2> QED BY <2>1, <2>2
<1>2. Shows(pages, UpcomingHandle(ucs, U), ucs, U, Future(U), UpcomingLimit, SoonestFirst)
  BY <1>1 DEF Shows, UpcomingHandle, UpcomingPage
<1> QED BY <1>1, <1>2

(* The handle of the Upcoming section is a cursor or none.                 *)
LEMMA UpcomingHandleType ==
  ASSUME NEW url, UrlFits(url), NEW snap, Known(snap)
  PROVE  UpcomingHandle(url.ucursors, TrailSnap(url.ucursors, snap))
           \in Cursor \cup {NoCursor}
<1> DEFINE U == TrailSnap(url.ucursors, snap)
           next == UpcomingHandle(url.ucursors, U)
<1>1. Known(U) /\ url.ucursors \in Seq(Cursor)
  BY UpcomingTrailIs DEF UrlFits
<1>2. PICK pages : Shows(pages, next, url.ucursors, U, Future(U), UpcomingLimit, SoonestFirst)
  BY UpcomingTrailIs
<1> HIDE DEF U, next
<1>3. /\ UpcomingLimit \in Nat \ {0} /\ SoonestFirst \in Order
      /\ Future(U) \in SUBSET Record /\ U \in Snapshot
  BY <1>1, TimelineAssumption DEF Future, Members, Order, Known
<1>4. next # NoCursor => next \in Cursor
  BY <1>1, <1>2, <1>3, HandleContinues
<1> QED BY <1>4 DEF next, U

(* A feed that a trail has shown is a sequence of pages.                   *)
LEMMA FeedType ==
  ASSUME NEW url, UrlFits(url), NEW snap, Known(snap), NEW pages, NEW next,
         Shows(pages, next, url.cursors, snap, Past(snap), Limit, NewestFirst)
  PROVE  next \in Cursor \cup {NoCursor} /\ pages \in Seq(SUBSET Record)
<1>1. /\ Limit \in Nat \ {0} /\ NewestFirst \in Order
      /\ Past(snap) \in SUBSET Record /\ snap \in Snapshot /\ url.cursors \in Seq(Cursor)
  BY TimelineAssumption DEF Past, Members, Order, Known, UrlFits
<1>2. next # NoCursor => next \in Cursor
  BY <1>1, HandleContinues
<1> DEFINE rows(i) == Rows(url.cursors, Past(snap), Limit, NewestFirst, i)
<1>3. \A i : rows(i) \in SUBSET Record
  BY <1>1 DEF Rows, Rest, FirstOf, After
<1>4. pages = [i \in 1 .. Len(url.cursors) + 1 |-> rows(i)]
  BY DEF Shows
<1> HIDE DEF rows
<1>5. pages \in Seq(SUBSET Record)
  BY <1>1, <1>3, <1>4
<1> QED BY <1>2, <1>5

(* A "Load more" of the Upcoming section lengthens its trail.              *)
LEMMA MoreUpcomingUrlFits ==
  ASSUME TimelineInv, timeline.upcomingNext # NoCursor
  PROVE  UrlFits([timeline.url EXCEPT !.ucursors = Append(@, timeline.upcomingNext)])
<1> DEFINE ucs == timeline.url.ucursors
           U == TrailSnap(ucs, timeline.snap)
           d == Append(ucs, timeline.upcomingNext)
<1>1. /\ timeline.shown /\ UrlFits(timeline.url) /\ Known(timeline.snap)
      /\ timeline.upcomingNext = UpcomingHandle(ucs, U)
  BY DEF TimelineInv, TimelineFits
<1>2. ucs \in Seq(Cursor) /\ timeline.url \in [cursors : Seq(Cursor), ucursors : Seq(Cursor)]
  BY <1>1 DEF UrlFits
<1>3. Known(U)
  BY <1>1, UpcomingTrailIs
<1>4. PICK pages : Shows(pages, timeline.upcomingNext, ucs, U,
                         Future(U), UpcomingLimit, SoonestFirst)
  BY <1>1, UpcomingTrailIs
<1> HIDE DEF U
<1>5. /\ Future(U) \in SUBSET Record /\ UpcomingLimit \in Nat \ {0}
      /\ SoonestFirst \in Order /\ U \in Snapshot
  BY <1>3, TimelineAssumption DEF Future, Members, Order, Known
<1> HIDE DEF ucs
<1>6. /\ d \in Seq(Cursor) /\ Len(d) = Len(ucs) + 1
      /\ Trail(d, U, Future(U), UpcomingLimit, SoonestFirst)
  BY <1>2, <1>4, <1>5, HandleContinues
<1> HIDE DEF d
<1>7. d[1].snap = U
  BY <1>2, <1>6 DEF Trail
<1>8. UpcomingTrail(d, d[1].snap) /\ Known(d[1].snap)
  BY <1>3, <1>6, <1>7 DEF UpcomingTrail
<1> DEFINE new == [timeline.url EXCEPT !.ucursors = d]
<1>9. /\ new \in [cursors : Seq(Cursor), ucursors : Seq(Cursor)]
      /\ new.ucursors = d /\ new.cursors = timeline.url.cursors
  BY <1>2, <1>6
<1> HIDE DEF new
<1>10. UrlFits(new)
  BY <1>1, <1>8, <1>9 DEF UrlFits
<1> QED BY <1>10 DEF new, d, ucs

(* A sequence with one more element in front.                              *)
LEMMA Prepended ==
  ASSUME NEW S, NEW x \in S, NEW t \in Seq(S)
  PROVE  /\ <<x>> \o t \in Seq(S) /\ Len(<<x>> \o t) = Len(t) + 1
         /\ (<<x>> \o t)[1] = x
         /\ \A i \in 1 .. Len(t) : (<<x>> \o t)[i + 1] = t[i]
  OBVIOUS

(* The plan asks for page 1 of the trail's snapshot and for one page after *)
(* each cursor.                                                            *)
LEMMA PlanIs ==
  ASSUME NEW cs \in Seq(Cursor)
  PROVE  /\ DOMAIN FetchPlan(cs) = 1 .. Len(cs) + 1
         /\ cs = <<>> => FetchPlan(cs)[1] = [cursor |-> NoCursor, rewind |-> FALSE]
         /\ cs # <<>> => FetchPlan(cs)[1] = [cursor |-> cs[1], rewind |-> TRUE]
         /\ \A i \in 1 .. Len(cs) :
               FetchPlan(cs)[i + 1] = [cursor |-> cs[i], rewind |-> FALSE]
<1>1. CASE cs = <<>>
  BY <1>1 DEF FetchPlan
<1>2. CASE cs # <<>>
  <2> DEFINE S == [cursor : Cursor, rewind : BOOLEAN]
             first == [cursor |-> cs[1], rewind |-> TRUE]
             others == [i \in 1 .. Len(cs) |-> [cursor |-> cs[i], rewind |-> FALSE]]
  <2>1. FetchPlan(cs) = <<first>> \o others
    BY <1>2 DEF FetchPlan
  <2>2. first \in S
    BY <1>2
  <2>3. /\ others \in Seq(S) /\ Len(others) = Len(cs)
        /\ \A i \in 1 .. Len(cs) : others[i] = [cursor |-> cs[i], rewind |-> FALSE]
    OBVIOUS
  <2>4. first = [cursor |-> cs[1], rewind |-> TRUE]
    OBVIOUS
  <2> HIDE DEF S, first, others
  <2>5. /\ <<first>> \o others \in Seq(S)
        /\ Len(<<first>> \o others) = Len(others) + 1
        /\ (<<first>> \o others)[1] = first
        /\ \A i \in 1 .. Len(others) : (<<first>> \o others)[i + 1] = others[i]
    BY <2>2, <2>3, Prepended
  <2> QED BY <1>2, <2>1, <2>3, <2>4, <2>5
<1> QED BY <1>1, <1>2

(* A cursor names a record, which the null does not.                       *)
LEMMA CursorNotNull == \A c \in Cursor : c # NoCursor
  BY DEF Cursor, NoCursor, Record

(* The endpoint answers every request of the plan with its page.           *)
LEMMA PlanAnswered ==
  ASSUME TimelineInv, NEW i \in DOMAIN FetchPlan(render.url.cursors)
  PROVE  LET step == FetchPlan(render.url.cursors)[i]
         IN  PageFits(ListTimeline(step.cursor, step.rewind), render.url.cursors, i)
<1> DEFINE cs == render.url.cursors
           step == FetchPlan(cs)[i]
           page == ListTimeline(step.cursor, step.rewind)
<1> SUFFICES PageFits(page, cs, i)
  OBVIOUS
<1>1. UrlFits(render.url) /\ cs \in Seq(Cursor)
  BY DEF TimelineInv, RenderFits, UrlFits
<1>2. i \in 1 .. Len(cs) + 1
  BY <1>1, PlanIs
<1>3. CASE cs = <<>>
  <2>1. i = 1 /\ step = [cursor |-> NoCursor, rewind |-> FALSE]
    <3>1. Len(cs) = 0
      BY <1>3
    <3>2. i = 1
      BY <1>2, <3>1
    <3> QED BY <1>1, <1>3, <3>2, PlanIs
  <2>2. page = TimelinePage(Fresh, Past(Fresh))
    BY <2>1 DEF ListTimeline
  <2>3. Seq0 \in 0 .. Horizon /\ now \in Record
    BY SeqType DEF TimelineInv, TimelineTypeOK
  <2>4. Known(Fresh)
    BY <2>3, TimelineAssumption DEF Known, Fresh, Snapshot, Record
  <2>5. page.snap = Fresh
    BY <2>2 DEF TimelinePage
  <2> HIDE DEF page, cs
  <2> QED BY <1>3, <2>1, <2>2, <2>4, <2>5 DEF PageFits, Rest
<1>4. CASE cs # <<>>
  <2> DEFINE S == cs[1].snap
  <2>1. Known(S) /\ cs[1] \in Cursor
    BY <1>1, <1>4 DEF UrlFits
  <2>2. page = TimelinePage(S, Rest(cs, Past(S), NewestFirst, i))
    <3>1. CASE i = 1
      <4>1. step = [cursor |-> cs[1], rewind |-> TRUE]
        BY <1>1, <1>4, <3>1, PlanIs
      <4>2. cs[1] # NoCursor
        BY <2>1, CursorNotNull
      <4> QED BY <3>1, <4>1, <4>2 DEF ListTimeline, Rest
    <3>2. CASE i # 1
      <4>1. PICK j \in 1 .. Len(cs) : i = j + 1
        <5>1. Len(cs) \in Nat /\ i - 1 \in 1 .. Len(cs) /\ i = (i - 1) + 1
          BY <1>1, <1>2, <3>2
        <5> QED BY <5>1
      <4>2. step = [cursor |-> cs[j], rewind |-> FALSE]
        BY <1>1, <4>1, PlanIs
      <4>3. cs[j] # NoCursor /\ cs[j].snap = S
        <5>1. cs[j] \in Cursor
          BY <1>1
        <5> QED BY <1>1, <5>1, CursorNotNull, TrailSnaps
      <4>4. page = TimelinePage(S, After(cs[j].after, Past(S), NewestFirst))
        BY <4>2, <4>3 DEF ListTimeline
      <4>5. Rest(cs, Past(S), NewestFirst, i) = After(cs[j].after, Past(S), NewestFirst)
        BY <4>1 DEF Rest
      <4> QED BY <4>4, <4>5
    <3> QED BY <3>1, <3>2
  <2>3. page.snap = S
    BY <2>2 DEF TimelinePage
  <2> HIDE DEF page, cs
  <2> QED BY <1>4, <2>1, <2>2, <2>3 DEF PageFits
<1> QED BY <1>3, <1>4

(* An answer more fits, and so do those before it.                         *)
LEMMA FetchPageStep ==
  ASSUME TimelineInv, NEW i, FetchPage(i)
  PROVE  TimelineInv'
<1> DEFINE cs == render.url.cursors
<1>1. PICK page : /\ page = ListTimeline(FetchPlan(cs)[i].cursor, FetchPlan(cs)[i].rewind)
                  /\ render.at = "pages" /\ i \in DOMAIN FetchPlan(cs)
                  /\ render' = [render EXCEPT !.pages = Extended(@, i, page)]
                  /\ UNCHANGED <<ingested, now, timeline, loads>>
  BY DEF FetchPage
<1>2. PageFits(page, cs, i)
  BY <1>1, PlanAnswered
<1>3. /\ render = [at |-> render.at, url |-> render.url,
                   pages |-> render.pages, upages |-> render.upages]
      /\ cs \in Seq(Cursor)
  BY DEF TimelineInv, RenderFits, UrlFits
<1>4. /\ render'.at = render.at /\ render'.url = render.url
      /\ render'.upages = render.upages
      /\ render'.pages = Extended(render.pages, i, page)
      /\ render' = [at |-> render'.at, url |-> render'.url,
                    pages |-> render'.pages, upages |-> render'.upages]
  BY <1>1, <1>3
<1>5. SnapshotsLast
  BY <1>1, StoreUnchanged
<1>6. UrlFits(render.url)'
  BY <1>4, <1>5, UrlKept DEF TimelineInv, RenderFits
<1>7. i \in 1 .. Len(cs) + 1
  BY <1>1, <1>3, PlanIs
<1>8. /\ DOMAIN render'.pages = DOMAIN render.pages \cup {i}
      /\ \A j \in DOMAIN render'.pages :
            render'.pages[j] = IF j = i THEN page ELSE render.pages[j]
  BY <1>4 DEF Extended
<1>9. ASSUME NEW j \in DOMAIN render'.pages
      PROVE  PageFits(render.pages[j], render.url.cursors, j)'
  <2>1. PageFits(render'.pages[j], cs, j)
    BY <1>2, <1>8 DEF TimelineInv, RenderFits
  <2> QED BY <1>4, <1>5, <2>1, PageKept
<1>10. render'.pages = [j \in DOMAIN render'.pages |-> render'.pages[j]]
  BY <1>4 DEF Extended
<1>11. \A j \in DOMAIN render.upages :
          (render.upages[j] = ListUpcoming(render.url.ucursors[j]))'
  <2>1. \A c : ListUpcoming(c)' = ListUpcoming(c)
    BY <1>1 DEF ListUpcoming, Future, Members
  <2>2. \A j \in DOMAIN render.upages :
           render.upages[j] = ListUpcoming(render.url.ucursors[j])
    BY DEF TimelineInv, RenderFits
  <2> QED BY <1>4, <2>1, <2>2
<1>12. RenderFits'
  BY <1>1, <1>4, <1>6, <1>7, <1>8, <1>9, <1>11, <1>10 DEF TimelineInv, RenderFits
<1>13. TimelineFits'
  BY <1>1, <1>5, TimelineKept DEF TimelineInv
<1>14. TimelineTypeOK'
  BY <1>1, <1>4 DEF TimelineInv, TimelineTypeOK
<1> QED BY <1>12, <1>13, <1>14 DEF TimelineInv

(* A page of the Upcoming trail is the one its cursor stands for.          *)
LEMMA FetchUpcomingStep ==
  ASSUME TimelineInv, NEW i, FetchUpcoming(i)
  PROVE  TimelineInv'
<1> DEFINE ucs == render.url.ucursors
<1>1. PICK page : /\ page = ListUpcoming(ucs[i])
                  /\ i \in DOMAIN ucs
                  /\ render' = [render EXCEPT !.upages = Extended(@, i, page)]
                  /\ UNCHANGED <<ingested, now, timeline, loads>>
  BY DEF FetchUpcoming
<1>2. /\ render = [at |-> render.at, url |-> render.url,
                   pages |-> render.pages, upages |-> render.upages]
      /\ ucs \in Seq(Cursor)
  BY DEF TimelineInv, RenderFits, UrlFits
<1>3. /\ render'.at = render.at /\ render'.url = render.url
      /\ render'.pages = render.pages
      /\ render'.upages = Extended(render.upages, i, page)
      /\ render' = [at |-> render'.at, url |-> render'.url,
                    pages |-> render'.pages, upages |-> render'.upages]
  BY <1>1, <1>2
<1>4. SnapshotsLast
  BY <1>1, StoreUnchanged
<1>5. UrlFits(render.url)'
  BY <1>3, <1>4, UrlKept DEF TimelineInv, RenderFits
<1>6. i \in 1 .. Len(ucs)
  BY <1>1, <1>2
<1>7. /\ DOMAIN render'.upages = DOMAIN render.upages \cup {i}
      /\ render'.upages = [j \in DOMAIN render'.upages |-> render'.upages[j]]
      /\ \A j \in DOMAIN render'.upages :
            render'.upages[j] = IF j = i THEN page ELSE render.upages[j]
  BY <1>3 DEF Extended
<1>8. \A c : ListUpcoming(c)' = ListUpcoming(c)
  BY <1>1 DEF ListUpcoming, Future, Members
<1>9. \A j \in DOMAIN render'.upages :
         (render.upages[j] = ListUpcoming(render.url.ucursors[j]))'
  <2>1. \A j \in DOMAIN render.upages :
           render.upages[j] = ListUpcoming(render.url.ucursors[j])
    BY DEF TimelineInv, RenderFits
  <2> QED BY <1>1, <1>3, <1>7, <1>8, <2>1
<1>10. \A j \in DOMAIN render.pages :
          PageFits(render.pages[j], render.url.cursors, j)'
  <2>1. \A j \in DOMAIN render.pages :
           PageFits(render.pages[j], render.url.cursors, j)
    BY DEF TimelineInv, RenderFits
  <2> QED BY <1>3, <1>4, <2>1, PageKept
<1>11. RenderFits'
  BY <1>3, <1>5, <1>6, <1>7, <1>9, <1>10 DEF TimelineInv, RenderFits
<1>12. TimelineFits'
  BY <1>1, <1>4, TimelineKept DEF TimelineInv
<1>13. TimelineTypeOK'
  BY <1>1, <1>3 DEF TimelineInv, TimelineTypeOK
<1> QED BY <1>11, <1>12, <1>13 DEF TimelineInv

(* The walk of the Upcoming trail keeps the pages fetched before it.       *)
LEMMA StartUpcomingStep ==
  ASSUME TimelineInv, StartUpcoming
  PROVE  TimelineInv'
<1>1. /\ render' = [render EXCEPT !.at = "upcoming"]
      /\ UNCHANGED <<ingested, now, timeline, loads>>
      /\ DOMAIN render.pages = DOMAIN FetchPlan(render.url.cursors)
  BY DEF StartUpcoming, PagesArrived
<1>2. /\ render = [at |-> render.at, url |-> render.url,
                   pages |-> render.pages, upages |-> render.upages]
      /\ render.url.cursors \in Seq(Cursor)
  BY DEF TimelineInv, RenderFits, UrlFits
<1>3. render' = [at |-> "upcoming", url |-> render.url,
                 pages |-> render.pages, upages |-> render.upages]
  BY <1>1, <1>2
<1>4. SnapshotsLast
  BY <1>1, StoreUnchanged
<1>5. UrlFits(render.url)'
  BY <1>3, <1>4, UrlKept DEF TimelineInv, RenderFits
<1>6. \A j \in DOMAIN render.pages :
         PageFits(render.pages[j], render.url.cursors, j)'
  <2>1. \A j \in DOMAIN render.pages :
           PageFits(render.pages[j], render.url.cursors, j)
    BY DEF TimelineInv, RenderFits
  <2> QED BY <1>3, <1>4, <2>1, PageKept
<1>7. \A j \in DOMAIN render.upages :
         (render.upages[j] = ListUpcoming(render.url.ucursors[j]))'
  <2>1. \A c : ListUpcoming(c)' = ListUpcoming(c)
    BY <1>1 DEF ListUpcoming, Future, Members
  <2>2. \A j \in DOMAIN render.upages :
           render.upages[j] = ListUpcoming(render.url.ucursors[j])
    BY DEF TimelineInv, RenderFits
  <2> QED BY <1>3, <2>1, <2>2
<1>8. DOMAIN render.pages = 1 .. Len(render.url.cursors) + 1
  BY <1>1, <1>2, PlanIs
<1>9. RenderFits'
  BY <1>3, <1>5, <1>6, <1>7, <1>8 DEF TimelineInv, RenderFits
<1>10. TimelineFits'
  BY <1>1, <1>4, TimelineKept DEF TimelineInv
<1>11. TimelineTypeOK'
  BY <1>1, <1>3 DEF TimelineInv, TimelineTypeOK
<1> QED BY <1>9, <1>10, <1>11 DEF TimelineInv

(* A render that ends leaves no pages behind.                              *)
LEMMA NoRenderFits == render' = NoRender => RenderFits'
<1> SUFFICES ASSUME render' = NoRender PROVE RenderFits'
  OBVIOUS
<1>1. /\ render'.url = NoUrl /\ render'.at = "idle"
      /\ DOMAIN render'.pages = {} /\ DOMAIN render'.upages = {}
      /\ render' = [at |-> render'.at, url |-> render'.url,
                    pages |-> render'.pages, upages |-> render'.upages]
      /\ render'.pages = [i \in DOMAIN render'.pages |-> render'.pages[i]]
      /\ render'.upages = [i \in DOMAIN render'.upages |-> render'.upages[i]]
  BY DEF NoRender, Empty
<1>2. UrlFits(render.url)'
  BY <1>1 DEF UrlFits, NoUrl
<1> QED BY <1>1, <1>2 DEF RenderFits

(* A failed request gives the whole render up.                             *)
LEMMA FetchFailsStep ==
  ASSUME TimelineInv, FetchFails
  PROVE  TimelineInv'
<1>1. render' = NoRender /\ UNCHANGED <<ingested, now, timeline, loads>>
  BY DEF FetchFails
<1>2. RenderFits'
  BY <1>1, NoRenderFits
<1>3. TimelineFits'
  BY <1>1, StoreUnchanged, TimelineKept DEF TimelineInv
<1>4. render'.at = "idle" /\ render'.url = NoUrl
  BY <1>1 DEF NoRender
<1>5. TimelineTypeOK'
  BY <1>1, <1>4 DEF TimelineInv, TimelineTypeOK, NoUrl
<1> QED BY <1>2, <1>3, <1>5 DEF TimelineInv

(* Pages that come one after the other are concatenated as they are.       *)
LEMMA ConcatOrdered ==
  ASSUME NEW order \in Order, NEW n \in Nat, NEW pages,
         DOMAIN pages = 1 .. n,
         \A i \in 1 .. n : pages[i] \in SUBSET Record,
         \A i, j \in 1 .. n : i < j =>
            \A q \in pages[i], r \in pages[j] : <<q, r>> \in order
  PROVE  Concat(pages) = [i \in 1 .. n |-> pages[i]]
<1>1. ASSUME NEW i \in 1 .. n
      PROVE  pages[i] \ UNION {pages[j] : j \in 1 .. (i - 1)} = pages[i]
  <2>1. ASSUME NEW j \in 1 .. (i - 1), NEW r \in pages[i], r \in pages[j]
        PROVE  FALSE
    <3>1. j \in 1 .. n /\ j < i
      OBVIOUS
    <3>2. <<r, r>> \in order
      BY <2>1, <3>1
    <3> QED BY <3>2, OrderFacts
  <2> QED BY <2>1
<1> QED BY <1>1 DEF Concat

(* Concatenated pages are pages of records.                                *)
LEMMA ConcatType ==
  ASSUME NEW pages \in Seq(SUBSET Record)
  PROVE  Concat(pages) \in Seq(SUBSET Record)
<1>1. Concat(pages) \in [1 .. Len(pages) -> SUBSET Record]
  BY DEF Concat
<1> QED BY <1>1

(* The length of a sequence given as a function.                           *)
LEMMA LengthIs ==
  ASSUME NEW n \in Nat, NEW f, f = [i \in 1 .. n |-> f[i]]
  PROVE  Len(f) = n
<1> DEFINE S == {f[i] : i \in 1 .. n}
<1>1. f \in [1 .. n -> S]
  OBVIOUS
<1> HIDE DEF S
<1>2. f \in Seq(S)
  BY <1>1
<1> QED BY <1>1, <1>2

(* Everything is there when a page is rendered.                            *)
Arrived ==
    /\ DOMAIN render.pages = 1 .. Len(render.url.cursors) + 1
    /\ DOMAIN render.upages = 1 .. Len(render.url.ucursors)

(* A page is composed when every request has been answered.                *)
LEMMA RenderArrived ==
  ASSUME TimelineInv, Render
  PROVE  Arrived
<1>1. render.url.cursors \in Seq(Cursor) /\ render.url.ucursors \in Seq(Cursor)
  BY DEF TimelineInv, RenderFits, UrlFits
<1>2. CASE PagesArrived /\ render.url.ucursors = <<>>
  <2>1. DOMAIN render.pages = 1 .. Len(render.url.cursors) + 1
    BY <1>1, <1>2, PlanIs DEF PagesArrived
  <2>2. DOMAIN render.upages \subseteq 1 .. 0 /\ Len(render.url.ucursors) = 0
    BY <1>2 DEF TimelineInv, RenderFits
  <2> QED BY <2>1, <2>2 DEF Arrived
<1>3. CASE render.at = "upcoming" /\ DOMAIN render.upages = DOMAIN render.url.ucursors
  BY <1>1, <1>3 DEF Arrived, TimelineInv, RenderFits
<1> QED BY <1>2, <1>3 DEF Render

(* The parts of the first page.                                            *)
LEMMA PageParts ==
  ASSUME NEW snap, NEW rows
  PROVE  /\ TimelinePage(snap, rows).feed = FeedPage(snap, rows)
         /\ TimelinePage(snap, rows).upcoming = UpcomingPage(snap, Future(snap))
  BY DEF TimelinePage

(* The pages of a render are of one snapshot, and show what its trail does. *)
LEMMA RenderedFeed ==
  ASSUME TimelineInv, Arrived
  PROVE  LET snap == render.pages[1].snap
             m == Merged(render.pages)
         IN  /\ Known(snap)
             /\ render.pages[1] = TimelinePage(snap, Past(snap))
             /\ Shows(m.feed, m.next, render.url.cursors, snap,
                      Past(snap), Limit, NewestFirst)
<1> DEFINE cs == render.url.cursors
           n == Len(cs) + 1
           pages == render.pages
           snap == pages[1].snap
           all == Past(snap)
           rows(i) == Rows(cs, all, Limit, NewestFirst, i)
           blocks == [i \in DOMAIN pages |-> pages[i].feed.data]
           m == Merged(pages)
<1> SUFFICES /\ Known(snap) /\ pages[1] = TimelinePage(snap, all)
             /\ Shows(m.feed, m.next, cs, snap, all, Limit, NewestFirst)
  OBVIOUS
<1>1. /\ cs \in Seq(Cursor) /\ UrlFits(render.url) /\ n \in Nat \ {0}
      /\ DOMAIN pages = 1 .. n /\ pages = [i \in 1 .. n |-> pages[i]]
      /\ \A i \in 1 .. n : PageFits(pages[i], cs, i)
  BY DEF TimelineInv, RenderFits, UrlFits, Arrived
<1>2. 1 \in 1 .. n /\ n \in 1 .. n /\ n = Len(cs) + 1
  BY <1>1
<1> HIDE DEF n, pages, cs
<1>3. ASSUME NEW i \in 1 .. n
      PROVE  pages[i] = TimelinePage(snap, Rest(cs, all, NewestFirst, i))
  <2>1. PageFits(pages[i], cs, i) /\ PageFits(pages[1], cs, 1)
    BY <1>1, <1>2
  <2>2. pages[i].snap = snap
    <3>1. CASE cs = <<>>
      <4>1. Len(cs) = 0
        BY <3>1
      <4>2. i = 1
        BY <1>2, <4>1
      <4> QED BY <4>2
    <3>2. CASE cs # <<>>
      BY <2>1, <3>2 DEF PageFits
    <3> QED BY <3>1, <3>2
  <2> QED BY <2>1, <2>2 DEF PageFits
<1>4. Known(snap)
  <2>1. PageFits(pages[1], cs, 1)
    BY <1>1, <1>2
  <2> QED BY <2>1 DEF PageFits
<1>5. pages[1] = TimelinePage(snap, all)
  <2>1. Rest(cs, all, NewestFirst, 1) = all
    BY DEF Rest
  <2> QED BY <1>3, <1>2, <2>1
<1>6. Trail(cs, snap, all, Limit, NewestFirst)
  <2>1. CASE cs = <<>>
    BY <2>1 DEF Trail
  <2>2. CASE cs # <<>>
    <3>1. PageFits(pages[1], cs, 1)
      BY <1>1, <1>2
    <3>2. snap = cs[1].snap
      BY <2>2, <3>1 DEF PageFits
    <3>3. FeedTrail(cs, cs[1].snap)
      BY <1>1, <2>2 DEF UrlFits, cs
    <3> QED BY <3>2, <3>3 DEF FeedTrail
  <2> QED BY <2>1, <2>2
<1>7. /\ all \in SUBSET Record /\ Limit \in Nat \ {0} /\ NewestFirst \in Order
  BY TimelineAssumption DEF Past, Members, Order
<1>8. ASSUME NEW i \in 1 .. n
      PROVE  /\ pages[i].feed.data = rows(i)
             /\ pages[i].feed.next
                  = PageOf(snap, Rest(cs, all, NewestFirst, i), Limit, NewestFirst).next
  <2> HIDE DEF snap, all
  <2>1. pages[i].feed = PageOf(snap, Rest(cs, all, NewestFirst, i), Limit, NewestFirst)
    BY <1>3, PageParts DEF FeedPage
  <2>2. PageOf(snap, Rest(cs, all, NewestFirst, i), Limit, NewestFirst).data = rows(i)
    BY DEF PageOf, Rows
  <2> QED BY <2>1, <2>2
<1>9. /\ DOMAIN blocks = 1 .. n
      /\ \A i \in 1 .. n : blocks[i] = rows(i)
  BY <1>1, <1>8
<1> HIDE DEF all, snap, blocks
<1>10. \A i \in 1 .. n : rows(i) \in SUBSET Record
  BY <1>7 DEF Rows, Rest, FirstOf, After
<1>11. \A i, j \in 1 .. n : i < j => \A q \in rows(i), r \in rows(j) : <<q, r>> \in NewestFirst
  <2>1. ASSUME NEW i \in 1 .. Len(cs) + 1, NEW j \in 1 .. Len(cs) + 1, i < j,
               NEW q \in rows(i), NEW r \in rows(j)
        PROVE  <<q, r>> \in NewestFirst
    BY <1>1, <1>6, <1>7, <2>1, PagesOrdered
  <2> QED BY <1>2, <2>1
<1>12. Concat(blocks) = [i \in 1 .. n |-> blocks[i]]
  <2>1. \A i, j \in 1 .. n : i < j =>
           \A q \in blocks[i], r \in blocks[j] : <<q, r>> \in NewestFirst
    BY <1>9, <1>11
  <2>2. \A i \in 1 .. n : blocks[i] \in SUBSET Record
    BY <1>9, <1>10
  <2>3. n \in Nat /\ DOMAIN blocks = 1 .. n /\ NewestFirst \in Order
    BY <1>1, <1>7, <1>9
  <2> HIDE DEF rows
  <2> QED BY <2>1, <2>2, <2>3, ConcatOrdered
<1>13. m.feed = [i \in 1 .. n |-> rows(i)]
  <2>1. m.feed = Concat(blocks)
    BY DEF Merged, blocks
  <2> QED BY <1>9, <1>12, <2>1
<1>14. m.next = PageOf(snap, Rest(cs, all, NewestFirst, n), Limit, NewestFirst).next
  <2>1. Len(pages) = n
    BY <1>1, LengthIs
  <2>2. m.next = pages[n].feed.next
    BY <2>1 DEF Merged, Last
  <2> QED BY <1>8, <1>2, <2>2
<1>15. Shows(m.feed, m.next, cs, snap, all, Limit, NewestFirst)
  <2> HIDE DEF m
  <2> QED BY <1>6, <1>13, <1>14, <1>2 DEF Shows
<1> QED BY <1>4, <1>5, <1>15 DEF all, snap

(* The Upcoming section goes on where its trail ends, and while head and   *)
(* trail are of one snapshot it shows what the trail does.                 *)
LEMMA RenderedUpcoming ==
  ASSUME TimelineInv, Arrived
  PROVE  LET snap == render.pages[1].snap
             ucs == render.url.ucursors
             up == Upcoming(render.pages[1], render.upages)
         IN  /\ up.rows \in Seq(SUBSET Record)
             /\ up.next = UpcomingHandle(ucs, TrailSnap(ucs, snap))
             /\ (\A c \in Range(ucs) : c.snap = snap) =>
                   Shows(up.rows, up.next, ucs, snap, Future(snap),
                         UpcomingLimit, SoonestFirst)
<1> DEFINE ucs == render.url.ucursors
           k == Len(ucs)
           upages == render.upages
           page1 == render.pages[1]
           snap == page1.snap
           U == TrailSnap(ucs, snap)
           up == Upcoming(page1, upages)
           head == page1.upcoming.data
           tail == [i \in DOMAIN upages |-> upages[i].data]
           blocks == <<head>> \o tail
<1> SUFFICES /\ up.rows \in Seq(SUBSET Record)
             /\ up.next = UpcomingHandle(ucs, U)
             /\ (\A c \in Range(ucs) : c.snap = snap) =>
                   Shows(up.rows, up.next, ucs, snap, Future(snap),
                         UpcomingLimit, SoonestFirst)
  OBVIOUS
<1>1. /\ ucs \in Seq(Cursor) /\ UrlFits(render.url) /\ k \in Nat
      /\ DOMAIN upages = 1 .. k /\ upages = [i \in 1 .. k |-> upages[i]]
      /\ \A i \in 1 .. k : upages[i] = ListUpcoming(ucs[i])
  BY DEF TimelineInv, RenderFits, UrlFits, Arrived
<1>2. page1.upcoming = UpcomingPage(snap, Future(snap))
  <2>1. page1 = TimelinePage(snap, Past(snap))
    BY RenderedFeed
  <2> QED BY <2>1, PageParts
<1>3. \A i \in 1 .. k : ucs[i].snap = U
  <2>1. ASSUME NEW i \in 1 .. k PROVE ucs[i].snap = U
    <3>1. ucs # <<>>
      BY <1>1
    <3>2. ucs[i].snap = ucs[1].snap
      BY <1>1, TrailSnaps
    <3> QED BY <3>1, <3>2 DEF TrailSnap
  <2> QED BY <2>1
<1>4. Trail(ucs, U, Future(U), UpcomingLimit, SoonestFirst)
  <2>1. CASE ucs = <<>>
    BY <2>1 DEF Trail
  <2>2. CASE ucs # <<>>
    <3>1. U = ucs[1].snap /\ UpcomingTrail(ucs, ucs[1].snap)
      BY <1>1, <2>2 DEF TrailSnap, UrlFits
    <3> QED BY <3>1 DEF UpcomingTrail
  <2> QED BY <2>1, <2>2
<1> HIDE DEF k, ucs, upages, page1, snap, U
<1>5. /\ UpcomingLimit \in Nat \ {0} /\ SoonestFirst \in Order
      /\ Future(U) \in SUBSET Record /\ Future(snap) \in SUBSET Record
  BY TimelineAssumption DEF Future, Members, Order
<1>6. ASSUME NEW i \in 1 .. k
      PROVE  upages[i] = UpcomingPage(U, Rest(ucs, Future(U), SoonestFirst, i + 1))
  <2>1. upages[i] = UpcomingPage(U, After(ucs[i].after, Future(U), SoonestFirst))
    BY <1>1, <1>3 DEF ListUpcoming
  <2>2. Rest(ucs, Future(U), SoonestFirst, i + 1) = After(ucs[i].after, Future(U), SoonestFirst)
    BY DEF Rest
  <2> QED BY <2>1, <2>2
<1>7. \A i \in 1 .. k : upages[i].data = Rows(ucs, Future(U), UpcomingLimit, SoonestFirst, i + 1)
  <2>1. \A rest : UpcomingPage(U, rest).data = FirstOf(UpcomingLimit, rest, SoonestFirst)
    BY DEF UpcomingPage, PageOf
  <2> QED BY <1>6, <2>1 DEF Rows
<1>8. head = FirstOf(UpcomingLimit, Future(snap), SoonestFirst)
  BY <1>2 DEF UpcomingPage, PageOf
<1>9. head \in SUBSET Record /\ \A i \in 1 .. k : upages[i].data \in SUBSET Record
  BY <1>5, <1>7, <1>8 DEF Rows, Rest, FirstOf, After
<1>10. /\ tail \in Seq(SUBSET Record) /\ Len(tail) = k
       /\ \A i \in 1 .. k : tail[i] = upages[i].data
  BY <1>1, <1>9
<1> HIDE DEF tail, head
<1>11. /\ blocks \in Seq(SUBSET Record) /\ Len(blocks) = k + 1 /\ blocks[1] = head
       /\ \A i \in 1 .. k : blocks[i + 1] = tail[i]
  BY <1>9, <1>10, Prepended
<1> HIDE DEF blocks
<1>12. up.rows = Concat(blocks)
  BY DEF Upcoming, UpcomingRows, blocks, tail, head
<1>13. up.next = UpcomingHandle(ucs, U)
  <2>1. CASE k = 0
    <3>1. upages = <<>> /\ ucs = <<>>
      BY <1>1, <2>1 DEF k
    <3>2. up.next = page1.upcoming.next
      BY <3>1 DEF Upcoming
    <3>3. U = snap
      BY <3>1 DEF U, TrailSnap
    <3>4. Rest(ucs, Future(snap), SoonestFirst, k + 1) = Future(snap)
      BY <2>1 DEF Rest
    <3> QED BY <1>2, <3>2, <3>3, <3>4 DEF UpcomingHandle, k
  <2>2. CASE k # 0
    <3>1. k \in 1 .. k /\ upages # <<>>
      BY <1>1, <2>2
    <3>2. Len(upages) = k
      BY <1>1, LengthIs
    <3>3. up.next = upages[k].next
      BY <3>1, <3>2 DEF Upcoming, Last
    <3> QED BY <1>6, <3>1, <3>3 DEF UpcomingHandle, k
  <2> QED BY <2>1, <2>2
<1>14. ASSUME \A c \in Range(ucs) : c.snap = snap
       PROVE  Shows(up.rows, up.next, ucs, snap, Future(snap), UpcomingLimit, SoonestFirst)
  <2> DEFINE rows(i) == Rows(ucs, Future(snap), UpcomingLimit, SoonestFirst, i)
  <2>1. U = snap
    <3>1. CASE ucs = <<>>
      BY <3>1 DEF U, TrailSnap
    <3>2. CASE ucs # <<>>
      <4>1. ucs[1] \in Range(ucs)
        BY <1>1, <3>2 DEF Range
      <4> QED BY <1>14, <3>2, <4>1 DEF U, TrailSnap
    <3> QED BY <3>1, <3>2
  <2>2. \A i \in 1 .. k + 1 : blocks[i] = rows(i)
    <3>1. blocks[1] = rows(1)
      BY <1>8, <1>11 DEF Rows, Rest
    <3>2. \A i \in 1 .. k : blocks[i + 1] = rows(i + 1)
      BY <1>7, <1>10, <1>11, <2>1
    <3>3. \A i \in 1 .. k + 1 : i = 1 \/ \E j \in 1 .. k : i = j + 1
      <4>1. ASSUME NEW i \in 1 .. k + 1, i # 1 PROVE \E j \in 1 .. k : i = j + 1
        <5>1. i - 1 \in 1 .. k /\ i = (i - 1) + 1
          BY <1>1, <4>1
        <5> QED BY <5>1
      <4> QED BY <4>1
    <3> HIDE DEF rows
    <3> QED BY <3>1, <3>2, <3>3
  <2>3. \A i, j \in 1 .. k + 1 : i < j =>
           \A q \in blocks[i], r \in blocks[j] : <<q, r>> \in SoonestFirst
    <3>1. ASSUME NEW i \in 1 .. Len(ucs) + 1, NEW j \in 1 .. Len(ucs) + 1, i < j,
                 NEW q \in rows(i), NEW r \in rows(j)
          PROVE  <<q, r>> \in SoonestFirst
      BY <1>1, <1>4, <1>5, <2>1, <3>1, PagesOrdered
    <3> HIDE DEF rows
    <3> QED BY <2>2, <3>1 DEF k
  <2>4. /\ DOMAIN blocks = 1 .. k + 1 /\ k + 1 \in Nat
        /\ \A i \in 1 .. k + 1 : blocks[i] \in SUBSET Record
    BY <1>1, <1>11
  <2>5. Concat(blocks) = [i \in 1 .. k + 1 |-> blocks[i]]
    BY <1>5, <2>3, <2>4, ConcatOrdered
  <2>6. up.rows = [i \in 1 .. k + 1 |-> rows(i)]
    BY <1>12, <2>2, <2>5
  <2>7. up.next = PageOf(snap, Rest(ucs, Future(snap), SoonestFirst, k + 1),
                         UpcomingLimit, SoonestFirst).next
    BY <1>13, <2>1 DEF UpcomingHandle, UpcomingPage, k
  <2> HIDE DEF up
  <2> QED BY <1>4, <2>1, <2>6, <2>7 DEF Shows, k
<1>15. up.rows \in Seq(SUBSET Record)
  BY <1>11, <1>12, ConcatType
<1> QED BY <1>13, <1>14, <1>15

(* What is rendered is what the trails of the URL have shown.              *)
LEMMA RenderStep ==
  ASSUME TimelineInv, Render
  PROVE  TimelineInv'
<1> DEFINE url == render.url
           page1 == render.pages[1]
           snap == page1.snap
           m == Merged(render.pages)
           up == Upcoming(page1, render.upages)
<1>1. /\ timeline' = Rendered(url, render.pages, render.upages)
      /\ render' = NoRender
      /\ UNCHANGED <<ingested, now, loads>>
  BY DEF Render
<1>2. SnapshotsLast
  BY <1>1, StoreUnchanged
<1>3. /\ timeline'.url = url /\ timeline'.shown = TRUE /\ timeline'.snap = snap
      /\ timeline'.feed = m.feed /\ timeline'.next = m.next
      /\ timeline'.upcoming = up.rows /\ timeline'.upcomingNext = up.next
  BY <1>1 DEF Rendered
<1>4. UrlFits(url) /\ Arrived
  BY RenderArrived DEF TimelineInv, RenderFits
<1>5. /\ Known(snap)
      /\ Shows(m.feed, m.next, url.cursors, snap, Past(snap), Limit, NewestFirst)
  BY <1>4, RenderedFeed
<1>6. /\ up.rows \in Seq(SUBSET Record)
      /\ up.next = UpcomingHandle(url.ucursors, TrailSnap(url.ucursors, snap))
      /\ (\A c \in Range(url.ucursors) : c.snap = snap) =>
            Shows(up.rows, up.next, url.ucursors, snap, Future(snap),
                  UpcomingLimit, SoonestFirst)
  BY <1>4, RenderedUpcoming
<1> HIDE DEF url, page1, snap, m, up
<1>7. UrlFits(timeline.url)'
  BY <1>2, <1>3, <1>4, UrlKept
<1>8. /\ Known(timeline.snap)'
      /\ \A s : Past(s)' = Past(s) /\ Future(s)' = Future(s)
  BY <1>1, <1>3, <1>5 DEF Known, Seq0, Past, Future, Members
<1>9. OneSnapshot' = (\A c \in Range(url.ucursors) : c.snap = snap)
  BY <1>3 DEF OneSnapshot
<1>11. TimelineFits'
  BY <1>3, <1>5, <1>6, <1>7, <1>8, <1>9 DEF TimelineFits, UpcomingHandle
<1>12. RenderFits'
  BY <1>1, NoRenderFits
<1>13. TimelineTypeOK'
  <2>1. up.next \in Cursor \cup {NoCursor}
    BY <1>4, <1>5, <1>6, UpcomingHandleType
  <2>2. m.next \in Cursor \cup {NoCursor} /\ m.feed \in Seq(SUBSET Record)
    BY <1>4, <1>5, FeedType
  <2>3. render'.at = "idle" /\ render'.url = NoUrl
    BY <1>1 DEF NoRender
  <2>4. snap \in Snapshot /\ {url.cursors, url.ucursors} \subseteq Seq(Cursor)
    BY <1>4, <1>5 DEF Known, UrlFits
  <2>5. ingested' \in [Record -> 0 .. Horizon] /\ now' \in Record /\ loads' \in 0 .. MaxLoads
    BY <1>1 DEF TimelineInv, TimelineTypeOK
  <2>6. \A u \in {render'.url, timeline'.url} : {u.cursors, u.ucursors} \subseteq Seq(Cursor)
    <3>1. NoUrl.cursors = <<>> /\ NoUrl.ucursors = <<>> /\ <<>> \in Seq(Cursor)
      BY DEF NoUrl
    <3> QED BY <1>3, <2>3, <2>4, <3>1
  <2>7. /\ timeline'.shown \in BOOLEAN /\ timeline'.snap \in Snapshot
        /\ {timeline'.next, timeline'.upcomingNext} \subseteq Cursor \cup {NoCursor}
        /\ {timeline'.feed, timeline'.upcoming} \subseteq Seq(SUBSET Record)
    BY <1>3, <1>6, <2>1, <2>2, <2>4
  <2> QED BY <2>3, <2>5, <2>6, <2>7 DEF TimelineTypeOK
<1> QED BY <1>11, <1>12, <1>13 DEF TimelineInv

(* Every step of the recent lens keeps the invariant.                      *)
LEMMA TimelineStep ==
  ASSUME TimelineInv, [TimelineNext]_timelineVars
  PROVE  TimelineInv'
<1>1. CASE \E r \in Record : Arrive(r)
  BY <1>1, ArriveStep
<1>2. CASE Tick
  BY <1>2, TickStep
<1>3. CASE Open
  BY <1>3, NoUrlFits, NavigateStep DEF Open
<1>4. CASE Reload
  BY <1>4, NavigateStep DEF Reload, TimelineInv, TimelineFits
<1>5. CASE LoadMore
  BY <1>5, MoreUrlFits, NavigateStep DEF LoadMore
<1>6. CASE LoadMoreUpcoming
  BY <1>6, MoreUpcomingUrlFits, NavigateStep DEF LoadMoreUpcoming
<1>7. CASE \E i \in 1 .. MaxLoads : FetchPage(i) \/ FetchUpcoming(i)
  BY <1>7, FetchPageStep, FetchUpcomingStep
<1>8. CASE StartUpcoming
  BY <1>8, StartUpcomingStep
<1>9. CASE FetchFails
  BY <1>9, FetchFailsStep
<1>10. CASE Render
  BY <1>10, RenderStep
<1>11. CASE UNCHANGED timelineVars
  BY <1>11, StutterStep
<1> QED
  BY <1>1, <1>2, <1>3, <1>4, <1>5, <1>6, <1>7, <1>8, <1>9, <1>10, <1>11 DEF TimelineNext

(* What the reader sees is a prefix of the snapshot's rows.                *)
LEMMA LensPrefixes ==
  ASSUME TimelineInv
  PROVE  FeedIsPrefix /\ UpcomingIsPrefix
<1>1. ASSUME timeline.shown
      PROVE  /\ PrefixOf(timeline.feed, timeline.next, timeline.snap,
                         Past(timeline.snap), NewestFirst)
             /\ OneSnapshot => PrefixOf(timeline.upcoming, timeline.upcomingNext,
                                        timeline.snap, Future(timeline.snap), SoonestFirst)
  <2>1. /\ Known(timeline.snap)
        /\ Shows(timeline.feed, timeline.next, timeline.url.cursors, timeline.snap,
                 Past(timeline.snap), Limit, NewestFirst)
        /\ OneSnapshot =>
              Shows(timeline.upcoming, timeline.upcomingNext, timeline.url.ucursors,
                    timeline.snap, Future(timeline.snap), UpcomingLimit, SoonestFirst)
    BY <1>1 DEF TimelineInv, TimelineFits
  <2>2. /\ timeline.snap \in Snapshot
        /\ timeline.url.cursors \in Seq(Cursor) /\ timeline.url.ucursors \in Seq(Cursor)
    BY <2>1 DEF TimelineInv, TimelineFits, UrlFits, Known
  <2>3. /\ Past(timeline.snap) \in SUBSET Record /\ Future(timeline.snap) \in SUBSET Record
        /\ NewestFirst \in Order /\ SoonestFirst \in Order
        /\ Limit \in Nat \ {0} /\ UpcomingLimit \in Nat \ {0}
    BY TimelineAssumption DEF Past, Future, Members, Order
  <2> QED BY <2>1, <2>2, <2>3, ShownIsPrefix
<1> QED BY <1>1 DEF FeedIsPrefix, UpcomingIsPrefix

(* One "Load more" more leaves the rows where they are.                    *)
LEMMA LoadMoreStep ==
  ASSUME TimelineInv, TimelineInv', [TimelineNext]_timelineVars,
         timeline'.url.cursors = Append(timeline.url.cursors, timeline.next)
  PROVE  IsPrefix(timeline.feed, timeline'.feed)
<1> DEFINE cs == timeline.url.cursors
           snap == timeline.snap
<1>1. cs \in Seq(Cursor) /\ timeline'.url.cursors \in Seq(Cursor)
  BY DEF TimelineInv, TimelineTypeOK
<1>2. timeline' # timeline
  <2>1. Len(Append(cs, timeline.next)) = Len(cs) + 1 /\ Len(cs) \in Nat
    BY <1>1
  <2>2. timeline'.url.cursors # cs
    BY <2>1
  <2> QED BY <2>2
<1>3. Render
  BY <1>2 DEF TimelineNext, timelineVars, Arrive, Tick, Open, Reload, LoadMore,
              LoadMoreUpcoming, Navigate, FetchPage, FetchUpcoming, StartUpcoming, FetchFails
<1>4. UNCHANGED ingested /\ timeline'.shown
  BY <1>3 DEF Render, Rendered
<1>5. timeline.next \in Cursor
  <2>1. timeline.next = Append(cs, timeline.next)[Len(cs) + 1]
    BY <1>1
  <2>2. Len(cs) + 1 \in 1 .. Len(timeline'.url.cursors)
    BY <1>1
  <2> QED BY <1>1, <2>1, <2>2
<1>6. timeline.shown
  BY <1>5, CursorNotNull DEF TimelineInv, TimelineFits
<1>7. Known(snap) /\ Shows(timeline.feed, timeline.next, cs, snap, Past(snap), Limit, NewestFirst)
  BY <1>6 DEF TimelineInv, TimelineFits
<1>8. Shows(timeline'.feed, timeline'.next, Append(cs, timeline.next), timeline'.snap,
            Past(timeline'.snap), Limit, NewestFirst)
  <2>1. Shows(timeline.feed, timeline.next, timeline.url.cursors, timeline.snap,
              Past(timeline.snap), Limit, NewestFirst)'
    BY <1>4 DEF TimelineInv, TimelineFits
  <2>2. Past(timeline.snap)' = Past(timeline'.snap)
    BY <1>4 DEF Past, Members
  <2> QED BY <2>1, <2>2
<1>9. timeline'.snap = snap
  <2> DEFINE d == Append(cs, timeline.next)
  <2>1. /\ d \in Seq(Cursor) /\ Len(d) = Len(cs) + 1 /\ d[Len(d)] = timeline.next
        /\ Len(d) \in 1 .. Len(d)
    BY <1>1, <1>5
  <2>2. timeline.next.snap = snap
    BY <1>5, <1>7, CursorNotNull DEF Shows, PageOf
  <2>3. d[Len(d)].snap = timeline'.snap
    BY <1>8, <2>1 DEF Shows, Trail
  <2> QED BY <2>1, <2>2, <2>3
<1> HIDE DEF cs, snap
<1> QED BY <1>1, <1>5, <1>7, <1>8, <1>9, MoreOnlyAdds DEF cs

(***************************************************************************)
(* A record of the window stays where it is while its stream grows, and an *)
(* answer holds every record of the window or admits to more.              *)
(***************************************************************************)
Stored == stored \in [Streams -> Seq(Stamp)]

HadStands ==
    \A e \in load.had :
        /\ e \in load.targets \X (1 .. MaxStored)
        /\ e[2] \in 1 .. Len(stored[e[1]])
        /\ isWithinWindow(TimeOf(e), load.since, load.until)

Covers(s, answer) ==
    answer.ok => answer.more \/ \A e \in load.had : e[1] = s => e \in answer.entries

Covered == \A s \in DOMAIN load.answers : Covers(s, load.answers[s])

Fetching ==
    load.at = "fetching" =>
        /\ load = [at |-> "fetching", since |-> load.since, until |-> load.until,
                   targets |-> load.targets, answers |-> load.answers, had |-> load.had]
        /\ load.answers = [r \in DOMAIN load.answers |-> load.answers[r]]
        /\ load.targets \subseteq Streams /\ DOMAIN load.answers \subseteq load.targets
        /\ HadStands /\ Covered

FanInInv == Stored /\ Fetching /\ MissingIsDisclosed

(* Nothing is stored and nothing is shown at first.                        *)
LEMMA FanInStart == Init => FanInInv
  BY DEF Init, FanInInv, Stored, Fetching, MissingIsDisclosed, Idle, Blank, Stamp

(* An arrival moves no record of the window.                               *)
LEMMA IngestKeeps ==
  ASSUME FanInInv, NEW s \in Streams, NEW t \in Stamp, Ingest(s, t)
  PROVE  FanInInv'
<1>1. stored \in [Streams -> Seq(Stamp)] /\ stored' = [stored EXCEPT ![s] = Append(@, t)]
  BY DEF FanInInv, Stored, Ingest
<1>2. Stored'
  BY <1>1 DEF Stored
<1>3. ASSUME NEW r \in Streams, NEW i \in 1 .. Len(stored[r])
      PROVE  i \in 1 .. Len(stored'[r]) /\ stored'[r][i] = stored[r][i]
  <2>1. CASE r = s
    <3>1. stored[r] \in Seq(Stamp) /\ stored'[r] = Append(stored[r], t)
      BY <1>1, <2>1
    <3> QED BY <3>1
  <2>2. CASE r # s
    BY <1>1, <2>2
  <2> QED BY <2>1, <2>2
<1>4. UNCHANGED <<load, view>>
  BY DEF Ingest
<1>5. Fetching'
  <2> SUFFICES ASSUME load.at = "fetching" PROVE Fetching'
    BY <1>4 DEF Fetching
  <2>1. HadStands'
    <3> SUFFICES ASSUME NEW e \in load.had
                 PROVE  /\ e \in load.targets \X (1 .. MaxStored)
                        /\ e[2] \in 1 .. Len(stored'[e[1]])
                        /\ isWithinWindow(stored'[e[1]][e[2]], load.since, load.until)
      BY <1>4 DEF HadStands, TimeOf, isWithinWindow
    <3>1. /\ e \in load.targets \X (1 .. MaxStored) /\ load.targets \subseteq Streams
          /\ e[2] \in 1 .. Len(stored[e[1]])
          /\ isWithinWindow(stored[e[1]][e[2]], load.since, load.until)
      BY DEF FanInInv, Fetching, HadStands, TimeOf
    <3>2. e[1] \in Streams
      BY <3>1
    <3> QED BY <1>3, <3>1, <3>2
  <2> QED BY <1>4, <2>1 DEF FanInInv, Fetching, Covered, Covers
<1> QED BY <1>2, <1>4, <1>5 DEF FanInInv, MissingIsDisclosed

(* The window of a new request is what it says.                            *)
LEMMA RequestKeeps ==
  ASSUME FanInInv, NEW targets \in SUBSET Streams, NEW since \in Stamp, NEW until \in Stamp,
         Request(targets, since, until)
  PROVE  FanInInv'
<1>1. /\ load' = [at |-> "fetching", since |-> since, until |-> until,
                  targets |-> targets, answers |-> [s \in {} |-> 0],
                  had |-> InWindow(targets, since, until)]
      /\ UNCHANGED <<stored, view>>
  BY DEF Request
<1>2. ASSUME NEW e \in InWindow(targets, since, until)
      PROVE  /\ e \in targets \X (1 .. MaxStored)
             /\ e[2] \in 1 .. Len(stored[e[1]])
             /\ isWithinWindow(TimeOf(e), since, until)
  <2>1. /\ e \in targets \X (1 .. MaxStored) /\ e[2] <= Len(stored[e[1]])
        /\ isWithinWindow(TimeOf(e), since, until)
    BY DEF InWindow
  <2>2. stored[e[1]] \in Seq(Stamp) /\ e[2] \in 1 .. MaxStored
    BY <2>1 DEF FanInInv, Stored
  <2> QED BY <2>1, <2>2
<1>3. HadStands'
  BY <1>1, <1>2 DEF HadStands, TimeOf, isWithinWindow
<1>4. DOMAIN load'.answers = {}
  BY <1>1
<1> QED BY <1>1, <1>3, <1>4 DEF FanInInv, Stored, Fetching, Covered, MissingIsDisclosed

(* A read of one more stream keeps what the others said.                   *)
LEMMA SettleKeeps ==
  ASSUME FanInInv, NEW s, NEW answer, Covers(s, answer), Settle(s, answer)
  PROVE  FanInInv'
<1>1. /\ load.at = "fetching" /\ s \in load.targets /\ UNCHANGED <<stored, view>>
      /\ load = [at |-> "fetching", since |-> load.since, until |-> load.until,
                 targets |-> load.targets, answers |-> load.answers, had |-> load.had]
  BY DEF FanInInv, Fetching, Settle
<1>2. load' = [at |-> "fetching", since |-> load.since, until |-> load.until,
               targets |-> load.targets, had |-> load.had,
               answers |-> [r \in DOMAIN load.answers \cup {s} |->
                              IF r = s THEN answer ELSE load.answers[r]]]
  BY <1>1 DEF Settle
<1>3. HadStands'
  BY <1>1, <1>2 DEF FanInInv, Fetching, HadStands, TimeOf, isWithinWindow
<1>4. Covered'
  BY <1>1, <1>2 DEF FanInInv, Fetching, Covered, Covers
<1> QED BY <1>1, <1>2, <1>3, <1>4 DEF FanInInv, Stored, Fetching, MissingIsDisclosed

(* A record of the window that the page of its stream does not hold is     *)
(* older than the page, and then the stream has more.                      *)
LEMMA AnswerCovers ==
  ASSUME FanInInv, load.at = "fetching", NEW s \in load.targets, NEW counted
  PROVE  Covers(s, Answered(s, counted))
<1>1. SUFFICES ASSUME NEW e \in load.had, e[1] = s, ~(Len(stored[s]) > PageLimit)
               PROVE  e \in Answered(s, counted).entries
  BY DEF Covers, Answered
<1>2. /\ e \in load.targets \X (1 .. MaxStored) /\ e[2] \in 1 .. Len(stored[s])
      /\ isWithinWindow(TimeOf(e), load.since, load.until)
  BY <1>1 DEF FanInInv, Fetching, HadStands
<1>3. Len(stored[s]) \in Nat
  BY DEF FanInInv, Fetching, Stored
<1>4. e[2] > Len(stored[s]) - PageLimit
  BY <1>1, <1>2, <1>3, FanInAssumption
<1>5. e \in Page(s)
  BY <1>1, <1>2, <1>4 DEF Page
<1> QED BY <1>2, <1>5 DEF Answered

(* Whatever is cut from a page, its stream gets a link or a warning.       *)
LEMMA CollectDiscloses ==
  ASSUME FanInInv, Collect
  PROVE  FanInInv'
<1> DEFINE entries == UNION {load.answers[s].entries : s \in Ok(load.answers)}
           truncated == Cardinality(entries) > TotalCap
<1>1. PICK kept \in Slices(entries) :
        \E kind, total : view' = [shown   |-> TRUE,
                                  entries |-> kept,
                                  kind    |-> kind,
                                  total   |-> total,
                                  seeAll  |-> SeeAll(load.answers, truncated),
                                  failed  |-> Failed(load.answers),
                                  had     |-> load.had]
  BY Zenon DEF Collect
<1>2. /\ load.at = "fetching" /\ DOMAIN load.answers = load.targets
      /\ load'.at = "done" /\ UNCHANGED stored
  BY DEF Collect, Idle
<1>3. ASSUME NEW e \in load.had
      PROVE  e \in kept \/ e[1] \in SeeAll(load.answers, truncated)
                        \/ e[1] \in Failed(load.answers)
  <2>1. e[1] \in DOMAIN load.answers
    BY <1>2 DEF FanInInv, Fetching, HadStands
  <2>2. CASE ~load.answers[e[1]].ok
    BY <2>1, <2>2 DEF Failed, Ok
  <2>3. CASE load.answers[e[1]].ok /\ (load.answers[e[1]].more \/ truncated)
    BY <2>1, <2>3 DEF SeeAll, Ok
  <2>4. CASE load.answers[e[1]].ok /\ ~load.answers[e[1]].more /\ ~truncated
    <3>1. e \in load.answers[e[1]].entries
      BY <1>2, <2>1, <2>4 DEF FanInInv, Fetching, Covered, Covers
    <3>2. e \in entries
      BY <2>1, <2>4, <3>1 DEF Ok
    <3>3. kept = entries
      BY <2>4 DEF Slices
    <3> QED BY <3>2, <3>3
  <2> QED BY <2>2, <2>3, <2>4
<1>4. MissingIsDisclosed'
  BY <1>1, <1>3 DEF MissingIsDisclosed
<1> QED BY <1>2, <1>4 DEF FanInInv, Stored, Fetching

(* Every step keeps the invariant.                                         *)
LEMMA FanInStep == FanInInv /\ [Next]_vars => FanInInv'
<1> SUFFICES ASSUME FanInInv, [Next]_vars PROVE FanInInv'
  OBVIOUS
<1>1. CASE \E s \in Streams, t \in Stamp : Ingest(s, t)
  BY <1>1, IngestKeeps
<1>2. CASE \E targets \in SUBSET Streams, since, until \in Stamp : Request(targets, since, until)
  BY <1>2, RequestKeeps
<1>3. ASSUME NEW s \in Streams, Answer(s) PROVE FanInInv'
  <2>1. PICK counted \in BOOLEAN : Settle(s, Answered(s, counted))
    BY <1>3 DEF Answer
  <2>2. load.at = "fetching" /\ s \in load.targets
    BY <2>1 DEF Settle
  <2> QED BY <2>1, <2>2, AnswerCovers, SettleKeeps
<1>4. ASSUME NEW s \in Streams, Fail(s) PROVE FanInInv'
  BY <1>4, SettleKeeps DEF Fail, Covers
<1>5. CASE Collect
  BY <1>5, CollectDiscloses
<1>6. CASE UNCHANGED vars
  BY <1>6 DEF vars, FanInInv, Stored, Fetching, HadStands, Covered, Covers, TimeOf,
              isWithinWindow, MissingIsDisclosed
<1> QED BY <1>1, <1>2, <1>3, <1>4, <1>5, <1>6 DEF Next

(***************************************************************************)
(* The page: a step of one lens leaves the state of the other alone.       *)
(***************************************************************************)
IInv == TimelineInv /\ FanInInv

(* The page starts with an empty URL, no load and nothing shown.           *)
THEOREM Initially == DispatchInit => IInv
  BY TimelineStart, FanInStart DEF DispatchInit, IInv

(* dispatchFeed: a step of either lens, or an arrival, keeps the           *)
(* invariant of both.                                                      *)
THEOREM Inductive == IInv /\ [dispatchFeed]_dispatchVars => IInv'
<1> SUFFICES ASSUME IInv, [dispatchFeed]_dispatchVars PROVE IInv'
  OBVIOUS
<1>1. [TimelineNext]_timelineVars /\ [Next]_vars
  BY DEF dispatchFeed, Recent, TimeRange, dispatchVars
<1> QED BY <1>1, TimelineStep, FanInStep DEF IInv

(* Types of the recent lens: rows are records, cursors carry a snapshot    *)
(* and a row.                                                              *)
THEOREM Typed == DispatchSpec => []TimelineTypeOK
<1>1. IInv => TimelineTypeOK
  BY DEF IInv, TimelineInv
<1>2. IInv /\ [dispatchFeed]_dispatchVars => IInv'
  BY Inductive
<1> QED BY <1>1, <1>2, Initially, PTL DEF DispatchSpec

(* loadMergedTimelineFeed: the feed is a prefix of one snapshot, newest    *)
(* first, whatever arrives between and during the requests of its pages.   *)
THEOREM FeedPrefix == DispatchSpec => []FeedIsPrefix
<1>1. IInv => FeedIsPrefix
  BY LensPrefixes DEF IInv
<1>2. IInv /\ [dispatchFeed]_dispatchVars => IInv'
  BY Inductive
<1> QED BY <1>1, <1>2, Initially, PTL DEF DispatchSpec

(* loadUpcomingTrailPages: so are the revealed future records, soonest     *)
(* first, while head and trail of their section are of one snapshot.       *)
THEOREM UpcomingPrefix == DispatchSpec => []UpcomingIsPrefix
<1>1. IInv => UpcomingIsPrefix
  BY LensPrefixes DEF IInv
<1>2. IInv /\ [dispatchFeed]_dispatchVars => IInv'
  BY Inductive
<1> QED BY <1>1, <1>2, Initially, PTL DEF DispatchSpec

(* FetchPlan: "Load more" takes nothing away that the reader had.          *)
THEOREM OnlyAdds == DispatchSpec => LoadMoreOnlyAdds
<1>1. IInv /\ IInv' /\ [dispatchFeed]_dispatchVars =>
         [ timeline'.url.cursors = Append(timeline.url.cursors, timeline.next)
             => IsPrefix(timeline.feed, timeline'.feed) ]_timelineVars
  <2> SUFFICES ASSUME IInv, IInv', [dispatchFeed]_dispatchVars,
                      timeline'.url.cursors = Append(timeline.url.cursors, timeline.next)
               PROVE  IsPrefix(timeline.feed, timeline'.feed)
    OBVIOUS
  <2>1. [TimelineNext]_timelineVars
    BY DEF dispatchFeed, Recent, TimeRange, dispatchVars
  <2> QED BY <2>1, LoadMoreStep DEF IInv
<1>2. IInv /\ [dispatchFeed]_dispatchVars => IInv'
  BY Inductive
<1> QED BY <1>1, <1>2, Initially, PTL DEF DispatchSpec, LoadMoreOnlyAdds

(* loadTimeRangeFeed: a record of the window is shown, or its stream has a *)
(* link or a warning, for any streams, limits and arrivals.                *)
THEOREM Disclosed == DispatchSpec => []MissingIsDisclosed
<1>1. IInv => MissingIsDisclosed
  BY DEF IInv, FanInInv
<1>2. IInv /\ [dispatchFeed]_dispatchVars => IInv'
  BY Inductive
<1> QED BY <1>1, <1>2, Initially, PTL DEF DispatchSpec
=============================================================================
