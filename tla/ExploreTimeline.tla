--------------------------- MODULE ExploreTimeline ---------------------------
(***************************************************************************)
(* The recent lens of the operator UI's Explore page: a "Load more" that   *)
(* accumulates.  The URL carries the trail of cursors handed out so far;   *)
(* every render fetches page 1 and one page per cursor, all at once, and   *)
(* concatenates them, while connectors go on ingesting records.            *)
(*                                                                         *)
(* The endpoint is not in the repository.  It is modelled from how the     *)
(* assembler uses it: a first page captures a snapshot (an ingest sequence *)
(* and the instant that separates past from future), a cursor carries its  *)
(* snapshot, and a rewound cursor serves page 1 of that snapshot.          *)
(***************************************************************************)
EXTENDS Integers, Sequences, FiniteSets, SequencesExt

CONSTANTS
    Horizon,        \* semantic times are 1..Horizon, one record at each
    Limit,          \* FEED_TOTAL_CAP
    UpcomingLimit,  \* UPCOMING_PAGE_LIMIT
    MaxLoads        \* bound: navigations of the reader

ASSUME TimelineAssumption ==
    /\ Horizon \in Nat \ {0}
    /\ Limit \in Nat \ {0}
    /\ UpcomingLimit \in Nat \ {0}
    /\ MaxLoads \in Nat

VARIABLES
    ingested,   \* the ingest sequence number of each record; 0: not yet there
    now,        \* the server's wall clock, in semantic time
    render,     \* the render in progress: its URL and the pages fetched so far
    timeline,   \* what the reader sees; timeline.revealed is a history variable:
                \* the Upcoming rows the reader had when the trail was walked
    loads       \* navigations so far

timelineVars == <<ingested, now, render, timeline, loads>>

Record == 1 .. Horizon

Snapshot == [seq : 0 .. Horizon, ceiling : 0 .. Horizon]

Cursor == [snap : Snapshot, after : Record]

\* No cursor: the null of the source.
NoCursor == [snap |-> [seq |-> 0, ceiling |-> 0], after |-> 0]

(***************************************************************************)
(* The endpoint.                                                           *)
(***************************************************************************)
Seq0 == Cardinality({r \in Record : ingested[r] # 0})

Fresh == [seq |-> Seq0, ceiling |-> now]

Members(snap) == {r \in Record : ingested[r] \in 1 .. snap.seq}

\* The feed and the future records of a snapshot.
Past(snap) == {r \in Members(snap) : r <= snap.ceiling}

Future(snap) == {r \in Members(snap) : r > snap.ceiling}

\* The orders they are paged in, each the set of its pairs <<earlier, later>>.
NewestFirst == {p \in Record \X Record : p[1] > p[2]}

SoonestFirst == {p \in Record \X Record : p[1] < p[2]}

\* The first rows in an order, the last of them, and the rows after a given one.
FirstOf(limit, rows, order) ==
    {r \in rows : Cardinality({q \in rows : <<q, r>> \in order}) < limit}

LastOf(rows, order) == CHOOSE r \in rows : \A q \in rows \ {r} : <<q, r>> \in order

After(r, rows, order) == {q \in rows : <<r, q>> \in order}

\* A page of rows; the cursor that continues it names its last row.
PageOf(snap, rows, limit, order) ==
    LET data == FirstOf(limit, rows, order)
    IN  [data |-> data,
         next |-> IF Cardinality(rows) > limit
                    THEN [snap |-> snap, after |-> LastOf(data, order)]
                    ELSE NoCursor]

FeedPage(snap, rows) == PageOf(snap, rows, Limit, NewestFirst)

UpcomingPage(snap, rows) == PageOf(snap, rows, UpcomingLimit, SoonestFirst)

\* listExploreTimeline without an upcoming cursor, and with one.
TimelinePage(snap, rows) ==
    [snap |-> snap, feed |-> FeedPage(snap, rows),
     upcoming |-> UpcomingPage(snap, Future(snap)), total |-> Cardinality(Future(snap))]

ListTimeline(cursor, rewind) ==
    LET snap == IF cursor = NoCursor THEN Fresh ELSE cursor.snap
    IN  TimelinePage(snap, IF cursor = NoCursor \/ rewind
                             THEN Past(snap)
                             ELSE After(cursor.after, Past(snap), NewestFirst))

ListUpcoming(c) == UpcomingPage(c.snap, After(c.after, Future(c.snap), SoonestFirst))

(***************************************************************************)
(* The assembler.                                                          *)
(***************************************************************************)

\* Mutant: page 1 is fetched afresh whatever the trail says.
FetchPlan_fresh(cursors) ==
    << [cursor |-> NoCursor, rewind |-> FALSE] >>
    \o [i \in 1 .. Len(cursors) |-> [cursor |-> cursors[i], rewind |-> FALSE]]

\* The pages a URL asks for, in display order: a fresh page 1 for an empty
\* trail, else page 1 rewound to the trail's snapshot and the trail itself.
FetchPlan(cursors) ==
    IF cursors = <<>>
      THEN << [cursor |-> NoCursor, rewind |-> FALSE] >>
      ELSE << [cursor |-> Head(cursors), rewind |-> TRUE] >>
           \o [i \in 1 .. Len(cursors) |-> [cursor |-> cursors[i], rewind |-> FALSE]]

\* Concatenate the rows of pages, each without those that are there already.
Concat(pages) ==
    [i \in DOMAIN pages |-> pages[i] \ UNION {pages[j] : j \in 1 .. (i - 1)}]

NoUrl == [cursors |-> <<>>, ucursors |-> <<>>]

Empty == [i \in {} |-> NoCursor]

NoRender == [at |-> "idle", url |-> NoUrl, pages |-> Empty, upages |-> Empty]

NothingShown == [url |-> NoUrl, shown |-> FALSE, snap |-> NoCursor.snap,
                 feed |-> <<>>, next |-> NoCursor,
                 upcoming |-> <<>>, upcomingNext |-> NoCursor, upcomingTotal |-> 0,
                 revealed |-> {}]

\* Mutant: the handle of the first page is kept.
Merged_firstHandle(pages) ==
    [feed |-> Concat([i \in DOMAIN pages |-> pages[i].feed.data]),
     next |-> Head(pages).feed.next]

\* The merged feed of the pages: rows concatenated, the handle of the last one.
Merged(pages) ==
    [feed |-> Concat([i \in DOMAIN pages |-> pages[i].feed.data]),
     next |-> Last(pages).feed.next]

\* The head of the Upcoming section with the pages of its trail.
UpcomingRows(page1, upages) ==
    Concat(<<page1.upcoming.data>> \o [i \in DOMAIN upages |-> upages[i].data])

\* Mutant: the walk of the trail does not move the handle.
Upcoming_headHandle(page1, upages) ==
    [rows |-> UpcomingRows(page1, upages), next |-> page1.upcoming.next]

\* The Upcoming section: page 1's head, then the walked trail.
Upcoming(page1, upages) ==
    [rows |-> UpcomingRows(page1, upages),
     next |-> IF upages = <<>> THEN page1.upcoming.next ELSE Last(upages).next]

Rendered(url, pages, upages) ==
    LET feed == Merged(pages)
        up   == Upcoming(pages[1], upages)
    IN  [url |-> url, shown |-> TRUE, snap |-> pages[1].snap,
         feed |-> feed.feed, next |-> feed.next,
         upcoming |-> up.rows, upcomingNext |-> up.next,
         upcomingTotal |-> pages[1].total,
         revealed |-> IF url.ucursors = <<>> THEN {} ELSE UNION Range(timeline.upcoming)]

(***************************************************************************)
(* Behaviour.                                                              *)
(***************************************************************************)
TimelineInit ==
    /\ ingested \in [Record -> {0}]
    /\ now \in Record
    /\ render = NoRender
    /\ timeline = NothingShown
    /\ loads = 0

\* A connector stores a record; its semantic time may be anywhere.
Arrive(r) ==
    /\ ingested[r] = 0
    /\ ingested' = [ingested EXCEPT ![r] = Seq0 + 1]
    /\ UNCHANGED <<now, render, timeline, loads>>

\* Time passes: a future record becomes a past one.
Tick ==
    /\ now < Horizon
    /\ now' = now + 1
    /\ UNCHANGED <<ingested, render, timeline, loads>>

\* A navigation to a URL; one that is under way is given up.
Navigate(url) ==
    /\ loads < MaxLoads
    /\ loads' = loads + 1
    /\ render' = [at |-> "pages", url |-> url, pages |-> Empty, upages |-> Empty]
    /\ UNCHANGED <<ingested, now, timeline>>

\* The first visit, the "N new" pill and every change of the query.
Open == Navigate(NoUrl)

\* The same URL again: a reload, or a retry after an error.
Reload == timeline.shown /\ Navigate(timeline.url)

LoadMore ==
    /\ timeline.next # NoCursor
    /\ Navigate([timeline.url EXCEPT !.cursors = Append(@, timeline.next)])

LoadMoreUpcoming ==
    /\ timeline.upcomingNext # NoCursor
    /\ Navigate([timeline.url EXCEPT !.ucursors = Append(@, timeline.upcomingNext)])

\* The answers so far, with that of request i.
Extended(pages, i, page) ==
    [j \in DOMAIN pages \cup {i} |-> IF j = i THEN page ELSE pages[j]]

\* One of the concurrent requests for the planned pages is answered.
FetchPage(i) ==
    LET plan == FetchPlan(render.url.cursors)
    IN  /\ render.at = "pages"
        /\ i \in DOMAIN plan \ DOMAIN render.pages
        /\ render' = [render EXCEPT !.pages =
                      Extended(@, i, ListTimeline(plan[i].cursor, plan[i].rewind))]
        /\ UNCHANGED <<ingested, now, timeline, loads>>

PagesArrived ==
    /\ render.at = "pages"
    /\ DOMAIN render.pages = DOMAIN FetchPlan(render.url.cursors)

\* All pages are there and the Upcoming trail is to be walked.
StartUpcoming ==
    /\ PagesArrived
    /\ render.url.ucursors # <<>>
    /\ render' = [render EXCEPT !.at = "upcoming"]
    /\ UNCHANGED <<ingested, now, timeline, loads>>

\* One of the concurrent requests for the Upcoming trail is answered.
FetchUpcoming(i) ==
    /\ render.at = "upcoming"
    /\ i \in DOMAIN render.url.ucursors \ DOMAIN render.upages
    /\ render' = [render EXCEPT !.upages =
                    Extended(@, i, ListUpcoming(render.url.ucursors[i]))]
    /\ UNCHANGED <<ingested, now, timeline, loads>>

\* A request fails: the whole render does, and the reader keeps the old page.
FetchFails ==
    /\ render.at # "idle"
    /\ render' = NoRender
    /\ UNCHANGED <<ingested, now, timeline, loads>>

Render ==
    /\ \/ PagesArrived /\ render.url.ucursors = <<>>
       \/ render.at = "upcoming" /\ DOMAIN render.upages = DOMAIN render.url.ucursors
    /\ timeline' = Rendered(render.url, render.pages, render.upages)
    /\ render' = NoRender
    /\ UNCHANGED <<ingested, now, loads>>

TimelineNext ==
    \/ \E r \in Record : Arrive(r)
    \/ Tick
    \/ Open \/ Reload \/ LoadMore \/ LoadMoreUpcoming
    \/ \E i \in 1 .. MaxLoads : FetchPage(i) \/ FetchUpcoming(i)
    \/ StartUpcoming
    \/ FetchFails
    \/ Render

TimelineSpec == TimelineInit /\ [][TimelineNext]_timelineVars

(***************************************************************************)
(* Properties.                                                             *)
(***************************************************************************)

\* Types: rows are records, cursors carry a snapshot and a row.
TimelineTypeOK ==
    /\ ingested \in [Record -> 0 .. Horizon]
    /\ now \in Record
    /\ loads \in 0 .. MaxLoads
    /\ render.at \in {"idle", "pages", "upcoming"}
    /\ \A url \in {render.url, timeline.url} :
          {url.cursors, url.ucursors} \subseteq Seq(Cursor)
    /\ timeline.shown \in BOOLEAN
    /\ timeline.snap \in Snapshot
    /\ {timeline.next, timeline.upcomingNext} \subseteq Cursor \cup {NoCursor}
    /\ {timeline.feed, timeline.upcoming} \subseteq Seq(SUBSET Record)

\* Pages of rows and the handle to go on with are a prefix of a snapshot's rows:
\* every page comes after the ones before it, the rows are those up to the last
\* one and the handle continues after it, or nothing is missing and there is none.
PrefixOf(pages, next, snap, all, order) ==
    /\ \A i, j \in DOMAIN pages : i < j => pages[i] \X pages[j] \subseteq order
    /\ IF next = NoCursor
         THEN UNION Range(pages) = all
         ELSE /\ next.snap = snap
              /\ next.after \in all
              /\ UNION Range(pages) = all \ After(next.after, all, order)

\* What loadMergedTimelineFeed renders is a prefix of one snapshot's feed,
\* newest first, however many records arrive between and during the renders,
\* and "Load more" continues it until it is complete.
FeedIsPrefix ==
    timeline.shown =>
        PrefixOf(timeline.feed, timeline.next, timeline.snap, Past(timeline.snap), NewestFirst)

\* "Load more" only adds: every row the reader had is still there, in its
\* place (the rewound page 1 is pinned to the snapshot of the trail).
LoadMoreOnlyAdds ==
    [][ timeline'.url.cursors = Append(timeline.url.cursors, timeline.next)
          => IsPrefix(timeline.feed, timeline'.feed) ]_timelineVars

\* Head and trail of the Upcoming section come from one snapshot.
OneSnapshot == \A c \in Range(timeline.url.ucursors) : c.snap = timeline.snap

\* While they do, the section is a prefix of the snapshot's future records, and
\* "Load more upcoming" continues it until it is complete.
UpcomingIsPrefix ==
    timeline.shown /\ OneSnapshot =>
        PrefixOf(timeline.upcoming, timeline.upcomingNext, timeline.snap,
                 Future(timeline.snap), SoonestFirst)

\* The comment on the walk of the trail: previously revealed future records stay
\* visible.  False: without a feed trail page 1 is fetched afresh and joined to
\* an Upcoming trail that is pinned to the older snapshot, so a record that
\* arrives in between pushes the last row of the old head out of both.
RevealedStaysVisible ==
    \A r \in timeline.revealed : r > timeline.snap.ceiling => r \in UNION Range(timeline.upcoming)
=============================================================================
