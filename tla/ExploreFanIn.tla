----------------------------- MODULE ExploreFanIn -----------------------------
(***************************************************************************)
(* The time-range lens of the Explore page: one bounded read per stream,   *)
(* all at once, each of which may fail, merged into one feed with a        *)
(* descriptor of what the feed may claim, links to the streams it does not *)
(* show in full, and warnings for the streams that did not answer.         *)
(***************************************************************************)
EXTENDS Integers, Sequences, FiniteSets, FiniteSetsExt, Functions

CONSTANTS
    Streams,     \* streams of the connections in sight
    Times,       \* times of records; 0 stands for a value that is no timestamp
    PageLimit,   \* TIME_RANGE_RECORDS_PER_STREAM
    TotalCap,    \* TIME_RANGE_TOTAL_CAP
    MaxStored    \* bound: records of a stream

ASSUME FanInAssumption ==
    /\ IsFiniteSet(Streams)
    /\ Times \subseteq Nat \ {0}
    /\ {PageLimit, TotalCap, MaxStored} \subseteq Nat \ {0}

VARIABLES
    stored,   \* per stream, the times of its records in the order of arrival
    load,     \* the request in progress: window, targets, answers so far
    view      \* what is rendered

vars == <<stored, load, view>>

Unset == 0

Stamp == Times \cup {0}

\* A record is named by its stream and its place in the order of arrival.
Entry == Streams \X (1 .. MaxStored)

TimeOf(e) == stored[e[1]][e[2]]

Idle == [at |-> "idle", since |-> Unset, until |-> Unset, targets |-> {},
         answers |-> [s \in {} |-> 0], had |-> {}]

Blank == [shown |-> FALSE, entries |-> {}, kind |-> "none", total |-> 0,
          seeAll |-> {}, failed |-> {}, had |-> {}]

Init ==
    /\ stored = [s \in Streams |-> <<>>]
    /\ load = Idle
    /\ view = Blank

\* The records a window holds; since is inclusive, until is not.
isWithinWindow(t, since, until) ==
    /\ t # 0
    /\ since # Unset => t >= since
    /\ until # Unset => t < until

InWindow(targets, since, until) ==
    {e \in targets \X (1 .. MaxStored) :
        e[2] <= Len(stored[e[1]]) /\ isWithinWindow(TimeOf(e), since, until)}

\* A connector stores a record.
Ingest(s, t) ==
    /\ Len(stored[s]) < MaxStored
    /\ stored' = [stored EXCEPT ![s] = Append(@, t)]
    /\ UNCHANGED <<load, view>>

\* A request for a window.  The targets are the streams with a declared time
\* field that are neither filtered out nor excluded.  A request keeps nothing
\* from an earlier one, so the model makes one.
Request(targets, since, until) ==
    /\ load.at = "idle"
    /\ since # Unset \/ until # Unset
    /\ load' = [at |-> "fetching", since |-> since, until |-> until,
                targets |-> targets, answers |-> [s \in {} |-> 0],
                had |-> InWindow(targets, since, until)]
    /\ UNCHANGED <<stored, view>>

\* The newest PageLimit records of a stream.
Page(s) ==
    {s} \X {i \in 1 .. Len(stored[s]) : i > Len(stored[s]) - PageLimit}

\* What a stream answers to a request: its newest records in the window.
Answered(s, counted) ==
    [ok      |-> TRUE,
     entries |-> {e \in Page(s) : isWithinWindow(TimeOf(e), load.since, load.until)},
     total   |-> IF counted THEN Len(stored[s]) ELSE 0,
     more    |-> Len(stored[s]) > PageLimit]

\* The read of s is settled; the others go on.
Settle(s, answer) ==
    /\ load.at = "fetching"
    /\ s \in load.targets \ DOMAIN load.answers
    /\ load' = [load EXCEPT !.answers =
                  [r \in DOMAIN load.answers \cup {s} |->
                     IF r = s THEN answer ELSE load.answers[r]]]
    /\ UNCHANGED <<stored, view>>

\* One read is answered.  The count of the whole stream comes with it, unless
\* the server leaves it out.
Answer(s) == \E counted \in BOOLEAN : Settle(s, Answered(s, counted))

\* One read fails.
Fail(s) == Settle(s, [ok |-> FALSE, entries |-> {}, total |-> 0, more |-> FALSE])

Ok(answers) == {s \in DOMAIN answers : answers[s].ok}

\* The latest TotalCap entries; which of several at one time is left open.
Slices(entries) ==
    IF Cardinality(entries) > TotalCap
      THEN {kept \in kSubset(TotalCap, entries) :
              \A e \in kept, f \in entries \ kept : TimeOf(e) >= TimeOf(f)}
      ELSE {entries}

\* Mutant: a stream that was read to its end gets no link.
SeeAll_moreOnly(answers, truncated) == {s \in Ok(answers) : answers[s].more}

\* The streams that get a "See all" link.
SeeAll(answers, truncated) == {s \in Ok(answers) : answers[s].more \/ truncated}

\* The streams the partial-view warnings are about.
Failed(answers) == DOMAIN answers \ Ok(answers)

\* All reads are settled: collect, warn, sort, cut, describe.
Collect ==
    LET answers   == load.answers
        entries   == UNION {answers[s].entries : s \in Ok(answers)}
        truncated == Cardinality(entries) > TotalCap
        bounded   == truncated \/ \E s \in Ok(answers) : answers[s].more
    IN  /\ load.at = "fetching"
        /\ DOMAIN answers = load.targets
        /\ \E kept \in Slices(entries) :
             view' = [shown   |-> TRUE,
                      entries |-> kept,
                      kind    |-> IF bounded THEN "relevance_bounded" ELSE "filtered_exact",
                      total   |-> SumFunctionOnSet([s \in Ok(answers) |-> answers[s].total],
                                                   Ok(answers)),
                      seeAll  |-> SeeAll(answers, truncated),
                      failed  |-> Failed(answers),
                      had     |-> load.had]
        /\ load' = [Idle EXCEPT !.at = "done"]
        /\ UNCHANGED stored

Next ==
    \/ \E s \in Streams, t \in Stamp : Ingest(s, t)
    \/ \E targets \in SUBSET Streams, since, until \in Stamp : Request(targets, since, until)
    \/ \E s \in Streams : Answer(s) \/ Fail(s)
    \/ Collect

Spec == Init /\ [][Next]_vars

(***************************************************************************)
(* Properties.  load.had and view.had are history: the records that were   *)
(* in the window when the request was made.                                *)
(***************************************************************************)

\* Types: entries are records, links and warnings name streams.
TypeOK ==
    /\ \A s \in Streams : Len(stored[s]) <= MaxStored /\ Range(stored[s]) \subseteq Stamp
    /\ load.at \in {"idle", "fetching", "done"}
    /\ DOMAIN load.answers \subseteq load.targets /\ load.targets \subseteq Streams
    /\ view.entries \subseteq Entry
    /\ view.kind \in {"none", "relevance_bounded", "filtered_exact"}
    /\ view.seeAll \cup view.failed \subseteq Streams

\* loadTimeRangeFeed leaves nothing out in silence: a record that was in the
\* window when the page was asked for is shown, or its stream has a "See all"
\* link, or the partial-view warning is about its stream; whatever arrives,
\* fails or is cut while the streams are read.
MissingIsDisclosed ==
    view.shown =>
        \A e \in view.had :
            e \in view.entries \/ e[1] \in view.seeAll \/ e[1] \in view.failed

\* The documented meaning of filtered_exact: complete for the active filter,
\* with a true total.  False: the total counts whole streams, and a stream that
\* did not answer does not make the set a partial one.
ExactMeansExact ==
    view.kind = "filtered_exact" =>
        /\ view.total = Cardinality(view.entries)
        /\ view.had \subseteq view.entries
=============================================================================
