-------------------------------- MODULE Explore --------------------------------
(***************************************************************************)
(* The Explore page as dispatchFeed puts it together: a URL with a window  *)
(* of time is answered by the time-range lens (ExploreFanIn), one without  *)
(* by the recent lens (ExploreTimeline).  Every render starts from its URL *)
(* and keeps nothing from the render before, so no step of one lens        *)
(* depends on the other, and a behaviour here stays in the lens it starts  *)
(* in.  The search lens, which takes precedence over both, is left out.    *)
(***************************************************************************)
EXTENDS ExploreFanIn, ExploreTimeline

VARIABLE lens  \* which lens the reader's URLs lead to

dispatchVars == <<vars, lens, timelineVars>>

\* The clock matters to the recent lens only.
DispatchInit ==
    /\ Init
    /\ TimelineInit
    /\ lens \in {"recent", "time_range"}
    /\ lens = "time_range" => now = 1

Recent ==
    /\ lens = "recent"
    /\ TimelineNext
    /\ UNCHANGED <<lens, vars>>

TimeRange ==
    /\ lens = "time_range"
    /\ Next
    /\ UNCHANGED <<lens, timelineVars>>

dispatchFeed == Recent \/ TimeRange

DispatchSpec == DispatchInit /\ [][dispatchFeed]_dispatchVars

=============================================================================
