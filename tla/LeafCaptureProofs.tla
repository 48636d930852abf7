------------------------- MODULE LeafCaptureProofs -------------------------
(***************************************************************************)
(* LeafCapture for any captures, any group ids and any amount of output:   *)
(* whom the authority signals, what it leaves alive and what it calls a    *)
(* complete transcript.                                                    *)
(*                                                                         *)
(* The argument has two halves.  GroupInv is about process groups: the     *)
(* registry names, for every number, the only capture whose group may live *)
(* under it, and a tracker lets go of a group that is dead or that the     *)
(* system would not kill.  CaptureInv is about one capture: a pipe that is *)
(* destroyed or closed holds nothing, and whatever is lost is recorded as  *)
(* a failure before the capture settles.                                   *)
(***************************************************************************)
EXTENDS LeafCapture, TLAPS

(* A leaf has a number from its start on, and nobody lets go of a leaf that *)
(* was not started.                                                        *)
Grouped ==
  \A c \in Captures :
    /\ proc[c].leader \in {"unborn", "failed"} <=> proc[c].pid = None
    /\ proc[c].pid = None => ~proc[c].kin
    /\ proc[c].leader = "unborn" => c \notin unregistered

(* Whoever is registered under a number has it, and nobody else lives      *)
(* under it.                                                               *)
Registered ==
  \A p \in Pids : registry[p] # None =>
    /\ proc[registry[p]].pid = p
    /\ registry[p] \notin unregistered
    /\ \A d \in Captures : proc[d].pid = p /\ Lives(d) => d = registry[p]

(* A group that lives is registered, or its kill was refused.              *)
Tracked ==
  \A c \in Captures :
    /\ Lives(c) => IF c \in unregistered THEN c \in denied
                                         ELSE registry[proc[c].pid] = c
    /\ Lives(c) /\ ~up => c \in denied
    /\ c \in landed /\ up => c \in unregistered

GroupInv == Grouped /\ Registered /\ Tracked

(* The chunks of a pipe are where they were written, and a pipe that is    *)
(* not open holds none.                                                    *)
PipeFits(d) ==
  /\ d.output + d.kernel + d.buffered + d.pending <= MaxChunks
  /\ ~d.open => d.kernel = 0 /\ d.buffered = 0

(* What the variables of a capture say of its pipe.                        *)
CaptureFits(d, j) ==
  /\ d.lost \/ j.killSettle = "armed" => j.failure # {}
  /\ j.settling \/ j.settled # "no" => ~d.open
  /\ j.settled # "no" => ~j.ticker /\ ~j.deadline
  /\ j.settled = "resolved" => d.pending = 0 /\ j.failure = {}

(* A capture that has not spawned its leaf has nothing to react to.        *)
Untouched(d, j) ==
  /\ ~d.open /\ d.pending = 0
  /\ ~j.ticker /\ ~j.deadline /\ j.killSettle = "unset" /\ j.exitSettle = "none"
  /\ ~j.settling /\ j.settled = "no" /\ j.failure = {}

CaptureInv ==
  \A c \in Captures :
    /\ PipeFits(pipe[c]) /\ CaptureFits(pipe[c], cap[c])
    /\ proc[c].leader = "unborn" => Untouched(pipe[c], cap[c])
    /\ cap[c].settled # "no" => c \in unregistered

(* The inductive invariant.  The halves share one fact only: a capture that *)
(* settled has let go of its group.                                        *)
IInv == TypeOK /\ GroupInv /\ CaptureInv

-----------------------------------------------------------------------------
(* What the operators of LeafCapture make of a record. *)

LEMMA KilledFields ==
  ASSUME NEW q \in Procs
  PROVE  /\ Killed(q) \in Procs
         /\ Killed(q).pid = q.pid /\ ~Killed(q).kin
         /\ Killed(q).leader = IF q.leader = "alive" THEN "dead" ELSE q.leader
  BY DEF Killed, Procs

LEMMA DestroyedFields ==
  ASSUME NEW d \in Pipes
  PROVE  /\ Destroyed(d) \in Pipes
         /\ Destroyed(d).output = d.output /\ Destroyed(d).pending = d.pending
         /\ Destroyed(d).kernel = 0 /\ Destroyed(d).buffered = 0
         /\ ~Destroyed(d).open
         /\ Destroyed(d).lost => d.lost \/ d.kernel + d.buffered > 0
<1> DEFINE gone == d.lost \/ d.kernel + d.buffered > 0
           D(b) == [d EXCEPT !.open = FALSE, !.lost = b, !.kernel = 0, !.buffered = 0]
<1>1. Destroyed(d) = D(gone)
  BY DEF Destroyed, Pipes
<1>2. gone \in BOOLEAN
  OBVIOUS
<1>3. ASSUME NEW b \in BOOLEAN PROVE D(b) \in Pipes
  <2> DEFINE e == [d EXCEPT !.open = FALSE, !.lost = b]
             f == [e EXCEPT !.kernel = 0]
             g == [f EXCEPT !.buffered = 0]
  <2>1. e \in Pipes
    BY DEF Pipes
  <2>2. D(b) = g
    OBVIOUS
  <2> HIDE DEF e, D
  <2>3. f \in Pipes
    BY <2>1 DEF Pipes
  <2> HIDE DEF f
  <2> QED BY <2>2, <2>3 DEF Pipes
<1> HIDE DEF gone
<1>4. /\ D(gone).output = d.output /\ D(gone).pending = d.pending
      /\ D(gone).kernel = 0 /\ D(gone).buffered = 0
      /\ D(gone).open = FALSE /\ D(gone).lost = gone
  BY DEF Pipes
<1> HIDE DEF D
<1>5. D(gone) \in Pipes
  BY <1>2, <1>3
<1> QED BY <1>1, <1>4, <1>5 DEF gone

LEMMA AppendedFields ==
  ASSUME NEW d \in Pipes, d.pending < MaxChunks
  PROVE  /\ Appended(d) \in Pipes
         /\ Appended(d).output = d.output /\ Appended(d).pending = d.pending + 1
         /\ Appended(d).kernel = d.kernel /\ Appended(d).buffered = d.buffered
         /\ Appended(d).open = d.open /\ Appended(d).lost = d.lost
<1> DEFINE A(n) == [d EXCEPT !.pending = n, !.paused = TRUE]
<1>1. Appended(d) = A(d.pending + 1)
  BY DEF Appended
<1>2. PICK n \in 0..MaxChunks : n = d.pending + 1
  BY CaptureAssumption DEF Pipes
<1>3. A(n) \in Pipes
  BY DEF Pipes
<1>4. /\ A(n).output = d.output /\ A(n).pending = n
      /\ A(n).kernel = d.kernel /\ A(n).buffered = d.buffered
      /\ A(n).open = d.open /\ A(n).lost = d.lost
  BY DEF Pipes
<1> QED BY <1>1, <1>2, <1>3, <1>4

LEMMA FinishFields ==
  ASSUME NEW j \in Caps, NEW outcome \in {"resolved", "rejected"}
  PROVE  /\ Finish(j, outcome) \in Caps
         /\ Finish(j, outcome).settled = outcome
         /\ ~Finish(j, outcome).ticker /\ ~Finish(j, outcome).deadline
         /\ Finish(j, outcome).killSettle # "armed"
         /\ Finish(j, outcome).failure = j.failure
  BY DEF Finish, Caps

LEMMA FailingFields ==
  ASSUME NEW j \in Caps, NEW why \in {"stall", "deadline", "write", "spawn"}
  PROVE  /\ Failing(j, why) \in Caps
         /\ Failing(j, why).failure # {}
         /\ Failing(j, why).ticker = j.ticker /\ Failing(j, why).deadline = j.deadline
         /\ Failing(j, why).settled = j.settled /\ Failing(j, why).settling = j.settling
  BY DEF Failing, Caps

LEMMA SettlingFields ==
  ASSUME NEW j \in Caps
  PROVE  /\ Settling(j) \in Caps
         /\ Settling(j).settling /\ ~Settling(j).ticker
         /\ Settling(j).deadline = j.deadline /\ Settling(j).settled = j.settled
         /\ Settling(j).killSettle = j.killSettle /\ Settling(j).failure = j.failure
  BY DEF Settling, Caps

-----------------------------------------------------------------------------
(* What they make of a pipe and of a capture that fit. *)

LEMMA PendingBound ==
  ASSUME NEW d \in Pipes, PipeFits(d)
  PROVE  d.kernel + d.buffered + d.pending <= MaxChunks /\ d.output + d.pending <= MaxChunks
  BY CaptureAssumption DEF Pipes, PipeFits

LEMMA DestroyedFits ==
  ASSUME NEW d \in Pipes, PipeFits(d)
  PROVE  PipeFits(Destroyed(d))
<1>1. d.output + d.pending <= MaxChunks /\ d.output \in Nat /\ d.pending \in Nat
  BY PendingBound, CaptureAssumption DEF Pipes
<1> QED BY <1>1, DestroyedFields, CaptureAssumption DEF PipeFits

(* The leaf writes a chunk. *)
LEMMA OutputFields ==
  ASSUME NEW d \in Pipes, d.output > 0, d.kernel = 0
  PROVE  /\ [d EXCEPT !.output = @ - 1, !.kernel = 1] \in Pipes
         /\ [d EXCEPT !.output = @ - 1, !.kernel = 1].output = d.output - 1
         /\ [d EXCEPT !.output = @ - 1, !.kernel = 1].kernel = 1
         /\ [d EXCEPT !.output = @ - 1, !.kernel = 1].buffered = d.buffered
         /\ [d EXCEPT !.output = @ - 1, !.kernel = 1].pending = d.pending
         /\ [d EXCEPT !.output = @ - 1, !.kernel = 1].open = d.open
         /\ [d EXCEPT !.output = @ - 1, !.kernel = 1].lost = d.lost
<1>1. PICK n \in 0..MaxChunks : n = d.output - 1
  BY CaptureAssumption DEF Pipes
<1> DEFINE e == [d EXCEPT !.output = n]
<1>2. [d EXCEPT !.output = @ - 1, !.kernel = 1] = [e EXCEPT !.kernel = 1]
  BY <1>1
<1>3. e \in Pipes
  BY DEF Pipes
<1>4. /\ e.output = n /\ e.buffered = d.buffered /\ e.pending = d.pending
      /\ e.open = d.open /\ e.lost = d.lost
  BY DEF Pipes
<1> HIDE DEF e
<1>5. [e EXCEPT !.kernel = 1] \in Pipes
  BY <1>3 DEF Pipes
<1>6. /\ [e EXCEPT !.kernel = 1].output = e.output /\ [e EXCEPT !.kernel = 1].kernel = 1
      /\ [e EXCEPT !.kernel = 1].buffered = e.buffered
      /\ [e EXCEPT !.kernel = 1].pending = e.pending
      /\ [e EXCEPT !.kernel = 1].open = e.open /\ [e EXCEPT !.kernel = 1].lost = e.lost
  BY <1>3 DEF Pipes
<1> QED BY <1>1, <1>2, <1>4, <1>5, <1>6

(* A paused stream keeps a chunk. *)
LEMMA BufferedFields ==
  ASSUME NEW d \in Pipes
  PROVE  /\ [d EXCEPT !.kernel = 0, !.buffered = 1] \in Pipes
         /\ [d EXCEPT !.kernel = 0, !.buffered = 1].output = d.output
         /\ [d EXCEPT !.kernel = 0, !.buffered = 1].kernel = 0
         /\ [d EXCEPT !.kernel = 0, !.buffered = 1].buffered = 1
         /\ [d EXCEPT !.kernel = 0, !.buffered = 1].pending = d.pending
         /\ [d EXCEPT !.kernel = 0, !.buffered = 1].open = d.open
         /\ [d EXCEPT !.kernel = 0, !.buffered = 1].lost = d.lost
<1> DEFINE e == [d EXCEPT !.kernel = 0]
<1>1. e \in Pipes
  BY DEF Pipes
<1>2. /\ e.output = d.output /\ e.kernel = 0 /\ e.pending = d.pending
      /\ e.open = d.open /\ e.lost = d.lost
  BY DEF Pipes
<1>3. [d EXCEPT !.kernel = 0, !.buffered = 1] = [e EXCEPT !.buffered = 1]
  OBVIOUS
<1> HIDE DEF e
<1>4. [e EXCEPT !.buffered = 1] \in Pipes
  BY <1>1 DEF Pipes
<1>5. /\ [e EXCEPT !.buffered = 1].output = e.output /\ [e EXCEPT !.buffered = 1].kernel = e.kernel
      /\ [e EXCEPT !.buffered = 1].buffered = 1 /\ [e EXCEPT !.buffered = 1].pending = e.pending
      /\ [e EXCEPT !.buffered = 1].open = e.open /\ [e EXCEPT !.buffered = 1].lost = e.lost
  BY <1>1 DEF Pipes
<1> QED BY <1>2, <1>3, <1>4, <1>5

LEMMA WrittenFields ==
  ASSUME NEW d \in Pipes, PipeFits(d), d.pending > 0
  PROVE  /\ Written(d) \in Pipes
         /\ PipeFits(Written(d))
         /\ Written(d).pending = d.pending - 1
         /\ Written(d).pending < MaxChunks
         /\ Written(d).kernel = d.kernel
         /\ Written(d).buffered = d.buffered
         /\ Written(d).open = d.open
         /\ Written(d).lost = d.lost
<1> DEFINE e == [d EXCEPT !.pending = @ - 1]
<1>1. e \in Pipes
  BY CaptureAssumption DEF Pipes
<1>2. /\ e.pending = d.pending - 1 /\ e.kernel = d.kernel /\ e.buffered = d.buffered
      /\ e.open = d.open /\ e.lost = d.lost /\ e.output = d.output
  BY DEF Pipes
<1> HIDE DEF e
<1>3. d.pending \in 0..MaxChunks
  BY DEF Pipes
<1>4. e.pending < MaxChunks
  BY <1>2, <1>3, CaptureAssumption
<1>5. PipeFits(e)
  BY <1>1, <1>2, <1>3, CaptureAssumption DEF PipeFits, Pipes
<1> QED BY <1>1, <1>2, <1>4, <1>5 DEF e, Written

(* The stream takes what the system holds: append gets it, or it waits. *)
LEMMA TakenFields ==
  ASSUME NEW d \in Pipes, PipeFits(d), d.kernel = 1, d.open
  PROVE  /\ Appended([d EXCEPT !.kernel = 0]) \in Pipes
         /\ PipeFits(Appended([d EXCEPT !.kernel = 0]))
         /\ Appended([d EXCEPT !.kernel = 0]).open
         /\ Appended([d EXCEPT !.kernel = 0]).lost = d.lost
<1> DEFINE e == [d EXCEPT !.kernel = 0]
<1>1. e \in Pipes
  BY DEF Pipes
<1>2. /\ e.pending = d.pending /\ e.kernel = 0 /\ e.buffered = d.buffered
      /\ e.open = d.open /\ e.lost = d.lost /\ e.output = d.output
  BY DEF Pipes
<1> HIDE DEF e
<1>3. /\ d.output \in Nat /\ d.buffered \in Nat /\ d.pending \in Nat
      /\ d.output + 1 + d.buffered + d.pending <= MaxChunks
  BY CaptureAssumption DEF Pipes, PipeFits
<1>4. e.pending < MaxChunks
  BY <1>2, <1>3, CaptureAssumption
<1>5. /\ Appended(e) \in Pipes
      /\ Appended(e).output = d.output /\ Appended(e).pending = d.pending + 1
      /\ Appended(e).kernel = 0 /\ Appended(e).buffered = d.buffered
      /\ Appended(e).open /\ Appended(e).lost = d.lost
  BY <1>1, <1>2, <1>4, AppendedFields
<1>6. PipeFits(Appended(e))
  BY <1>3, <1>5, CaptureAssumption DEF PipeFits
<1> QED BY <1>5, <1>6 DEF e

LEMMA ResumedFields ==
  ASSUME NEW d \in Pipes, PipeFits(d)
  PROVE  /\ Resumed(d) \in Pipes /\ PipeFits(Resumed(d))
         /\ Resumed(d).open = d.open /\ Resumed(d).lost = d.lost
         /\ ~d.open => Resumed(d).pending = d.pending
<1>1. CASE d.buffered > 0
  <2> DEFINE e == [d EXCEPT !.buffered = 0]
  <2>0. d.buffered = 1 /\ d.open
    BY <1>1 DEF Pipes, PipeFits
  <2>1. e \in Pipes
    BY DEF Pipes
  <2>2. /\ e.pending = d.pending /\ e.kernel = d.kernel /\ e.buffered = 0
        /\ e.open = d.open /\ e.lost = d.lost /\ e.output = d.output
    BY DEF Pipes
  <2>3. Resumed(d) = Appended(e)
    BY <1>1 DEF Resumed
  <2> HIDE DEF e
  <2>4. /\ d.output \in Nat /\ d.kernel \in Nat /\ d.pending \in Nat
        /\ d.output + d.kernel + 1 + d.pending <= MaxChunks
    BY <2>0, CaptureAssumption DEF Pipes, PipeFits
  <2>5. e.pending < MaxChunks
    BY <2>2, <2>4, CaptureAssumption
  <2>6. /\ Appended(e) \in Pipes
        /\ Appended(e).output = d.output /\ Appended(e).pending = d.pending + 1
        /\ Appended(e).kernel = d.kernel /\ Appended(e).buffered = 0
        /\ Appended(e).open = d.open /\ Appended(e).lost = d.lost
    BY <2>1, <2>2, <2>5, AppendedFields
  <2>7. PipeFits(Appended(e))
    BY <2>0, <2>4, <2>6, CaptureAssumption DEF PipeFits
  <2> QED BY <2>0, <2>3, <2>6, <2>7
<1>2. CASE ~(d.buffered > 0)
  <2> DEFINE e == [d EXCEPT !.paused = FALSE]
  <2>1. e \in Pipes
    BY DEF Pipes
  <2>2. /\ e.pending = d.pending /\ e.kernel = d.kernel /\ e.buffered = d.buffered
        /\ e.open = d.open /\ e.lost = d.lost /\ e.output = d.output
    BY DEF Pipes
  <2>3. Resumed(d) = e
    BY <1>2 DEF Resumed
  <2> HIDE DEF e
  <2> QED BY <2>1, <2>2, <2>3 DEF PipeFits
<1> QED BY <1>1, <1>2

(* settleFromExit, of pipes that are at their end or destroyed. *)
LEMMA SettlingFits ==
  ASSUME NEW d \in Pipes, NEW j \in Caps, ~d.open, CaptureFits(d, j), j.settled = "no"
  PROVE  CaptureFits(d, Settling(j))
  BY SettlingFields DEF CaptureFits

LEMMA SettledFits ==
  ASSUME NEW d \in Pipes, NEW j \in Caps, ~d.open, CaptureFits(d, j), d.pending = 0
  PROVE  CaptureFits(d, Finish(j, Outcome(j))) /\ Finish(j, Outcome(j)) \in Caps
<1>1. Outcome(j) \in {"resolved", "rejected"} /\ (Outcome(j) = "resolved" => j.failure = {})
  BY DEF Outcome
<1> QED BY <1>1, FinishFields DEF CaptureFits

LEMMA RejectedFits ==
  ASSUME NEW d \in Pipes, NEW j \in Caps, ~d.open, d.lost => j.failure # {}
  PROVE  CaptureFits(d, Finish(j, "rejected")) /\ Finish(j, "rejected") \in Caps
  BY FinishFields DEF CaptureFits

-----------------------------------------------------------------------------
(* Process groups. *)

(* No leaf is started or given a number, no process appears. *)
Faded ==
  \A d \in Captures :
    /\ proc'[d].pid = proc[d].pid
    /\ proc'[d].leader \in {"unborn", "failed"} <=> proc[d].leader \in {"unborn", "failed"}
    /\ proc'[d].leader = "unborn" <=> proc[d].leader = "unborn"
    /\ Lives(d)' => Lives(d)
    /\ proc'[d].kin => proc[d].kin

LEMMA SameFaded == UNCHANGED proc => Faded
  BY DEF Faded, Lives

LEMMA KillsFaded ==
  ASSUME TypeOK, NEW hit \in SUBSET Captures,
         proc' = [d \in Captures |-> IF d \in hit THEN Killed(proc[d]) ELSE proc[d]]
  PROVE  /\ proc' \in [Captures -> Procs] /\ Faded
         /\ \A d \in hit : ~Lives(d)'
<1>1. \A d \in Captures : proc[d] \in Procs
  BY DEF TypeOK
<1>2. \A d \in Captures : /\ Killed(proc[d]) \in Procs
                          /\ Killed(proc[d]).pid = proc[d].pid /\ ~Killed(proc[d]).kin
                          /\ Killed(proc[d]).leader =
                               IF proc[d].leader = "alive" THEN "dead" ELSE proc[d].leader
  BY <1>1, KilledFields
<1>3. proc' \in [Captures -> Procs]
  BY <1>1, <1>2
<1>4. \A d \in Captures : proc'[d] = IF d \in hit THEN Killed(proc[d]) ELSE proc[d]
  OBVIOUS
<1>5. Faded
  BY <1>2, <1>4 DEF Faded, Lives
<1>6. \A d \in hit : ~Lives(d)'
  BY <1>2, <1>4 DEF Lives
<1> QED BY <1>3, <1>5, <1>6

(* One process of one leaf ends, or its leader is reaped. *)
LEMMA EndsFaded ==
  ASSUME TypeOK, NEW c \in Captures, NEW q \in Procs,
         proc' = [proc EXCEPT ![c] = q],
         q.pid = proc[c].pid,
         q.leader = proc[c].leader \/ (/\ proc[c].leader \in {"alive", "dead"}
                                       /\ q.leader \in {"dead", "reaped"}),
         q.kin => proc[c].kin
  PROVE  proc' \in [Captures -> Procs] /\ Faded
<1>1. proc' \in [Captures -> Procs]
  BY DEF TypeOK
<1>2. proc'[c] = q /\ \A d \in Captures \ {c} : proc'[d] = proc[d]
  BY DEF TypeOK
<1>3. Faded
  BY <1>2 DEF Faded, Lives
<1> QED BY <1>1, <1>3

LEMMA LandsEffect ==
  ASSUME TypeOK, NEW c \in Captures, SignalLands(c)
  PROVE  /\ proc' \in [Captures -> Procs] /\ Faded /\ ~Lives(c)'
         /\ signalled' = {c} /\ landed' = landed \cup {c} /\ denied' = denied
<1> DEFINE hit == {d \in Captures : proc[d].pid = proc[c].pid}
<1>1. proc' = [d \in Captures |-> IF d \in hit THEN Killed(proc[d]) ELSE proc[d]]
  BY DEF SignalLands
<1>2. hit \in SUBSET Captures /\ c \in hit
  OBVIOUS
<1>3. signalled' = {c} /\ landed' = landed \cup {c} /\ denied' = denied
  BY DEF SignalLands
<1> HIDE DEF hit
<1> QED BY <1>1, <1>2, <1>3, KillsFaded

LEMMA DeniedEffect ==
  ASSUME TypeOK, NEW c \in Captures, SignalDenied(c)
  PROVE  /\ proc' \in [Captures -> Procs] /\ Faded
         /\ signalled' = {c} /\ landed' = landed /\ denied' = denied \cup {c}
<1> DEFINE q == [proc[c] EXCEPT !.leader = IF @ = "alive" THEN "dead" ELSE @]
<1>1. proc[c] \in Procs
  BY DEF TypeOK
<1>2. /\ q \in Procs /\ q.pid = proc[c].pid /\ q.kin = proc[c].kin
      /\ q.leader = IF proc[c].leader = "alive" THEN "dead" ELSE proc[c].leader
  BY <1>1 DEF Procs
<1>3. proc' = [proc EXCEPT ![c] = q]
  BY DEF SignalDenied
<1>4. signalled' = {c} /\ landed' = landed /\ denied' = denied \cup {c}
  BY DEF SignalDenied
<1> HIDE DEF q
<1> QED BY <1>2, <1>3, <1>4, EndsFaded

LEMMA UnregisterType ==
  ASSUME TypeOK, NEW c \in Captures, Unregister(c)
  PROVE  /\ registry' \in [Pids -> Captures \cup {None}]
         /\ unregistered' = unregistered \cup {c}
         /\ \A p \in Pids : IF p = proc[c].pid /\ registry[p] = c THEN registry'[p] = None
                                                                   ELSE registry'[p] = registry[p]
  BY DEF TypeOK, Unregister

(* What a tracker does when it is asked to kill or to release: a signal    *)
(* goes to a group it still owns, and it only lets go of a group that is   *)
(* dead or that the system would not kill.                                 *)
Handled(c) ==
  /\ proc' \in [Captures -> Procs] /\ Faded
  /\ \/ registry' = registry /\ unregistered' = unregistered
     \/ Unregister(c)
  /\ denied \subseteq denied' /\ denied' \subseteq denied \cup {c}
  /\ landed' \subseteq landed \cup {c}
  /\ c \in landed' => c \in landed \cup unregistered'
  /\ Lives(c)' /\ c \in unregistered' => c \in denied' \/ c \in unregistered
  /\ signalled' \subseteq {c}
  /\ signalled' # {} => Owns(c) /\ c \notin unregistered

LEMMA KillHandled ==
  ASSUME TypeOK, Grouped, Tracked, NEW c \in Captures, Kill(c) \/ Release(c)
  PROVE  Handled(c)
<1>0. Lives(c) /\ c \notin unregistered => Owns(c)
  <2>1. Lives(c) => proc[c].pid # None
    BY DEF Lives, Grouped
  <2> QED BY <2>1 DEF Tracked, Owns
<1>1. CASE c \notin unregistered /\ Owns(c) /\ SignalLands(c) /\ Unregister(c)
  BY <1>1, LandsEffect, UnregisterType DEF Handled
<1>2. CASE c \notin unregistered /\ Owns(c) /\ SignalDenied(c) /\ UNCHANGED tracker
  BY <1>2, DeniedEffect DEF Handled, tracker
<1>3. CASE c \notin unregistered /\ Owns(c) /\ SignalDenied(c) /\ Unregister(c)
  BY <1>3, DeniedEffect, UnregisterType DEF Handled
<1>4. CASE c \notin unregistered /\ ~Owns(c) /\ NoSignal /\ Unregister(c)
  <2>1. proc' \in [Captures -> Procs] /\ Faded
    BY <1>4, SameFaded DEF TypeOK, NoSignal
  <2>2. ~Lives(c)'
    BY <2>1, <1>0, <1>4 DEF Faded
  <2> QED BY <1>4, <2>1, <2>2, UnregisterType DEF Handled, NoSignal
<1>5. CASE NoSignal /\ UNCHANGED tracker
  <2>1. proc' \in [Captures -> Procs] /\ Faded
    BY <1>5, SameFaded DEF TypeOK, NoSignal
  <2> QED BY <1>5, <2>1 DEF Handled, NoSignal, tracker
<1> QED BY <1>1, <1>2, <1>3, <1>4, <1>5 DEF Kill, Release

LEMMA ReleaseLetsGo ==
  ASSUME NEW c, Release(c)
  PROVE  c \in unregistered'
  BY DEF Release, Unregister, tracker

LEMMA HandledType ==
  ASSUME TypeOK, NEW c \in Captures, Handled(c)
  PROVE  /\ proc' \in [Captures -> Procs]
         /\ registry' \in [Pids -> Captures \cup {None}]
         /\ unregistered' \subseteq Captures
         /\ signalled' \subseteq Captures /\ landed' \subseteq Captures /\ denied' \subseteq Captures
         /\ unregistered \subseteq unregistered'
  BY UnregisterType DEF TypeOK, Handled

LEMMA HandledGroup ==
  ASSUME TypeOK, GroupInv, NEW c \in Captures, Handled(c), UNCHANGED up,
         proc[c].leader # "unborn" \/ unregistered' = unregistered
  PROVE  GroupInv'
<1>0. /\ registry' = registry /\ unregistered' = unregistered
      \/ /\ unregistered' = unregistered \cup {c}
         /\ \A p \in Pids : IF p = proc[c].pid /\ registry[p] = c THEN registry'[p] = None
                                                                   ELSE registry'[p] = registry[p]
  BY UnregisterType DEF Handled
<1>1. Grouped'
  BY <1>0 DEF GroupInv, Grouped, Handled, Faded
<1>2. Registered'
  <2> SUFFICES ASSUME NEW p \in Pids, registry'[p] # None
               PROVE  /\ proc'[registry'[p]].pid = p
                      /\ registry'[p] \notin unregistered'
                      /\ \A d \in Captures : proc'[d].pid = p /\ Lives(d)' => d = registry'[p]
    BY DEF Registered
  <2>1. registry'[p] = registry[p] /\ registry[p] \in Captures
    BY <1>0 DEF TypeOK
  <2>2. /\ proc[registry[p]].pid = p /\ registry[p] \notin unregistered
        /\ \A d \in Captures : proc[d].pid = p /\ Lives(d) => d = registry[p]
    BY <2>1 DEF GroupInv, Registered
  <2>3. registry[p] \notin unregistered'
    BY <1>0, <2>1, <2>2
  <2> QED BY <2>1, <2>2, <2>3 DEF Handled, Faded
<1>3. Tracked'
  <2> SUFFICES ASSUME NEW d \in Captures
               PROVE  /\ Lives(d)' => IF d \in unregistered' THEN d \in denied'
                                                             ELSE registry'[proc'[d].pid] = d
                      /\ Lives(d)' /\ ~up' => d \in denied'
                      /\ d \in landed' /\ up' => d \in unregistered'
    BY DEF Tracked
  <2>1. /\ Lives(d) => IF d \in unregistered THEN d \in denied
                                             ELSE registry[proc[d].pid] = d
        /\ Lives(d) /\ ~up => d \in denied
        /\ d \in landed /\ up => d \in unregistered
    BY DEF GroupInv, Tracked
  <2>2. Lives(d)' => Lives(d) /\ proc[d].pid \in Pids /\ proc'[d].pid = proc[d].pid
    <3>1. Lives(d)' => Lives(d)
      BY DEF Handled, Faded
    <3>2. Lives(d) => proc[d].pid # None
      BY DEF Lives, GroupInv, Grouped
    <3>3. proc[d].pid \in Pids \cup {None}
      BY DEF TypeOK, Procs
    <3> QED BY <3>1, <3>2, <3>3 DEF Handled, Faded
  <2>3. ASSUME Lives(d)', d \in unregistered' PROVE d \in denied'
    BY <1>0, <2>1, <2>2, <2>3 DEF Handled
  <2>4. ASSUME Lives(d)', d \notin unregistered' PROVE registry'[proc'[d].pid] = d
    BY <1>0, <2>1, <2>2, <2>4
  <2>5. Lives(d)' /\ ~up' => d \in denied'
    BY <2>1, <2>2 DEF Handled
  <2>6. d \in landed' /\ up' => d \in unregistered'
    BY <1>0, <2>1 DEF Handled
  <2> QED BY <2>3, <2>4, <2>5, <2>6
<1> QED BY <1>1, <1>2, <1>3 DEF GroupInv

(* The four steps that do not leave the groups to one tracker. *)

LEMMA ForkGroup ==
  ASSUME TypeOK, GroupInv, NEW c \in Captures, Fork(c)
  PROVE  /\ proc' \in [Captures -> Procs] /\ GroupInv'
         /\ \A d \in Captures : proc'[d].leader = proc[d].leader
<1>1. PICK q \in {[proc[c] EXCEPT !.kin = TRUE], [proc[c] EXCEPT !.holder = TRUE]} :
        proc' = [proc EXCEPT ![c] = q]
  BY DEF Fork
<1>2. proc[c] \in Procs /\ proc[c].leader = "alive"
  BY DEF TypeOK, Fork
<1>3. q \in Procs /\ q.pid = proc[c].pid /\ q.leader = "alive"
  BY <1>2 DEF Procs
<1>4. proc' \in [Captures -> Procs]
  BY <1>1, <1>3 DEF TypeOK
<1>5. proc'[c] = q /\ \A d \in Captures \ {c} : proc'[d] = proc[d]
  BY <1>1 DEF TypeOK
<1>6. UNCHANGED <<registry, unregistered, landed, denied, up>>
  BY DEF Fork, tracker
<1>7. \A d \in Captures : proc'[d].pid = proc[d].pid /\ proc'[d].leader = proc[d].leader
                          /\ (Lives(d)' <=> Lives(d))
  BY <1>2, <1>3, <1>5 DEF Lives
<1>8. Grouped'
  <2>1. proc[c].pid # None
    BY <1>2 DEF GroupInv, Grouped
  <2> QED BY <1>3, <1>5, <1>6, <1>7, <2>1 DEF GroupInv, Grouped
<1>9. Registered'
  BY <1>6, <1>7 DEF TypeOK, GroupInv, Registered
<1>10. Tracked'
  BY <1>6, <1>7 DEF GroupInv, Tracked
<1> QED BY <1>4, <1>7, <1>8, <1>9, <1>10 DEF GroupInv

LEMMA StartGroup ==
  ASSUME TypeOK, GroupInv, NEW c \in Captures, NEW p \in Pids, Start(c, p)
  PROVE  /\ proc' \in [Captures -> Procs] /\ registry' \in [Pids -> Captures \cup {None}]
         /\ GroupInv' /\ proc'[c].leader = "alive"
         /\ \A d \in Captures \ {c} : proc'[d] = proc[d]
<1> DEFINE q == [proc[c] EXCEPT !.pid = p, !.leader = "alive"]
<1>1. proc[c] \in Procs /\ proc[c].leader = "unborn" /\ up
  BY DEF TypeOK, Start
<1>2. proc[c].pid = None /\ ~proc[c].kin /\ c \notin unregistered
  BY <1>1 DEF GroupInv, Grouped
<1>3. q \in Procs /\ q.pid = p /\ q.leader = "alive" /\ q.kin = proc[c].kin
  BY <1>1 DEF Procs
<1>4. proc' = [proc EXCEPT ![c] = q]
  BY DEF Start
<1> HIDE DEF q
<1>5. proc' \in [Captures -> Procs]
  BY <1>3, <1>4 DEF TypeOK
<1>6. proc'[c] = q /\ \A d \in Captures \ {c} : proc'[d] = proc[d]
  BY <1>4 DEF TypeOK
<1>7. /\ registry' \in [Pids -> Captures \cup {None}] /\ registry'[p] = c
      /\ \A r \in Pids \ {p} : registry'[r] = registry[r]
  BY DEF TypeOK, Start
<1>8. UNCHANGED <<unregistered, landed, denied, up>>
  BY DEF Start
<1>9. p # None /\ c # None
  BY CaptureAssumption
<1>10. \A d \in Captures \ {c} : Lives(d)' <=> Lives(d)
  BY <1>6 DEF Lives
<1>11. \A d \in Captures : Lives(d) => proc[d].pid # p
  BY DEF Start, Taken, Lives
<1>12. Grouped'
  BY <1>2, <1>3, <1>6, <1>8, <1>9 DEF GroupInv, Grouped
<1>13. Registered'
  <2> SUFFICES ASSUME NEW r \in Pids, registry'[r] # None
               PROVE  /\ proc'[registry'[r]].pid = r
                      /\ registry'[r] \notin unregistered'
                      /\ \A d \in Captures : proc'[d].pid = r /\ Lives(d)' => d = registry'[r]
    BY DEF Registered
  <2>1. CASE r = p
    BY <2>1, <1>2, <1>3, <1>6, <1>7, <1>8, <1>10, <1>11
  <2>2. CASE r # p
    <3>1. registry'[r] = registry[r] /\ registry[r] \in Captures
      BY <2>2, <1>7 DEF TypeOK
    <3>2. /\ proc[registry[r]].pid = r /\ registry[r] \notin unregistered
          /\ \A d \in Captures : proc[d].pid = r /\ Lives(d) => d = registry[r]
      BY <3>1 DEF GroupInv, Registered
    <3>3. registry[r] # c
      BY <3>2, <1>2, CaptureAssumption
    <3> QED BY <2>2, <3>1, <3>2, <3>3, <1>3, <1>6, <1>8, <1>10
  <2> QED BY <2>1, <2>2
<1>14. Tracked'
  <2> SUFFICES ASSUME NEW d \in Captures
               PROVE  /\ Lives(d)' => IF d \in unregistered' THEN d \in denied'
                                                             ELSE registry'[proc'[d].pid] = d
                      /\ Lives(d)' /\ ~up' => d \in denied'
                      /\ d \in landed' /\ up' => d \in unregistered'
    BY DEF Tracked
  <2>1. d \in landed' /\ up' => d \in unregistered'
    BY <1>8 DEF GroupInv, Tracked
  <2>2. CASE d = c
    BY <2>1, <2>2, <1>1, <1>2, <1>3, <1>6, <1>7, <1>8
  <2>3. CASE d # c
    <3>1. Lives(d) => proc[d].pid \in Pids \ {p}
      BY <1>11 DEF Lives, GroupInv, Grouped, TypeOK, Procs
    <3> QED BY <2>1, <2>3, <3>1, <1>1, <1>6, <1>7, <1>8, <1>10 DEF GroupInv, Tracked
  <2> QED BY <2>2, <2>3
<1> QED BY <1>3, <1>5, <1>6, <1>7, <1>12, <1>13, <1>14 DEF GroupInv

LEMMA StartFailsGroup ==
  ASSUME TypeOK, GroupInv, NEW c \in Captures, StartFails(c)
  PROVE  /\ proc' \in [Captures -> Procs] /\ GroupInv' /\ proc'[c].leader = "failed"
         /\ \A d \in Captures \ {c} : proc'[d] = proc[d]
<1> DEFINE q == [proc[c] EXCEPT !.leader = "failed"]
<1>1. proc[c] \in Procs /\ proc[c].leader = "unborn" /\ up
  BY DEF TypeOK, StartFails
<1>2. proc[c].pid = None /\ ~proc[c].kin
  BY <1>1 DEF GroupInv, Grouped
<1>3. q \in Procs /\ q.pid = proc[c].pid /\ q.leader = "failed" /\ q.kin = proc[c].kin
  BY <1>1 DEF Procs
<1>4. proc' = [proc EXCEPT ![c] = q]
  BY DEF StartFails
<1> HIDE DEF q
<1>5. proc' \in [Captures -> Procs]
  BY <1>3, <1>4 DEF TypeOK
<1>6. proc'[c] = q /\ \A d \in Captures \ {c} : proc'[d] = proc[d]
  BY <1>4 DEF TypeOK
<1>7. UNCHANGED <<registry, landed, denied, up>> /\ unregistered' = unregistered \cup {c}
  BY DEF StartFails
<1>8. ~Lives(c)' /\ \A d \in Captures \ {c} : Lives(d)' <=> Lives(d)
  BY <1>2, <1>3, <1>6 DEF Lives
<1>9. Grouped'
  BY <1>2, <1>3, <1>6, <1>7 DEF GroupInv, Grouped
<1>10. Registered'
  <2> SUFFICES ASSUME NEW r \in Pids, registry'[r] # None
               PROVE  /\ proc'[registry'[r]].pid = r
                      /\ registry'[r] \notin unregistered'
                      /\ \A d \in Captures : proc'[d].pid = r /\ Lives(d)' => d = registry'[r]
    BY DEF Registered
  <2>1. registry'[r] = registry[r] /\ registry[r] \in Captures
    BY <1>7 DEF TypeOK
  <2>2. /\ proc[registry[r]].pid = r /\ registry[r] \notin unregistered
        /\ \A d \in Captures : proc[d].pid = r /\ Lives(d) => d = registry[r]
    BY <2>1, <1>7 DEF GroupInv, Registered
  <2>3. registry[r] # c
    BY <2>2, <1>2, CaptureAssumption
  <2> QED BY <2>1, <2>2, <2>3, <1>6, <1>7, <1>8
<1>11. Tracked'
  BY <1>6, <1>7, <1>8 DEF GroupInv, Tracked
<1> QED BY <1>3, <1>5, <1>6, <1>9, <1>10, <1>11 DEF GroupInv

LEMMA ShutdownGroup ==
  ASSUME TypeOK, GroupInv, Shutdown
  PROVE  /\ proc' \in [Captures -> Procs] /\ Faded
         /\ signalled' = {registry[p] : p \in {r \in Pids : registry[r] # None}}
         /\ signalled' \subseteq Captures /\ landed' \subseteq Captures /\ denied' \subseteq Captures
         /\ GroupInv'
<1> DEFINE held == {p \in Pids : registry[p] # None}
<1>1. PICK hit \in SUBSET held :
        /\ proc' = [c \in Captures |-> IF proc[c].pid \in hit THEN Killed(proc[c]) ELSE proc[c]]
        /\ signalled' = {registry[p] : p \in held}
        /\ landed' = landed \cup {registry[p] : p \in hit}
        /\ denied' = denied \cup {registry[p] : p \in held \ hit}
  BY DEF Shutdown
<1>2. up' = FALSE /\ UNCHANGED <<registry, unregistered>>
  BY DEF Shutdown, tracker
<1>3. \A p \in held : registry[p] \in Captures
  BY DEF TypeOK
<1> DEFINE struck == {d \in Captures : proc[d].pid \in hit}
<1>4. proc' = [d \in Captures |-> IF d \in struck THEN Killed(proc[d]) ELSE proc[d]]
  BY <1>1
<1>5. struck \in SUBSET Captures /\ \A d \in Captures : d \in struck <=> proc[d].pid \in hit
  OBVIOUS
<1> HIDE DEF struck
<1>6. proc' \in [Captures -> Procs] /\ Faded /\ \A d \in struck : ~Lives(d)'
  BY <1>4, <1>5, KillsFaded
<1>7. signalled' \subseteq Captures /\ landed' \subseteq Captures /\ denied' \subseteq Captures
  BY <1>1, <1>3 DEF TypeOK
<1>8. Grouped'
  BY <1>2, <1>6 DEF GroupInv, Grouped, Faded
<1>9. Registered'
  BY <1>2, <1>6 DEF TypeOK, GroupInv, Registered, Faded
<1>10. Tracked'
  <2> SUFFICES ASSUME NEW d \in Captures, Lives(d)'
               PROVE  d \in denied' /\ (d \notin unregistered => registry[proc'[d].pid] = d)
    BY <1>2 DEF Tracked
  <2>1. Lives(d) /\ proc'[d].pid = proc[d].pid /\ proc[d].pid \notin hit
    BY <1>5, <1>6 DEF Faded
  <2>2. proc[d].pid \in Pids
    BY <2>1 DEF Lives, GroupInv, Grouped, TypeOK, Procs
  <2>3. d \in unregistered => d \in denied
    BY <2>1 DEF GroupInv, Tracked
  <2>4. d \notin unregistered => registry[proc[d].pid] = d
    BY <2>1 DEF GroupInv, Tracked
  <2>5. d \notin unregistered => proc[d].pid \in held \ hit
    BY <2>1, <2>2, <2>4, CaptureAssumption
  <2> QED BY <1>1, <2>1, <2>3, <2>4, <2>5
<1> QED BY <1>1, <1>6, <1>7, <1>8, <1>9, <1>10 DEF GroupInv

-----------------------------------------------------------------------------
(* One step of one capture. *)

LEMMA AtCapture ==
  ASSUME IInv, NEW c \in Captures
  PROVE  /\ TypeOK /\ GroupInv
         /\ pipe[c] \in Pipes /\ cap[c] \in Caps
         /\ PipeFits(pipe[c]) /\ CaptureFits(pipe[c], cap[c])
         /\ proc[c].leader = "unborn" => Untouched(pipe[c], cap[c])
         /\ cap[c].settled # "no" => c \in unregistered
         /\ pipe = [pipe EXCEPT ![c] = pipe[c]] /\ cap = [cap EXCEPT ![c] = cap[c]]
  BY DEF IInv, CaptureInv, TypeOK

(* The step of a capture c that leaves it the pipe d and the variables j.  *)
LEMMA CaptureStep ==
  ASSUME IInv, NEW c \in Captures, NEW d \in Pipes, NEW j \in Caps,
         pipe' = [pipe EXCEPT ![c] = d], cap' = [cap EXCEPT ![c] = j],
         proc[c].leader # "unborn", Handled(c), UNCHANGED up,
         PipeFits(d), CaptureFits(d, j), j.settled # "no" => c \in unregistered'
  PROVE  IInv'
<1>1. TypeOK /\ GroupInv
  BY DEF IInv
<1>2. pipe' \in [Captures -> Pipes] /\ pipe'[c] = d
      /\ \A e \in Captures \ {c} : pipe'[e] = pipe[e]
  BY <1>1 DEF TypeOK
<1>3. cap' \in [Captures -> Caps] /\ cap'[c] = j
      /\ \A e \in Captures \ {c} : cap'[e] = cap[e]
  BY <1>1 DEF TypeOK
<1>4. TypeOK'
  BY <1>1, <1>2, <1>3, HandledType DEF TypeOK
<1>5. GroupInv'
  BY <1>1, HandledGroup
<1>6. \A e \in Captures : proc'[e].leader = "unborn" <=> proc[e].leader = "unborn"
  BY DEF Handled, Faded
<1>7. unregistered \subseteq unregistered'
  BY <1>1, HandledType
<1>8. CaptureInv'
  <2> SUFFICES ASSUME NEW e \in Captures
               PROVE  /\ PipeFits(pipe'[e]) /\ CaptureFits(pipe'[e], cap'[e])
                      /\ proc'[e].leader = "unborn" => Untouched(pipe'[e], cap'[e])
                      /\ cap'[e].settled # "no" => e \in unregistered'
    BY DEF CaptureInv
  <2>1. CASE e = c
    BY <2>1, <1>2, <1>3, <1>6
  <2>2. CASE e # c
    BY <2>2, <1>2, <1>3, <1>6, <1>7, AtCapture
  <2> QED BY <2>1, <2>2
<1> QED BY <1>4, <1>5, <1>8 DEF IInv

(* A step that asks no tracker for anything. *)
LEMMA Unasked ==
  ASSUME TypeOK, NEW c \in Captures, proc' \in [Captures -> Procs], Faded,
         signalled' = {}, UNCHANGED <<tracker, landed, denied>>
  PROVE  Handled(c)
  BY DEF Handled, tracker

LEMMA UnaskedSame ==
  ASSUME TypeOK, NEW c \in Captures, NoSignal, UNCHANGED tracker
  PROVE  Handled(c)
  BY Unasked, SameFaded DEF TypeOK, NoSignal

LEMMA WriteOutputInv ==
  ASSUME IInv, NEW c \in Captures, WriteOutput(c)
  PROVE  IInv'
<1> DEFINE d == [pipe[c] EXCEPT !.output = @ - 1, !.kernel = 1]
<1>1. /\ TypeOK /\ pipe[c] \in Pipes /\ cap[c] \in Caps /\ PipeFits(pipe[c])
      /\ CaptureFits(pipe[c], cap[c]) /\ cap = [cap EXCEPT ![c] = cap[c]]
      /\ cap[c].settled # "no" => c \in unregistered
  BY AtCapture
<1>2. pipe[c].open /\ pipe[c].output > 0 /\ pipe[c].kernel = 0
  BY DEF WriteOutput
<1>3. d \in Pipes
  BY <1>1, <1>2, OutputFields, Zenon
<1>4. /\ d.output = pipe[c].output - 1 /\ d.kernel = 1 /\ d.buffered = pipe[c].buffered
      /\ d.pending = pipe[c].pending /\ d.open = pipe[c].open /\ d.lost = pipe[c].lost
  BY <1>1, <1>2, OutputFields, Zenon
<1>5. pipe' = [pipe EXCEPT ![c] = d] /\ UNCHANGED <<cap, up>>
  BY DEF WriteOutput
<1> HIDE DEF d
<1>6. PipeFits(d)
  BY <1>1, <1>2, <1>4, CaptureAssumption DEF PipeFits, Pipes
<1>7. CaptureFits(d, cap[c])
  BY <1>1, <1>4 DEF CaptureFits
<1>8. proc[c].leader # "unborn"
  BY <1>2, AtCapture DEF Untouched
<1>9. Handled(c) /\ UNCHANGED unregistered
  BY <1>1, UnaskedSame DEF WriteOutput, NoSignal, tracker
<1> QED BY <1>1, <1>3, <1>5, <1>6, <1>7, <1>8, <1>9, CaptureStep

LEMMA ReadChunkInv ==
  ASSUME IInv, NEW c \in Captures, ReadChunk(c)
  PROVE  IInv'
<1> DEFINE b == [pipe[c] EXCEPT !.kernel = 0, !.buffered = 1]
           a == Appended([pipe[c] EXCEPT !.kernel = 0])
<1>1. /\ TypeOK /\ pipe[c] \in Pipes /\ cap[c] \in Caps /\ PipeFits(pipe[c])
      /\ CaptureFits(pipe[c], cap[c]) /\ cap = [cap EXCEPT ![c] = cap[c]]
      /\ cap[c].settled # "no" => c \in unregistered
  BY AtCapture
<1>2. pipe[c].open /\ pipe[c].kernel = 1
  BY DEF ReadChunk
<1>3. \/ pipe' = [pipe EXCEPT ![c] = a]
      \/ pipe' = [pipe EXCEPT ![c] = b] /\ pipe[c].buffered = 0
  BY DEF ReadChunk
<1>4. a \in Pipes /\ PipeFits(a) /\ a.open /\ a.lost = pipe[c].lost
  BY <1>1, <1>2, TakenFields
<1>5. b \in Pipes /\ b.output = pipe[c].output /\ b.kernel = 0 /\ b.buffered = 1
      /\ b.pending = pipe[c].pending /\ b.open /\ b.lost = pipe[c].lost
  BY <1>1, <1>2, BufferedFields, Zenon
<1> HIDE DEF a, b
<1>6. pipe[c].buffered = 0 => PipeFits(b)
  BY <1>1, <1>2, <1>5, CaptureAssumption DEF PipeFits, Pipes
<1>7. PICK d \in Pipes : /\ pipe' = [pipe EXCEPT ![c] = d]
                        /\ PipeFits(d) /\ d.open /\ d.lost = pipe[c].lost
  BY <1>3, <1>4, <1>5, <1>6
<1>8. CaptureFits(d, cap[c])
  BY <1>1, <1>2, <1>7 DEF CaptureFits
<1>9. proc[c].leader # "unborn"
  BY <1>2, AtCapture DEF Untouched
<1>10. Handled(c) /\ UNCHANGED <<cap, up, unregistered>>
  BY <1>1, UnaskedSame DEF ReadChunk, NoSignal, tracker
<1> QED BY <1>1, <1>7, <1>8, <1>9, <1>10, CaptureStep

LEMMA WriteDoneInv ==
  ASSUME IInv, NEW c \in Captures, WriteDone(c)
  PROVE  IInv'
<1> DEFINE w == Written(pipe[c])
           d == IF "write" \in cap[c].failure THEN w ELSE Resumed(w)
           f == Finish(cap[c], Outcome(cap[c]))
<1>1. /\ TypeOK /\ GroupInv /\ pipe[c] \in Pipes /\ cap[c] \in Caps /\ PipeFits(pipe[c])
      /\ CaptureFits(pipe[c], cap[c]) /\ cap = [cap EXCEPT ![c] = cap[c]]
      /\ cap[c].settled # "no" => c \in unregistered
  BY AtCapture
<1>2. pipe[c].pending > 0 /\ pipe' = [pipe EXCEPT ![c] = d] /\ UNCHANGED up
  BY DEF WriteDone
<1>3. \/ Drained(c) /\ cap' = [cap EXCEPT ![c] = f] /\ Release(c)
      \/ ~Drained(c) /\ NoSignal /\ UNCHANGED <<cap, tracker>>
  BY DEF WriteDone
<1>4. /\ w \in Pipes /\ PipeFits(w) /\ w.pending = pipe[c].pending - 1
      /\ w.open = pipe[c].open /\ w.lost = pipe[c].lost
  BY <1>1, <1>2, WrittenFields
<1> HIDE DEF w
<1>5. /\ d \in Pipes /\ PipeFits(d) /\ d.open = pipe[c].open /\ d.lost = pipe[c].lost
      /\ ~d.open => d.pending = pipe[c].pending - 1
  BY <1>4, ResumedFields
<1> HIDE DEF d, f
<1>6. proc[c].leader # "unborn"
  BY <1>2, AtCapture DEF Untouched
<1>7. CASE Drained(c) /\ cap' = [cap EXCEPT ![c] = f] /\ Release(c)
  <2>1. cap[c].settling /\ cap[c].settled = "no" /\ pipe[c].pending = 1
    BY <1>7 DEF Drained
  <2>2. ~d.open /\ d.pending = 0
    BY <2>1, <1>1, <1>5 DEF CaptureFits
  <2>3. CaptureFits(d, cap[c])
    BY <2>1, <2>2, <1>1, <1>5 DEF CaptureFits
  <2>4. CaptureFits(d, f) /\ f \in Caps
    BY <2>2, <2>3, <1>1, <1>5, SettledFits DEF f
  <2>5. Handled(c) /\ c \in unregistered'
    BY <1>1, <1>7, KillHandled, ReleaseLetsGo DEF GroupInv
  <2> QED BY <1>2, <1>5, <1>6, <1>7, <2>4, <2>5, CaptureStep
<1>8. CASE NoSignal /\ UNCHANGED <<cap, tracker>>
  <2>1. cap[c].settled # "resolved"
    BY <1>1, <1>2 DEF CaptureFits
  <2>2. CaptureFits(d, cap[c])
    BY <2>1, <1>1, <1>5 DEF CaptureFits
  <2>3. Handled(c) /\ UNCHANGED unregistered
    BY <1>1, <1>8, UnaskedSame DEF tracker
  <2> QED BY <1>1, <1>2, <1>5, <1>6, <1>8, <2>2, <2>3, CaptureStep
<1> QED BY <1>3, <1>7, <1>8

(* A failure is recorded before the pipes are destroyed. *)
LEMMA FailingFits ==
  ASSUME NEW d \in Pipes, NEW j \in Caps, NEW why \in {"stall", "deadline", "write", "spawn"},
         j.settled # "resolved", j.settled # "no" => ~j.ticker /\ ~j.deadline
  PROVE  /\ CaptureFits(Destroyed(d), Failing(j, why))
         /\ Failing(j, why) \in Caps /\ Failing(j, why).settled = j.settled
  BY DestroyedFields, FailingFields DEF CaptureFits

LEMMA WriteFailsInv ==
  ASSUME IInv, NEW c \in Captures, WriteFails(c)
  PROVE  IInv'
<1> DEFINE d == Destroyed(Written(pipe[c]))
           j == Failing(cap[c], "write")
           f == Finish(j, "rejected")
<1>1. /\ TypeOK /\ GroupInv /\ pipe[c] \in Pipes /\ cap[c] \in Caps /\ PipeFits(pipe[c])
      /\ CaptureFits(pipe[c], cap[c])
      /\ cap[c].settled # "no" => c \in unregistered
  BY AtCapture
<1>2. pipe[c].pending > 0 /\ pipe' = [pipe EXCEPT ![c] = d] /\ UNCHANGED up
  BY DEF WriteFails
<1>3. \/ Drained(c) /\ cap' = [cap EXCEPT ![c] = f] /\ Release(c)
      \/ cap' = [cap EXCEPT ![c] = j] /\ Kill(c)
  BY DEF WriteFails
<1>4. Written(pipe[c]) \in Pipes /\ PipeFits(Written(pipe[c]))
  BY <1>1, <1>2, WrittenFields
<1>5. d \in Pipes /\ PipeFits(d) /\ ~d.open
  BY <1>4, DestroyedFields, DestroyedFits
<1>6. cap[c].settled # "resolved" /\ (cap[c].settled # "no" => ~cap[c].ticker /\ ~cap[c].deadline)
  BY <1>1, <1>2 DEF CaptureFits
<1>7. CaptureFits(d, j) /\ j \in Caps /\ j.settled = cap[c].settled /\ j.failure # {}
  BY <1>1, <1>4, <1>6, FailingFits, FailingFields
<1> HIDE DEF d, j
<1>8. CaptureFits(d, f) /\ f \in Caps
  BY <1>5, <1>7, RejectedFits
<1>9. proc[c].leader # "unborn"
  BY <1>2, AtCapture DEF Untouched
<1>10. Handled(c) /\ (Release(c) => c \in unregistered')
  BY <1>1, <1>3, KillHandled, ReleaseLetsGo DEF GroupInv
<1>11. unregistered \subseteq unregistered'
  BY <1>1, <1>10, HandledType
<1> HIDE DEF f
<1>12. CASE cap' = [cap EXCEPT ![c] = f] /\ Release(c)
  BY <1>12, <1>2, <1>5, <1>8, <1>9, <1>10, CaptureStep
<1>13. CASE cap' = [cap EXCEPT ![c] = j]
  <2>1. j.settled # "no" => c \in unregistered'
    BY <1>1, <1>7, <1>11
  <2> QED BY <1>13, <2>1, <1>2, <1>5, <1>7, <1>9, <1>10, CaptureStep
<1> QED BY <1>3, <1>12, <1>13

(* A timer of a capture that is not settled kills its group. *)
LEMMA TimerFails ==
  ASSUME IInv, NEW c \in Captures, NEW j \in Caps, NEW why \in {"stall", "deadline", "write", "spawn"},
         j.settled = "no", cap[c].ticker \/ cap[c].deadline,
         cap' = [cap EXCEPT ![c] = Failing(j, why)],
         pipe' = [pipe EXCEPT ![c] = Destroyed(@)],
         Kill(c), UNCHANGED up
  PROVE  IInv'
<1> DEFINE d == Destroyed(pipe[c])
           f == Failing(j, why)
<1>1. TypeOK /\ GroupInv /\ pipe[c] \in Pipes /\ PipeFits(pipe[c])
  BY AtCapture
<1>2. d \in Pipes /\ PipeFits(d) /\ ~d.open
  BY <1>1, DestroyedFields, DestroyedFits
<1>3. CaptureFits(d, f) /\ f \in Caps /\ f.settled = "no"
  BY <1>1, FailingFits
<1>4. proc[c].leader # "unborn"
  BY AtCapture DEF Untouched
<1>5. Handled(c)
  BY <1>1, KillHandled DEF GroupInv
<1>6. pipe' = [pipe EXCEPT ![c] = d] /\ cap' = [cap EXCEPT ![c] = f]
  OBVIOUS
<1> HIDE DEF d, f
<1> QED BY <1>2, <1>3, <1>4, <1>5, <1>6, CaptureStep

LEMMA StallInv ==
  ASSUME IInv, NEW c \in Captures, Stall(c)
  PROVE  IInv'
<1> DEFINE j == [cap[c] EXCEPT !.ticker = FALSE]
<1>1. cap[c] \in Caps /\ CaptureFits(pipe[c], cap[c]) /\ cap[c].ticker
  BY AtCapture DEF Stall
<1>2. j \in Caps /\ j.settled = cap[c].settled
  BY <1>1 DEF Caps
<1>3. j.settled = "no"
  BY <1>1, <1>2 DEF CaptureFits
<1>4. cap' = [cap EXCEPT ![c] = Failing(j, "stall")] /\ pipe' = [pipe EXCEPT ![c] = Destroyed(@)]
      /\ Kill(c) /\ UNCHANGED up
  BY DEF Stall
<1> HIDE DEF j
<1> QED BY <1>1, <1>2, <1>3, <1>4, TimerFails

LEMMA DeadlineInv ==
  ASSUME IInv, NEW c \in Captures, Deadline(c)
  PROVE  IInv'
<1> DEFINE j == [cap[c] EXCEPT !.deadline = FALSE]
<1>1. cap[c] \in Caps /\ CaptureFits(pipe[c], cap[c]) /\ cap[c].deadline
  BY AtCapture DEF Deadline
<1>2. j \in Caps /\ j.settled = cap[c].settled
  BY <1>1 DEF Caps
<1>3. j.settled = "no"
  BY <1>1, <1>2 DEF CaptureFits
<1>4. cap' = [cap EXCEPT ![c] = Failing(j, "deadline")] /\ pipe' = [pipe EXCEPT ![c] = Destroyed(@)]
      /\ Kill(c) /\ UNCHANGED up
  BY DEF Deadline
<1> HIDE DEF j
<1> QED BY <1>1, <1>2, <1>3, <1>4, TimerFails

LEMMA KillSettleInv ==
  ASSUME IInv, NEW c \in Captures, KillSettle(c)
  PROVE  IInv'
<1> DEFINE d == Destroyed(pipe[c])
           f == Finish(cap[c], "rejected")
<1>1. /\ TypeOK /\ GroupInv /\ pipe[c] \in Pipes /\ cap[c] \in Caps /\ PipeFits(pipe[c])
      /\ CaptureFits(pipe[c], cap[c]) /\ cap[c].killSettle = "armed"
  BY AtCapture DEF KillSettle
<1>2. d \in Pipes /\ PipeFits(d) /\ ~d.open
  BY <1>1, DestroyedFields, DestroyedFits
<1>3. cap[c].failure # {}
  BY <1>1 DEF CaptureFits
<1>4. pipe' = [pipe EXCEPT ![c] = d] /\ cap' = [cap EXCEPT ![c] = f] /\ Release(c) /\ UNCHANGED up
  BY DEF KillSettle
<1> HIDE DEF d
<1>5. CaptureFits(d, f) /\ f \in Caps
  BY <1>1, <1>2, <1>3, RejectedFits
<1>6. proc[c].leader # "unborn"
  BY <1>1, AtCapture DEF Untouched
<1>7. Handled(c) /\ c \in unregistered'
  BY <1>1, <1>4, KillHandled, ReleaseLetsGo DEF GroupInv
<1> HIDE DEF f
<1> QED BY <1>2, <1>4, <1>5, <1>6, <1>7, CaptureStep

(* A process of a leaf ends; the authority has not heard of it yet. *)
LEMMA ExitInv ==
  ASSUME IInv, NEW c \in Captures, Exit(c)
  PROVE  IInv'
<1>1. TypeOK /\ GroupInv /\ CaptureInv /\ proc[c] \in Procs
  BY DEF IInv, TypeOK
<1>2. PICK q : /\ proc' = [proc EXCEPT ![c] = q]
               /\ \/ proc[c].leader = "alive" /\ q = [proc[c] EXCEPT !.leader = "dead"]
                  \/ proc[c].kin /\ q = [proc[c] EXCEPT !.kin = FALSE]
                  \/ proc[c].holder /\ q = [proc[c] EXCEPT !.holder = FALSE]
  BY DEF Exit
<1>3. /\ q \in Procs /\ q.pid = proc[c].pid /\ (q.kin => proc[c].kin)
      /\ q.leader = proc[c].leader \/ (proc[c].leader = "alive" /\ q.leader = "dead")
  BY <1>1, <1>2 DEF Procs
<1>4. proc' \in [Captures -> Procs] /\ Faded
  BY <1>1, <1>2, <1>3, EndsFaded
<1>5. signalled' = {} /\ UNCHANGED <<pipe, cap, registry, unregistered, landed, denied, up>>
  BY DEF Exit, tracker
<1>6. Handled(c)
  BY <1>1, <1>4, <1>5, Unasked DEF tracker
<1>7. GroupInv'
  BY <1>1, <1>5, <1>6, HandledGroup
<1>8. TypeOK'
  BY <1>1, <1>4, <1>5 DEF TypeOK
<1>9. CaptureInv'
  BY <1>1, <1>4, <1>5 DEF CaptureInv, Faded
<1> QED BY <1>7, <1>8, <1>9 DEF IInv

LEMMA ForkInv ==
  ASSUME IInv, NEW c \in Captures, Fork(c)
  PROVE  IInv'
<1>1. TypeOK /\ GroupInv /\ CaptureInv
  BY DEF IInv
<1>2. /\ proc' \in [Captures -> Procs] /\ GroupInv'
      /\ \A d \in Captures : proc'[d].leader = proc[d].leader
  BY <1>1, ForkGroup
<1>3. signalled' = {} /\ UNCHANGED <<pipe, cap, registry, unregistered, landed, denied, up>>
  BY DEF Fork, tracker
<1>4. TypeOK'
  BY <1>1, <1>2, <1>3 DEF TypeOK
<1>5. CaptureInv'
  BY <1>1, <1>2, <1>3 DEF CaptureInv
<1> QED BY <1>2, <1>4, <1>5 DEF IInv

LEMMA ShutdownInv ==
  ASSUME IInv, Shutdown
  PROVE  IInv'
<1>1. TypeOK /\ GroupInv /\ CaptureInv
  BY DEF IInv
<1>2. /\ proc' \in [Captures -> Procs] /\ Faded /\ GroupInv'
      /\ signalled' \subseteq Captures /\ landed' \subseteq Captures /\ denied' \subseteq Captures
  BY <1>1, ShutdownGroup
<1>3. up' = FALSE /\ UNCHANGED <<pipe, cap, registry, unregistered>>
  BY DEF Shutdown, tracker
<1>4. TypeOK'
  BY <1>1, <1>2, <1>3 DEF TypeOK
<1>5. CaptureInv'
  BY <1>1, <1>2, <1>3 DEF CaptureInv, Faded
<1> QED BY <1>2, <1>4, <1>5 DEF IInv

(* The exit event is the last callback before the two graces. *)
LEMMA ExitEventInv ==
  ASSUME IInv, NEW c \in Captures, ExitEvent(c)
  PROVE  IInv'
<1> DEFINE d == IF pipe[c].open THEN Resumed(pipe[c]) ELSE pipe[c]
           j == [cap[c] EXCEPT !.ticker = FALSE, !.exitSettle = "kill"]
           q == [proc[c] EXCEPT !.leader = "reaped"]
<1>1. /\ TypeOK /\ GroupInv /\ pipe[c] \in Pipes /\ cap[c] \in Caps /\ PipeFits(pipe[c])
      /\ CaptureFits(pipe[c], cap[c])
      /\ cap[c].settled # "no" => c \in unregistered
  BY AtCapture
<1>2. proc[c] \in Procs /\ proc[c].leader = "dead"
  BY <1>1 DEF TypeOK, ExitEvent
<1>3. q \in Procs /\ q.pid = proc[c].pid /\ q.kin = proc[c].kin /\ q.leader = "reaped"
  BY <1>2 DEF Procs
<1>4. proc' = [proc EXCEPT ![c] = q]
  BY DEF ExitEvent
<1>5. pipe' = [pipe EXCEPT ![c] = d]
  BY DEF ExitEvent
<1>6. cap' = [cap EXCEPT ![c] = j]
  BY DEF ExitEvent
<1>7. signalled' = {} /\ UNCHANGED <<tracker, landed, denied, up>>
  BY DEF ExitEvent
<1> HIDE DEF q
<1>8. proc' \in [Captures -> Procs] /\ Faded
  BY <1>1, <1>2, <1>3, <1>4, EndsFaded
<1>9. Handled(c) /\ UNCHANGED unregistered
  BY <1>1, <1>7, <1>8, Unasked DEF tracker
<1>10. /\ d \in Pipes /\ PipeFits(d) /\ d.open = pipe[c].open /\ d.lost = pipe[c].lost
       /\ ~d.open => d.pending = pipe[c].pending
  BY <1>1, ResumedFields
<1>11. /\ j \in Caps /\ ~j.ticker /\ j.deadline = cap[c].deadline
       /\ j.settled = cap[c].settled /\ j.settling = cap[c].settling
       /\ j.killSettle = cap[c].killSettle /\ j.failure = cap[c].failure
  BY <1>1 DEF Caps
<1> HIDE DEF d, j
<1>12. CaptureFits(d, j)
  BY <1>1, <1>10, <1>11 DEF CaptureFits
<1> QED BY <1>1, <1>2, <1>5, <1>6, <1>7, <1>9, <1>10, <1>11, <1>12, CaptureStep

LEMMA ExitKillInv ==
  ASSUME IInv, NEW c \in Captures, ExitKill(c)
  PROVE  IInv'
<1> DEFINE j == [cap[c] EXCEPT !.exitSettle = "drain"]
<1>1. /\ TypeOK /\ GroupInv /\ pipe[c] \in Pipes /\ cap[c] \in Caps /\ PipeFits(pipe[c])
      /\ CaptureFits(pipe[c], cap[c]) /\ pipe = [pipe EXCEPT ![c] = pipe[c]]
      /\ cap[c].settled # "no" => c \in unregistered
  BY AtCapture
<1>2. cap[c].exitSettle = "kill" /\ cap' = [cap EXCEPT ![c] = j] /\ Kill(c) /\ UNCHANGED <<pipe, up>>
  BY DEF ExitKill
<1>3. /\ j \in Caps /\ j.ticker = cap[c].ticker /\ j.deadline = cap[c].deadline
      /\ j.settled = cap[c].settled /\ j.settling = cap[c].settling
      /\ j.killSettle = cap[c].killSettle /\ j.failure = cap[c].failure
  BY <1>1 DEF Caps
<1> HIDE DEF j
<1>4. CaptureFits(pipe[c], j)
  BY <1>1, <1>3 DEF CaptureFits
<1>5. proc[c].leader # "unborn"
  BY <1>2, AtCapture DEF Untouched
<1>6. Handled(c)
  BY <1>1, <1>2, KillHandled DEF GroupInv
<1>7. unregistered \subseteq unregistered'
  BY <1>1, <1>6, HandledType
<1> QED BY <1>1, <1>2, <1>3, <1>4, <1>5, <1>6, <1>7, CaptureStep

(* settleFromExit of a capture whose pipes are at their end or destroyed. *)
LEMMA SettleFromExitInv ==
  ASSUME IInv, NEW c \in Captures, NEW d \in Pipes, NEW j \in Caps,
         pipe' = [pipe EXCEPT ![c] = d], SettleFromExit(c, j), UNCHANGED up,
         PipeFits(d), ~d.open, d.pending = pipe[c].pending,
         CaptureFits(d, j), j.settled = cap[c].settled, proc[c].leader # "unborn"
  PROVE  IInv'
<1> DEFINE s == Settling(j)
           f == Finish(Settling(j), Outcome(j))
<1>1. TypeOK /\ GroupInv /\ (cap[c].settled # "no" => c \in unregistered)
  BY AtCapture
<1>2. \/ cap' = [cap EXCEPT ![c] = j] /\ NoSignal /\ UNCHANGED tracker
      \/ j.settled = "no" /\ cap' = [cap EXCEPT ![c] = s] /\ Kill(c)
      \/ /\ j.settled = "no" /\ pipe[c].pending = 0
         /\ cap' = [cap EXCEPT ![c] = f] /\ Release(c)
  BY DEF SettleFromExit
<1>3. s \in Caps /\ s.settled = j.settled /\ s.failure = j.failure
  BY SettlingFields
<1>4. j.settled = "no" => CaptureFits(d, s)
  BY SettlingFits
<1>5. Outcome(j) = Outcome(s)
  BY <1>3 DEF Outcome
<1>6. f = Finish(s, Outcome(s))
  BY <1>5
<1> HIDE DEF s, f
<1>7. CASE cap' = [cap EXCEPT ![c] = j] /\ NoSignal /\ UNCHANGED tracker
  <2>1. Handled(c) /\ UNCHANGED unregistered
    BY <1>1, <1>7, UnaskedSame DEF tracker
  <2> QED BY <1>1, <1>7, <2>1, CaptureStep
<1>8. CASE j.settled = "no" /\ cap' = [cap EXCEPT ![c] = s] /\ Kill(c)
  <2>1. Handled(c)
    BY <1>1, <1>8, KillHandled DEF GroupInv
  <2> QED BY <1>3, <1>4, <1>8, <2>1, CaptureStep
<1>9. CASE j.settled = "no" /\ pipe[c].pending = 0 /\ cap' = [cap EXCEPT ![c] = f] /\ Release(c)
  <2>1. Handled(c) /\ c \in unregistered'
    BY <1>1, <1>9, KillHandled, ReleaseLetsGo DEF GroupInv
  <2>2. CaptureFits(d, f) /\ f \in Caps
    BY <1>3, <1>4, <1>6, <1>9, SettledFits
  <2> QED BY <1>9, <2>1, <2>2, CaptureStep
<1> QED BY <1>2, <1>7, <1>8, <1>9

LEMMA ExitDrainInv ==
  ASSUME IInv, NEW c \in Captures, ExitDrain(c)
  PROVE  IInv'
<1> DEFINE j == [cap[c] EXCEPT !.exitSettle = "none"]
           e == Destroyed(pipe[c])
<1>1. /\ pipe[c] \in Pipes /\ cap[c] \in Caps /\ PipeFits(pipe[c])
      /\ CaptureFits(pipe[c], cap[c]) /\ pipe = [pipe EXCEPT ![c] = pipe[c]]
  BY AtCapture
<1>2. cap[c].exitSettle = "drain" /\ SettleFromExit(c, j) /\ UNCHANGED up
  BY DEF ExitDrain
<1>3. \/ Polled(c) /\ Idle(c) /\ pipe' = [pipe EXCEPT ![c] = e]
      \/ (cap[c].settled # "no" \/ cap[c].settling) /\ UNCHANGED pipe
  BY DEF ExitDrain
<1>4. /\ j \in Caps /\ j.ticker = cap[c].ticker /\ j.deadline = cap[c].deadline
      /\ j.settled = cap[c].settled /\ j.settling = cap[c].settling
      /\ j.killSettle = cap[c].killSettle /\ j.failure = cap[c].failure
  BY <1>1 DEF Caps
<1>5. /\ e \in Pipes /\ PipeFits(e) /\ ~e.open /\ e.pending = pipe[c].pending
      /\ Polled(c) /\ Idle(c) => (e.lost => pipe[c].lost)
  <2>1. Polled(c) /\ Idle(c) => pipe[c].kernel = 0 /\ pipe[c].buffered = 0
    BY <1>1 DEF Idle, Polled, Pipes
  <2> QED BY <1>1, <2>1, DestroyedFields, DestroyedFits
<1>6. proc[c].leader # "unborn"
  BY <1>2, AtCapture DEF Untouched
<1> HIDE DEF j, e
<1>7. CASE Polled(c) /\ Idle(c) /\ pipe' = [pipe EXCEPT ![c] = e]
  <2>1. CaptureFits(e, j)
    BY <1>1, <1>4, <1>5, <1>7 DEF CaptureFits
  <2> QED BY <1>2, <1>4, <1>5, <1>6, <1>7, <2>1, SettleFromExitInv
<1>8. CASE (cap[c].settled # "no" \/ cap[c].settling) /\ UNCHANGED pipe
  <2>1. CaptureFits(pipe[c], j) /\ ~pipe[c].open
    BY <1>1, <1>4, <1>8 DEF CaptureFits
  <2> QED BY <1>1, <1>2, <1>4, <1>6, <1>8, <2>1, SettleFromExitInv
<1> QED BY <1>3, <1>7, <1>8

LEMMA CloseEventInv ==
  ASSUME IInv, NEW c \in Captures, CloseEvent(c)
  PROVE  IInv'
<1> DEFINE d == [pipe[c] EXCEPT !.closed = TRUE, !.open = FALSE]
<1>1. /\ pipe[c] \in Pipes /\ cap[c] \in Caps /\ PipeFits(pipe[c])
      /\ CaptureFits(pipe[c], cap[c])
  BY AtCapture
<1>2. proc[c].leader # "unborn" /\ pipe' = [pipe EXCEPT ![c] = d]
      /\ SettleFromExit(c, cap[c]) /\ UNCHANGED up
  BY DEF CloseEvent
<1>3. pipe[c].kernel = 0 /\ pipe[c].buffered = 0
  BY <1>1 DEF CloseEvent, PipeFits
<1>4. /\ d \in Pipes /\ ~d.open /\ d.output = pipe[c].output /\ d.kernel = pipe[c].kernel
      /\ d.buffered = pipe[c].buffered /\ d.pending = pipe[c].pending /\ d.lost = pipe[c].lost
  BY <1>1 DEF Pipes
<1> HIDE DEF d
<1>5. PipeFits(d)
  BY <1>1, <1>3, <1>4 DEF PipeFits
<1>6. CaptureFits(d, cap[c])
  BY <1>1, <1>4 DEF CaptureFits
<1> QED BY <1>1, <1>2, <1>4, <1>5, <1>6, SettleFromExitInv

(* The two ends of a spawn. *)
LEMMA SpawnCapture ==
  ASSUME IInv, NEW c \in Captures, NEW d \in Pipes, NEW j \in Caps,
         pipe' = [pipe EXCEPT ![c] = d], cap' = [cap EXCEPT ![c] = j],
         proc'[c].leader # "unborn", \A e \in Captures \ {c} : proc'[e] = proc[e],
         unregistered \subseteq unregistered',
         PipeFits(d), CaptureFits(d, j), j.settled # "no" => c \in unregistered'
  PROVE  pipe' \in [Captures -> Pipes] /\ cap' \in [Captures -> Caps] /\ CaptureInv'
<1>1. TypeOK
  BY DEF IInv
<1>2. pipe' \in [Captures -> Pipes] /\ pipe'[c] = d
      /\ \A e \in Captures \ {c} : pipe'[e] = pipe[e]
  BY <1>1 DEF TypeOK
<1>3. cap' \in [Captures -> Caps] /\ cap'[c] = j
      /\ \A e \in Captures \ {c} : cap'[e] = cap[e]
  BY <1>1 DEF TypeOK
<1>4. CaptureInv'
  <2> SUFFICES ASSUME NEW e \in Captures
               PROVE  /\ PipeFits(pipe'[e]) /\ CaptureFits(pipe'[e], cap'[e])
                      /\ proc'[e].leader = "unborn" => Untouched(pipe'[e], cap'[e])
                      /\ cap'[e].settled # "no" => e \in unregistered'
    BY DEF CaptureInv
  <2>1. CASE e = c
    BY <2>1, <1>2, <1>3
  <2>2. CASE e # c
    BY <2>2, <1>2, <1>3, AtCapture
  <2> QED BY <2>1, <2>2
<1> QED BY <1>2, <1>3, <1>4

LEMMA StartInv ==
  ASSUME IInv, NEW c \in Captures, NEW p \in Pids, Start(c, p)
  PROVE  IInv'
<1> DEFINE d == [pipe[c] EXCEPT !.open = TRUE]
           j == [cap[c] EXCEPT !.ticker = TRUE, !.deadline = TRUE]
<1>1. /\ TypeOK /\ GroupInv /\ pipe[c] \in Pipes /\ cap[c] \in Caps /\ PipeFits(pipe[c])
      /\ CaptureFits(pipe[c], cap[c]) /\ Untouched(pipe[c], cap[c])
  BY AtCapture DEF Start
<1>2. /\ proc' \in [Captures -> Procs] /\ registry' \in [Pids -> Captures \cup {None}]
      /\ GroupInv' /\ proc'[c].leader = "alive"
      /\ \A e \in Captures \ {c} : proc'[e] = proc[e]
  BY <1>1, StartGroup
<1>3. pipe' = [pipe EXCEPT ![c] = d] /\ signalled' = {} /\ UNCHANGED <<unregistered, landed, denied, up>>
  BY DEF Start
<1>4. cap' = [cap EXCEPT ![c] = j]
  BY DEF Start
<1>5. /\ d \in Pipes /\ d.output = pipe[c].output /\ d.kernel = pipe[c].kernel /\ d.open
      /\ d.buffered = pipe[c].buffered /\ d.pending = pipe[c].pending /\ d.lost = pipe[c].lost
  BY <1>1 DEF Pipes
<1>6. /\ j \in Caps /\ j.settled = cap[c].settled /\ j.settling = cap[c].settling
      /\ j.killSettle = cap[c].killSettle /\ j.failure = cap[c].failure
  BY <1>1 DEF Caps
<1> HIDE DEF d, j
<1>7. PipeFits(d)
  BY <1>1, <1>5 DEF PipeFits
<1>8. CaptureFits(d, j) /\ j.settled = "no"
  BY <1>1, <1>5, <1>6 DEF CaptureFits, Untouched
<1>9. pipe' \in [Captures -> Pipes] /\ cap' \in [Captures -> Caps] /\ CaptureInv'
  BY <1>2, <1>3, <1>4, <1>5, <1>6, <1>7, <1>8, SpawnCapture
<1>10. TypeOK'
  BY <1>1, <1>2, <1>3, <1>9 DEF TypeOK
<1> QED BY <1>2, <1>9, <1>10 DEF IInv

LEMMA StartFailsInv ==
  ASSUME IInv, NEW c \in Captures, StartFails(c)
  PROVE  IInv'
<1> DEFINE e == [cap[c] EXCEPT !.failure = {"spawn"}]
           j == Finish(e, "rejected")
<1>1. /\ TypeOK /\ GroupInv /\ pipe[c] \in Pipes /\ cap[c] \in Caps /\ PipeFits(pipe[c])
      /\ Untouched(pipe[c], cap[c]) /\ pipe = [pipe EXCEPT ![c] = pipe[c]]
  BY AtCapture DEF StartFails
<1>2. /\ proc' \in [Captures -> Procs] /\ GroupInv' /\ proc'[c].leader = "failed"
      /\ \A d \in Captures \ {c} : proc'[d] = proc[d]
  BY <1>1, StartFailsGroup
<1>3. cap' = [cap EXCEPT ![c] = j] /\ unregistered' = unregistered \cup {c} /\ signalled' = {}
      /\ UNCHANGED <<pipe, registry, landed, denied, up>>
  BY DEF StartFails
<1>4. e \in Caps /\ e.failure = {"spawn"}
  BY <1>1 DEF Caps
<1> HIDE DEF e
<1>5. ~pipe[c].open
  BY <1>1 DEF Untouched
<1>6. CaptureFits(pipe[c], j) /\ j \in Caps
  BY <1>1, <1>4, <1>5, RejectedFits
<1> HIDE DEF j
<1>7. pipe' \in [Captures -> Pipes] /\ cap' \in [Captures -> Caps] /\ CaptureInv'
  BY <1>1, <1>2, <1>3, <1>6, SpawnCapture
<1>8. TypeOK'
  BY <1>1, <1>2, <1>3, <1>7 DEF TypeOK
<1> QED BY <1>2, <1>7, <1>8 DEF IInv

-----------------------------------------------------------------------------
(* The inductive invariant. *)

LEMMA InitInv == Init => IInv
<1> SUFFICES ASSUME Init PROVE IInv
  OBVIOUS
<1>1. TypeOK
  BY CaptureAssumption DEF Init, TypeOK, Procs, Pipes, Caps
<1>2. GroupInv
  BY CaptureAssumption DEF Init, GroupInv, Grouped, Registered, Tracked, Lives
<1>3. CaptureInv
  <2> SUFFICES ASSUME NEW c \in Captures
               PROVE  /\ PipeFits(pipe[c]) /\ CaptureFits(pipe[c], cap[c])
                      /\ Untouched(pipe[c], cap[c]) /\ cap[c].settled = "no"
    BY Zenon DEF CaptureInv
  <2>1. /\ pipe[c].output = MaxChunks /\ pipe[c].kernel = 0 /\ pipe[c].buffered = 0
        /\ pipe[c].pending = 0 /\ ~pipe[c].open /\ ~pipe[c].lost
    BY Zenon DEF Init
  <2>2. /\ ~cap[c].ticker /\ ~cap[c].deadline /\ cap[c].killSettle = "unset"
        /\ cap[c].exitSettle = "none" /\ ~cap[c].settling /\ cap[c].settled = "no"
        /\ cap[c].failure = {}
    BY DEF Init
  <2>3. PipeFits(pipe[c])
    BY <2>1, CaptureAssumption DEF PipeFits
  <2> QED BY <2>1, <2>2, <2>3 DEF CaptureFits, Untouched
<1> QED BY <1>1, <1>2, <1>3 DEF IInv

LEMMA StutterInv == IInv /\ UNCHANGED vars => IInv'
<1> SUFFICES ASSUME IInv, UNCHANGED vars PROVE IInv'
  OBVIOUS
<1>1. TypeOK'
  BY DEF IInv, TypeOK, vars
<1>2. GroupInv'
  BY DEF IInv, GroupInv, Grouped, Registered, Tracked, Lives, vars
<1>3. CaptureInv'
  BY DEF IInv, CaptureInv, vars
<1> QED BY <1>1, <1>2, <1>3 DEF IInv

LEMMA NextInv == IInv /\ [Next]_vars => IInv'
<1> SUFFICES ASSUME IInv, [Next]_vars PROVE IInv'
  OBVIOUS
<1>1. ASSUME NEW c \in Captures, NEW p \in Pids, Start(c, p) PROVE IInv'
  BY <1>1, StartInv
<1>2. ASSUME NEW c \in Captures,
             StartFails(c) \/ Fork(c) \/ Exit(c) \/ WriteOutput(c) \/ ReadChunk(c)
             \/ WriteDone(c) \/ WriteFails(c)
      PROVE  IInv'
  BY <1>2, StartFailsInv, ForkInv, ExitInv, WriteOutputInv, ReadChunkInv, WriteDoneInv, WriteFailsInv
<1>3. ASSUME NEW c \in Captures,
             Stall(c) \/ Deadline(c) \/ KillSettle(c) \/ ExitEvent(c) \/ ExitKill(c)
             \/ ExitDrain(c) \/ CloseEvent(c)
      PROVE  IInv'
  BY <1>3, StallInv, DeadlineInv, KillSettleInv, ExitEventInv, ExitKillInv, ExitDrainInv, CloseEventInv
<1>4. CASE Shutdown
  BY <1>4, ShutdownInv
<1>5. CASE UNCHANGED vars
  BY <1>5, StutterInv
<1> QED BY <1>1, <1>2, <1>3, <1>4, <1>5 DEF Next

LEMMA Inductive == Spec => []IInv
<1>1. Init => IInv
  BY InitInv
<1>2. IInv /\ [Next]_vars => IInv'
  BY NextInv
<1> QED BY <1>1, <1>2, PTL DEF Spec

(* The type invariant: in particular the chunks in flight stay bounded by   *)
(* what the leaf wrote, although append counts every record it chains.     *)
THEOREM Typed == Spec => []TypeOK
<1>1. IInv => TypeOK
  BY DEF IInv
<1> QED BY <1>1, Inductive, PTL

-----------------------------------------------------------------------------
(* Whom the authority signals. *)

LEMMA Asked ==
  ASSUME NEW c \in Captures,
         \/ StartFails(c) \/ Fork(c) \/ Exit(c) \/ WriteOutput(c)
         \/ ReadChunk(c) \/ WriteDone(c) \/ WriteFails(c)
         \/ Stall(c) \/ Deadline(c) \/ KillSettle(c)
         \/ ExitEvent(c) \/ ExitKill(c) \/ ExitDrain(c) \/ CloseEvent(c)
  PROVE  signalled' = {} \/ (up /\ (Kill(c) \/ Release(c)))
<1>1. ASSUME StartFails(c) \/ Fork(c) \/ Exit(c) \/ WriteOutput(c) \/ ReadChunk(c) \/ ExitEvent(c)
      PROVE  signalled' = {}
  BY <1>1 DEF StartFails, Fork, Exit, WriteOutput, ReadChunk, ExitEvent
<1>2. ASSUME WriteDone(c) \/ WriteFails(c)
      PROVE  signalled' = {} \/ (up /\ (Kill(c) \/ Release(c)))
  BY <1>2 DEF WriteDone, WriteFails, NoSignal
<1>3. ASSUME Stall(c) \/ Deadline(c) \/ KillSettle(c) \/ ExitKill(c)
      PROVE  up /\ (Kill(c) \/ Release(c))
  BY <1>3 DEF Stall, Deadline, KillSettle, ExitKill
<1>4. ASSUME NEW j, SettleFromExit(c, j)
      PROVE  signalled' = {} \/ Kill(c) \/ Release(c)
  BY <1>4 DEF SettleFromExit, NoSignal
<1>5. ASSUME ExitDrain(c) \/ CloseEvent(c)
      PROVE  signalled' = {} \/ (up /\ (Kill(c) \/ Release(c)))
  BY <1>4, <1>5 DEF ExitDrain, CloseEvent
<1> QED BY <1>1, <1>2, <1>3, <1>5

(* A tracker that signals is the one registered under its number, and has  *)
(* not let go of its group.                                                *)
LEMMA Signallers ==
  ASSUME IInv, Next, NEW c \in signalled'
  PROVE  /\ c \in Captures /\ up /\ proc[c].pid \in Pids /\ registry[proc[c].pid] = c
         /\ c \notin unregistered
<1>1. TypeOK /\ GroupInv
  BY DEF IInv
<1>2. CASE \E d \in Captures, p \in Pids : Start(d, p)
  BY <1>2 DEF Start
<1>3. CASE Shutdown
  <2>1. PICK p \in Pids : registry[p] # None /\ c = registry[p]
    BY <1>1, <1>3, ShutdownGroup
  <2>2. proc[c].pid = p /\ c \notin unregistered
    BY <1>1, <2>1 DEF GroupInv, Registered
  <2> QED BY <1>1, <1>3, <2>1, <2>2 DEF TypeOK, Shutdown
<1>4. CASE \E d \in Captures :
             \/ StartFails(d) \/ Fork(d) \/ Exit(d) \/ WriteOutput(d)
             \/ ReadChunk(d) \/ WriteDone(d) \/ WriteFails(d)
             \/ Stall(d) \/ Deadline(d) \/ KillSettle(d)
             \/ ExitEvent(d) \/ ExitKill(d) \/ ExitDrain(d) \/ CloseEvent(d)
  <2>1. PICK d \in Captures : up /\ (Kill(d) \/ Release(d))
    BY <1>4, Asked
  <2>2. Handled(d)
    BY <1>1, <2>1, KillHandled DEF GroupInv
  <2>3. c = d /\ Owns(c) /\ c \notin unregistered
    BY <2>2 DEF Handled
  <2>4. proc[c].pid \in Pids \cup {None}
    BY <1>1, <2>3 DEF TypeOK, Procs
  <2> QED BY <2>1, <2>3, <2>4 DEF Owns
<1> QED BY <1>2, <1>3, <1>4 DEF Next

(* A signal never reaches the live group of another capture, although a    *)
(* number is reused as soon as its group is gone: trackProcessGroup's      *)
(* ownership check and unregister's suffice, for kill, release and the     *)
(* shutdown handlers.                                                      *)
THEOREM OwnGroup == Spec => SignalsOwnGroup
<1>1. ASSUME IInv, [Next]_vars
      PROVE  [\A c \in signalled', d \in Captures : proc[d].pid = proc[c].pid /\ Lives(d) => d = c]_vars
  <2>1. CASE Next
    <3> SUFFICES ASSUME NEW c \in signalled', NEW d \in Captures,
                        proc[d].pid = proc[c].pid, Lives(d)
                 PROVE  d = c
      OBVIOUS
    <3>1. c \in Captures /\ proc[c].pid \in Pids /\ registry[proc[c].pid] = c
      BY <1>1, <2>1, Signallers
    <3>2. Registered /\ c # None
      BY <1>1, <3>1, CaptureAssumption DEF IInv, GroupInv
    <3> QED BY <3>1, <3>2 DEF Registered
  <2>2. CASE UNCHANGED vars
    BY <2>2
  <2> QED BY <1>1, <2>1, <2>2
<1> QED BY <1>1, Inductive, PTL DEF Spec, SignalsOwnGroup

(* After a signal that landed, and once its promise is settled, a capture  *)
(* sends no signal on any path: its tracker has let go of the number.      *)
THEOREM SignalledOnce == Spec => NeverSignalledAgain
<1>1. ASSUME IInv, [Next]_vars
      PROVE  [signalled' \cap (landed \cup {c \in Captures : cap[c].settled # "no"}) = {}]_vars
  <2>1. CASE Next
    <3> SUFFICES ASSUME NEW c \in signalled'
                 PROVE  c \notin landed /\ (c \in Captures => cap[c].settled = "no")
      OBVIOUS
    <3>1. c \in Captures /\ up /\ c \notin unregistered
      BY <1>1, <2>1, Signallers
    <3>2. Tracked /\ CaptureInv
      BY <1>1 DEF IInv, GroupInv
    <3> QED BY <3>1, <3>2 DEF Tracked, CaptureInv
  <2>2. CASE UNCHANGED vars
    BY <2>2
  <2> QED BY <1>1, <2>1, <2>2
<1> QED BY <1>1, Inductive, PTL DEF Spec, NeverSignalledAgain

-----------------------------------------------------------------------------
(* What the authority leaves behind. *)

(* No process of a leaf's group outlives the capture or the authority,     *)
(* unless the system refused to signal it: the tracker that settles lets   *)
(* go of the group only after the signal, and a shutdown signals every     *)
(* number that is still registered.                                        *)
THEOREM Orphans == Spec => []NoOrphans
<1>1. IInv => NoOrphans
  <2> SUFFICES ASSUME IInv, NEW c \in Captures,
                      ~up \/ cap[c].settled # "no", c \notin denied
               PROVE  ~Lives(c)
    BY DEF NoOrphans
  <2>1. Tracked /\ CaptureInv
    BY DEF IInv, GroupInv
  <2> QED BY <2>1 DEF Tracked, CaptureInv
<1> QED BY <1>1, Inductive, PTL

(* A capture that resolves has lost nothing its leaf wrote: whatever order *)
(* the exit, the close, the two graces, the deadline and the transcript's  *)
(* writes come in, pipes are only destroyed empty or after a failure was   *)
(* recorded, and the promise only resolves when the write chain is empty.  *)
THEOREM Complete == Spec => []NothingDiscarded
<1>1. IInv => NothingDiscarded
  <2> SUFFICES ASSUME IInv, NEW c \in Captures, cap[c].settled = "resolved"
               PROVE  /\ ~pipe[c].lost /\ pipe[c].buffered + pipe[c].pending = 0
                      /\ cap[c].failure = {}
    BY DEF NothingDiscarded
  <2>1. PipeFits(pipe[c]) /\ CaptureFits(pipe[c], cap[c])
    BY AtCapture
  <2> QED BY <2>1 DEF PipeFits, CaptureFits
<1> QED BY <1>1, Inductive, PTL
=============================================================================
