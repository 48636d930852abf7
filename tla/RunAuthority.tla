---------------------------- MODULE RunAuthority ----------------------------
(***************************************************************************)
(* The scheduler of the test-accounting authority: schedulePhases, runPool *)
(* and the closures of runAuthority in scripts/test-accounting/authority.ts*)
(*                                                                         *)
(* Runs execute in lanes over one shared checkout.  The authority is one   *)
(* event loop: between two I/O events every lane whose promise is settled  *)
(* goes on until it awaits something else, so a lane that is "ready" acts  *)
(* before anything else happens (Quiet).                                   *)
(*                                                                         *)
(* What is abstracted: the checkout is the set of the runs whose files are *)
(* lying in it, where git status would show them; the completion record    *)
(* and the receipt of a run are its membership in `sealed`.                *)
(***************************************************************************)
EXTENDS Naturals

CONSTANTS
  Runs,         \* the selected suite/profile runs
  Pos,          \* their places in the manifest
  Prepared,     \* the runs whose suite has a prepare step
  Concurrency,  \* PDPP_ACCOUNTING_SUITE_CONCURRENCY
  None

ASSUME RunAssumption ==
  /\ Pos \in [Runs -> Nat]
  /\ \A r, s \in Runs : Pos[r] = Pos[s] => r = s
  /\ Prepared \subseteq Runs
  /\ Concurrency \in Nat \ {0}
  /\ None \notin Runs

Lanes == 1..Concurrency

VARIABLES
  phase,      \* the phase of schedulePhases the pool is in, or "over"
  lane,       \* what each worker is doing
  current,    \* the run of each worker
  started,    \* the runs the pool has handed out
  unsealed,   \* completed runs awaiting judgement
  sealing,    \* runs whose records are being written
  sealed,     \* runs with a receipt
  suspect,    \* a run ended while the checkout was dirty
  stopped,    \* no further run is to start
  failure,    \* per lane, the failure that settle is to rethrow
  errors,     \* some worker's finishRun threw
  transient,  \* executing runs that have files in the checkout
  leftovers,  \* ended runs that left files in the checkout
  receipts    \* what runAuthority collects when the pool is over

checkout == <<transient, leftovers>>
vars == <<phase, lane, current, started, unsealed, sealing, sealed, suspect, stopped,
          failure, errors, transient, leftovers, receipts>>

TypeOK ==
  /\ phase \in {"shared", "exclusive", "over"}
  /\ lane \in [Lanes -> {"ready", "running", "waiting", "settling", "ended"}]
  /\ current \in [Lanes -> Runs \cup {None}]
  /\ started \subseteq Runs
  /\ unsealed \subseteq Runs /\ sealing \subseteq Runs /\ sealed \subseteq Runs
  /\ suspect \in BOOLEAN /\ stopped \in BOOLEAN /\ errors \in BOOLEAN
  /\ failure \in [Lanes -> BOOLEAN]
  /\ transient \subseteq Runs /\ leftovers \subseteq Runs
  /\ receipts \subseteq Runs

-----------------------------------------------------------------------------
(* Mutant: the exclusive phase is as wide as the shared one. *)
Width_shared(p) == Concurrency

(* schedulePhases: with one lane the manifest order is kept; otherwise the *)
(* runs with a prepare step wait for the others and then go one by one.    *)
PhaseRuns(p) ==
  IF Concurrency = 1
  THEN IF p = "shared" THEN Runs ELSE {}
  ELSE IF p = "shared" THEN Runs \ Prepared ELSE Prepared

Width(p) == IF p = "shared" THEN Concurrency ELSE 1

(* runPool starts one worker per unit of the limit. *)
Workers(p) == [l \in Lanes |-> IF l <= Width(p) THEN "ready" ELSE "ended"]

Init ==
  /\ phase = "shared"
  /\ lane = Workers("shared")
  /\ current = [l \in Lanes |-> None]
  /\ started = {}
  /\ unsealed = {} /\ sealing = {} /\ sealed = {}
  /\ suspect = FALSE /\ stopped = FALSE /\ errors = FALSE
  /\ failure = [l \in Lanes |-> FALSE]
  /\ transient = {} /\ leftovers = {}
  /\ receipts = {}

Quiet == \A l \in Lanes : lane[l] # "ready"

InFlight(l) == lane[l] = "running"

Remaining == PhaseRuns(phase) \ started

-----------------------------------------------------------------------------
(* worker: take the next run of the phase, or end. *)
Take(l, r) ==
  /\ lane[l] = "ready" /\ ~errors /\ ~stopped
  /\ r \in Remaining /\ \A q \in Remaining : Pos[r] <= Pos[q]
  /\ lane' = [lane EXCEPT ![l] = "running"]
  /\ current' = [current EXCEPT ![l] = r]
  /\ started' = started \cup {r}
  /\ UNCHANGED <<phase, unsealed, sealing, sealed, suspect, stopped, failure, errors, checkout, receipts>>

WorkerEnds(l) ==
  /\ lane[l] = "ready"
  /\ errors \/ stopped \/ Remaining = {}
  /\ lane' = [lane EXCEPT ![l] = "ended"]
  /\ UNCHANGED <<phase, current, started, unsealed, sealing, sealed, suspect, stopped, failure, errors, checkout, receipts>>

(* A run that is executing writes files, or removes its own or the ones an *)
(* earlier run left behind.                                                *)
WriteFiles(l) ==
  /\ Quiet /\ InFlight(l)
  /\ transient' = transient \cup {current[l]}
  /\ UNCHANGED <<phase, lane, current, started, unsealed, sealing, sealed, suspect, stopped, failure, errors, leftovers, receipts>>

RemoveFiles(l) ==
  /\ Quiet /\ InFlight(l)
  /\ \/ transient' = transient \ {current[l]} /\ UNCHANGED leftovers
     \/ leftovers' = {} /\ UNCHANGED transient
  /\ UNCHANGED <<phase, lane, current, started, unsealed, sealing, sealed, suspect, stopped, failure, errors, receipts>>

-----------------------------------------------------------------------------
(* endRest: nobody is suspect any more, and whoever waited goes on. *)
Released(next) == [k \in Lanes |-> IF lane[k] = "waiting" THEN "ready" ELSE next[k]]

(* The checkout as the end of lane l's run leaves it. *)
FilesStay(l) ==
  /\ transient' = transient \ {current[l]}
  /\ leftovers' = leftovers \cup ({current[l]} \cap transient)

(* What awaits judgement once lane l's run has ended. *)
Completed(l, outcome) == unsealed \cup (IF outcome = "threw" THEN {} ELSE {current[l]})

Dirty == transient # {} \/ leftovers # {}

(* Mutant: a run that ends dirty does not hold its lane back. *)
EndsAmongOthers_unheld(l, outcome) ==
  /\ suspect' = (suspect \/ Dirty')
  /\ lane' = [lane EXCEPT ![l] = "ready"]
  /\ errors' = (errors \/ outcome = "threw")

(* finishRun, siblings still in flight: rethrow, wait for rest, or go on. *)
EndsAmongOthers(l, outcome) ==
  \/ /\ outcome = "threw"
     /\ errors' = TRUE
     /\ lane' = [lane EXCEPT ![l] = "ready"]
     /\ UNCHANGED suspect
  \/ /\ outcome # "threw"
     /\ suspect' = (suspect \/ Dirty')
     /\ lane' = [lane EXCEPT ![l] = IF suspect' THEN "waiting" ELSE "ready"]
     /\ UNCHANGED errors

(* finishRun: the run has passed, failed or thrown, and siblings remain. *)
EndRun(l, outcome) ==
  /\ Quiet /\ InFlight(l)
  /\ \E k \in Lanes \ {l} : InFlight(k)
  /\ FilesStay(l)
  /\ current' = [current EXCEPT ![l] = None]
  /\ unsealed' = Completed(l, outcome)
  /\ stopped' = (stopped \/ outcome # "passed")
  /\ EndsAmongOthers(l, outcome)
  /\ UNCHANGED <<phase, started, sealing, sealed, failure, receipts>>

(* Mutant: a dirty checkout fails the gate and wakes nobody. *)
JudgedDirty_asleep(l) ==
  /\ stopped' = TRUE /\ errors' = TRUE /\ suspect' = FALSE
  /\ lane' = [lane EXCEPT ![l] = "ready"]
  /\ UNCHANGED <<sealing, failure>>

(* settle, the checkout is dirty at rest: nothing is sealed. *)
JudgedDirty(l) ==
  /\ stopped' = TRUE /\ errors' = TRUE /\ suspect' = FALSE
  /\ lane' = Released([lane EXCEPT ![l] = "ready"])
  /\ UNCHANGED <<sealing, failure>>

(* Mutant: the checkout is judged at rest, and sealed either way. *)
Settle_unjudged(l, completed, outcome) ==
  /\ unsealed' = {}
  /\ sealing' = sealing \cup completed
  /\ failure' = [failure EXCEPT ![l] = outcome = "threw" \/ Dirty']
  /\ stopped' = (stopped \/ outcome # "passed" \/ Dirty')
  /\ lane' = [lane EXCEPT ![l] = "settling"]
  /\ UNCHANGED <<suspect, errors>>

(* settle up to its first await. *)
Settle(l, completed, outcome) ==
  \/ /\ Dirty'
     /\ unsealed' = completed
     /\ JudgedDirty(l)
  \/ /\ ~Dirty'
     /\ unsealed' = {}
     /\ sealing' = sealing \cup completed
     /\ failure' = [failure EXCEPT ![l] = outcome = "threw"]
     /\ stopped' = (stopped \/ outcome # "passed")
     /\ lane' = [lane EXCEPT ![l] = "settling"]
     /\ UNCHANGED <<suspect, errors>>

(* Mutant: a last run that throws leaves without settling. *)
LastRunEnds_throws(l, outcome) ==
  /\ Quiet /\ InFlight(l)
  /\ \A k \in Lanes \ {l} : ~InFlight(k)
  /\ FilesStay(l)
  /\ current' = [current EXCEPT ![l] = None]
  /\ \/ outcome # "threw" /\ Settle(l, Completed(l, outcome), outcome)
     \/ outcome = "threw" /\ JudgedDirty(l) /\ UNCHANGED unsealed
  /\ UNCHANGED <<phase, started, sealed, receipts>>

(* finishRun, the last run to leave judges the checkout and seals all that *)
(* completed.                                                              *)
LastRunEnds(l, outcome) ==
  /\ Quiet /\ InFlight(l)
  /\ \A k \in Lanes \ {l} : ~InFlight(k)
  /\ FilesStay(l)
  /\ current' = [current EXCEPT ![l] = None]
  /\ Settle(l, Completed(l, outcome), outcome)
  /\ UNCHANGED <<phase, started, sealed, receipts>>

(* sealRun: transcript digest, completion record, receipt. *)
SealRun(r) ==
  /\ Quiet /\ r \in sealing
  /\ sealing' = sealing \ {r}
  /\ sealed' = sealed \cup {r}
  /\ UNCHANGED <<phase, lane, current, started, unsealed, suspect, stopped, failure, errors, checkout, receipts>>

(* One sealRun fails: settle rejects at once, the others write on. *)
SealFails(l, r) ==
  /\ Quiet /\ lane[l] = "settling" /\ r \in sealing
  /\ sealing' = sealing \ {r}
  /\ stopped' = TRUE /\ errors' = TRUE /\ suspect' = FALSE
  /\ lane' = Released([lane EXCEPT ![l] = "ready"])
  /\ UNCHANGED <<phase, current, started, unsealed, sealed, failure, checkout, receipts>>

(* settle is complete. *)
Settled(l) ==
  /\ Quiet /\ lane[l] = "settling" /\ sealing = {}
  /\ suspect' = FALSE
  /\ errors' = (errors \/ failure[l])
  /\ failure' = [failure EXCEPT ![l] = FALSE]
  /\ lane' = Released([lane EXCEPT ![l] = "ready"])
  /\ UNCHANGED <<phase, current, started, unsealed, sealing, sealed, stopped, checkout, receipts>>

(* Promise.all of the workers: the next phase, or the end of the pool. *)
NextPhase ==
  /\ \A l \in Lanes : lane[l] = "ended"
  /\ phase = "shared" /\ ~errors
  /\ phase' = "exclusive"
  /\ lane' = Workers("exclusive")
  /\ UNCHANGED <<current, started, unsealed, sealing, sealed, suspect, stopped, failure, errors, checkout, receipts>>

(* Mutant: the exclusive phase is not waited for. *)
PoolIsOver_early ==
  /\ \A l \in Lanes : lane[l] = "ended"
  /\ phase # "over"
  /\ phase' = "over"
  /\ receipts' = sealed
  /\ UNCHANGED <<lane, current, started, unsealed, sealing, sealed, suspect, stopped, failure, errors, checkout>>

PoolIsOver ==
  /\ \A l \in Lanes : lane[l] = "ended"
  /\ phase = "exclusive" \/ (phase = "shared" /\ errors)
  /\ phase' = "over"
  /\ receipts' = sealed
  /\ UNCHANGED <<lane, current, started, unsealed, sealing, sealed, suspect, stopped, failure, errors, checkout>>

Outcomes == {"passed", "failed", "threw"}

Next ==
  \/ \E l \in Lanes, r \in Runs : Take(l, r)
  \/ \E l \in Lanes : WorkerEnds(l) \/ WriteFiles(l) \/ RemoveFiles(l) \/ Settled(l)
  \/ \E l \in Lanes, outcome \in Outcomes : EndRun(l, outcome) \/ LastRunEnds(l, outcome)
  \/ \E r \in Runs : SealRun(r) \/ \E l \in Lanes : SealFails(l, r)
  \/ NextPhase
  \/ PoolIsOver

Spec == Init /\ [][Next]_vars

(* Each run ends (LEAF_DEADLINE_MS, PREPARE_DEADLINE_MS), writes to disk   *)
(* complete, and the event loop goes on.                                   *)
Fairness ==
  /\ WF_vars(NextPhase) /\ WF_vars(PoolIsOver)
  /\ \A l \in Lanes :
       /\ WF_vars(WorkerEnds(l)) /\ WF_vars(Settled(l))
       /\ WF_vars(\E r \in Runs : Take(l, r))
       /\ WF_vars(\E outcome \in Outcomes : EndRun(l, outcome) \/ LastRunEnds(l, outcome))
  /\ \A r \in Runs : WF_vars(SealRun(r))

FairSpec == Spec /\ Fairness

-----------------------------------------------------------------------------
(* runAuthority, "Serial blame, kept under overlap": whatever a run leaves *)
(* in the checkout, no other run starts on top of it.                      *)
NoStartOverLeftovers == [][started' # started => leftovers = {}]_vars

(* settle: a run is sealed only when the checkout is judged clean at rest, *)
(* so no run with a receipt, or about to get one, has files lying around.  *)
SealedLeftNothing == (sealed \cup sealing) \cap leftovers = {}

(* schedulePhases, "Such suites therefore run alone, after every other run *)
(* has finished".                                                          *)
PreparedRunsAlone ==
  \A l, k \in Lanes : l # k /\ InFlight(l) /\ InFlight(k) => current[l] \notin Prepared

(* finishRun, "a throw never strands its completed siblings": once the     *)
(* pool is over, runs still await judgement only because the checkout was  *)
(* judged dirty, leftovers are in it to show for that, and the gate fails. *)
NeverStranded == phase = "over" /\ unsealed # {} => leftovers # {} /\ errors

(* verifyReceipts with requiredKeys: when no error was met and nothing     *)
(* stopped the pool, every selected run has its receipt.                   *)
GreenIsComplete == phase = "over" /\ ~errors /\ ~stopped => receipts = Runs

(* waitForRest: every lane that waits is released, and the pool ends.      *)
PoolEnds == <>(phase = "over")
=============================================================================
