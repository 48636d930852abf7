-------------------------- MODULE ScratchOwnership --------------------------
(* The life of a test scratch directory: scripts/test-scratch/ownership.ts,   *)
(* run-command.ts and sandbox-child.ts.                                       *)
(*                                                                            *)
(* An owner process allocates a private run-* directory, launches one command *)
(* in it, stops the command's process groups and removes the directory.  The  *)
(* owner may be killed at any point; later invocations run recovery passes    *)
(* over the parent directory and remove what provably nobody uses any more.   *)
(* A root stands for its owner, its directory (device, inode and nonce        *)
(* identify one directory for ever), its quarantine and its cleanup journal.  *)
(*                                                                            *)
(* A process is its process group.  "published" and "command" are the states  *)
(* of the sidecar's own group after it wrote .sandbox-child-group; before     *)
(* that ("starting") nothing on disk names its group.  Reuse of a process id  *)
(* is left out: it can only make a probe answer "live".                       *)
EXTENDS Naturals, FiniteSets

CONSTANTS Roots,          \* one scratch directory, and its owner process, each
          Passes,         \* processes that run recoverStaleScratch
          Foreign,        \* passes in a PID namespace other than the owners'
          MaxFaults,      \* bound: crashes, failed calls and external kills
          MaxReboots      \* bound: reboots of the host

ASSUME ScratchAssumption == /\ Roots # {}
                            /\ Foreign \subseteq Passes
                            /\ Roots \cap Passes = {}
                            /\ MaxFaults \in Nat
                            /\ MaxReboots \in Nat

VARIABLES
    where,      \* the directory: "none", "run" (at its root path), "quarantine", "gone"
    files,      \* the lifecycle files in it
    marker,     \* the state its marker file records
    journal,    \* the parent-side cleanup journal: "none", "empty", or its marker's state
    old,        \* is the marker past RECOVERY_GRACE_MS?
    rebooted,   \* has the host booted again since the marker was written?
    boxed,      \* does the command run in the sandbox (TEST_SANDBOX_DISABLE unset)?
    sandbox,    \* the group the owner spawned
    sidecar,    \* the group of its own in which the sandbox runs the command
    owner,      \* what the owner process is doing
    signalled,  \* firstSignal: a SIGINT or SIGTERM is latched
    stop,       \* the two shutdowns: started by a signal, started after close
    job,        \* a cleanup in progress, of an owner or of a pass
    misread,    \* has a signal's shutdown taken a killed sandbox for one without a
                \* command? (history)
    faults, reboots

dirVars   == <<where, files, marker, journal>>
procVars  == <<sandbox, sidecar>>
ownVars   == <<owner, signalled, stop>>
pastVars == <<old, rebooted, reboots, misread>>
vars == <<dirVars, pastVars, boxed, procVars, ownVars, job, faults>>

Cleaners == Roots \cup Passes
MarkerState == {"allocated", "launching", "running"}
OwnerState == {"start", "made", "allocated", "launching", "intent", "spawned", "running",
               "stopping", "abandoning", "cleanup", "exited"}
StopState == {"idle", "poll", "gone", "published", "box_ok", "box_bad", "stopped", "unstopped"}
Step == {"idle", "verify", "open", "write", "rename", "remove", "unjournal"}

NoJob(r) == [at |-> "idle", root |-> r, via |-> "run", saw |-> "allocated"]
NoStop == [signal |-> "idle", close |-> "idle"]

TypeOK ==
    /\ where \in [Roots -> {"none", "run", "quarantine", "gone"}]
    /\ files \in [Roots -> SUBSET {"marker", "intent", "group"}]
    /\ marker \in [Roots -> MarkerState]
    /\ journal \in [Roots -> {"none", "empty", "allocated", "running"}]
    /\ old \in [Roots -> BOOLEAN] /\ rebooted \in [Roots -> BOOLEAN]
    /\ misread \in [Roots -> BOOLEAN]
    /\ boxed \in [Roots -> BOOLEAN]
    /\ sandbox \in [Roots -> {"none", "alive", "exited", "killed"}]
    /\ sidecar \in [Roots -> {"none", "starting", "published", "command", "gone"}]
    /\ owner \in [Roots -> OwnerState]
    /\ signalled \in [Roots -> BOOLEAN]
    /\ stop \in [Roots -> [signal : StopState, close : StopState]]
    /\ job \in [Cleaners -> [at : Step, root : Roots, via : {"run", "journal", "quarantine"},
                             saw : {"allocated", "running"}]]
    /\ faults \in 0..MaxFaults /\ reboots \in 0..MaxReboots

Init ==
    /\ where = [r \in Roots |-> "none"] /\ files = [r \in Roots |-> {}]
    /\ marker = [r \in Roots |-> "allocated"] /\ journal = [r \in Roots |-> "none"]
    /\ old = [r \in Roots |-> FALSE] /\ rebooted = [r \in Roots |-> FALSE]
    /\ boxed \in [Roots -> BOOLEAN]
    /\ sandbox = [r \in Roots |-> "none"] /\ sidecar = [r \in Roots |-> "none"]
    /\ owner = [r \in Roots |-> "start"] /\ signalled = [r \in Roots |-> FALSE]
    /\ stop = [r \in Roots |-> NoStop]
    /\ job = [c \in Cleaners |-> NoJob(IF c \in Roots THEN c ELSE CHOOSE r \in Roots : TRUE)]
    /\ misread = [r \in Roots |-> FALSE]
    /\ faults = 0 /\ reboots = 0

OwnerAlive(r) == owner[r] \notin {"start", "exited"}

(* A command runs, or a process that has published its group is about to      *)
(* start it.                                                                  *)
CommandLive(r) == IF boxed[r] THEN sidecar[r] \in {"published", "command"}
                              ELSE sandbox[r] = "alive"

-----------------------------------------------------------------------------
(* What a process can prove about another one.                                *)

Fault == /\ faults < MaxFaults
         /\ faults' = faults + 1

(* kill(-pgid, 0) answers ESRCH.  A process of another PID namespace sees no  *)
(* member of the group, live or not.                                          *)
groupAbsent(c, r) == c \in Foreign \/ sandbox[r] # "alive"
publishedAbsent(c, r) == c \in Foreign \/ sidecar[r] \notin {"published", "command"}

(* Mutant: the PID is probed in whatever namespace the pass runs.             *)
ownerAbsence_anyNamespace(c, r) == c \in Foreign \/ owner[r] = "exited"

(* In the owner's PID namespace its PID is probed; in another one only a      *)
(* different boot proves that it died.                                        *)
ownerAbsence(c, r) == IF c \in Foreign THEN rebooted[r] ELSE owner[r] = "exited"

(* No reason to retain: the published group is absent, or none was published  *)
(* and no launch is pending.  The owner passes bootDiffers = false.           *)
sandboxGroupReason(c, r) ==
    IF "group" \in files[r]
    THEN publishedAbsent(c, r)
    ELSE "intent" \notin files[r] \/ (c \in Passes /\ rebooted[r])

(* No reason to retain a directory whose marker says m and whose owner is     *)
(* absent; "launching" is always retained (launch-unknown).                   *)
recoveryStateReason(c, r, m) ==
    \/ m = "allocated"
    \/ m = "running" /\ groupAbsent(c, r) /\ sandboxGroupReason(c, r)

-----------------------------------------------------------------------------
(* quarantineAndRemove and the recovery of what an earlier one left behind.   *)
(* The owner (c = r) and the passes run the same steps.                       *)

Goto(c, step) == job' = [job EXCEPT ![c].at = step]

(* The directory is gone, or the call failed: the pass goes on to its next    *)
(* entry, the owner exits.                                                    *)
Finish(c) == /\ job' = [job EXCEPT ![c] = NoJob(@.root)]
             /\ owner' = [r \in Roots |-> IF r = c THEN "exited" ELSE owner[r]]
             /\ stop' = [r \in Roots |-> IF r = c THEN NoStop ELSE stop[r]]
             /\ UNCHANGED signalled

(* The identity check, the marker, the group proofs and the marker read again *)
(* by createCleanupJournal, which refuses "launching".  Between these reads   *)
(* the marker cannot change: its writer is c itself or dead.                  *)
Verify(c) ==
    LET r == job[c].root IN
    /\ job[c].at = "verify"
    /\ \/ /\ where[r] = "run" /\ "marker" \in files[r] /\ marker[r] # "launching"
          /\ marker[r] = "running" => groupAbsent(c, r) /\ sandboxGroupReason(c, r)
          /\ job' = [job EXCEPT ![c].at = "open", ![c].saw = marker[r]]
          /\ UNCHANGED ownVars
       \/ /\ \/ where[r] # "run" \/ "marker" \notin files[r] \/ marker[r] = "launching"
             \/ marker[r] = "running" /\ ~(groupAbsent(c, r) /\ sandboxGroupReason(c, r))
          /\ Finish(c)
    /\ UNCHANGED <<dirVars, pastVars, boxed, procVars, faults>>

(* Mutant: the directory is moved before the journal has its contents.        *)
OpenJournal_renameFirst(c) ==
    /\ job[c].at = "open" /\ journal[job[c].root] = "none"
    /\ journal' = [journal EXCEPT ![job[c].root] = "empty"]
    /\ Goto(c, "rename")
    /\ UNCHANGED <<ownVars, where, files, marker, pastVars, boxed, procVars, faults>>

(* writeExclusiveJson opens the journal with "wx": only one process succeeds. *)
OpenJournal(c) ==
    LET r == job[c].root IN
    /\ job[c].at = "open"
    /\ \/ journal[r] = "none" /\ journal' = [journal EXCEPT ![r] = "empty"]
          /\ Goto(c, "write") /\ UNCHANGED ownVars
       \/ journal[r] # "none" /\ Finish(c) /\ UNCHANGED journal
    /\ UNCHANGED <<where, files, marker, pastVars, boxed, procVars, faults>>

WriteJournal(c) ==
    /\ job[c].at = "write"
    /\ journal' = [journal EXCEPT ![job[c].root] = job[c].saw]
    /\ Goto(c, "rename")
    /\ UNCHANGED <<where, files, marker, pastVars, boxed, procVars, ownVars, faults>>

(* requireAbsent(quarantine) and rename(root, quarantine).                    *)
RenameRoot(c) ==
    LET r == job[c].root IN
    /\ job[c].at = "rename"
    /\ \/ where[r] = "run" /\ where' = [where EXCEPT ![r] = "quarantine"]
          /\ Goto(c, "remove") /\ UNCHANGED ownVars
       \/ where[r] # "run" /\ Finish(c) /\ UNCHANGED where
    /\ UNCHANGED <<files, marker, journal, pastVars, boxed, procVars, faults>>

(* rm(quarantine, { recursive: true }) removes the entries one by one, in an  *)
(* order of its own, and the directory last.                                  *)
RemoveEntry(c) ==
    LET r == job[c].root IN
    /\ job[c].at = "remove" /\ where[r] = "quarantine"
    /\ \E f \in files[r] : files' = [files EXCEPT ![r] = @ \ {f}]
    /\ UNCHANGED <<where, marker, journal, pastVars, boxed, procVars, ownVars, job, faults>>

(* recoverCompatibleQuarantine leaves the journal to recoverJournal.          *)
RemoveDirectory(c) ==
    LET r == job[c].root IN
    /\ job[c].at = "remove" /\ where[r] = "quarantine" /\ files[r] = {}
    /\ where' = [where EXCEPT ![r] = "gone"]
    /\ \/ job[c].via # "quarantine" /\ Goto(c, "unjournal") /\ UNCHANGED ownVars
       \/ job[c].via = "quarantine" /\ Finish(c)
    /\ UNCHANGED <<files, marker, journal, pastVars, boxed, procVars, faults>>

(* Somebody else removed the directory: the identity check throws, or rm met  *)
(* no entry and succeeds.                                                     *)
RemovalLost(c) ==
    /\ job[c].at = "remove" /\ where[job[c].root] = "gone"
    /\ \/ Finish(c)
       \/ job[c].via # "quarantine" /\ Goto(c, "unjournal") /\ UNCHANGED ownVars
    /\ UNCHANGED <<dirVars, pastVars, boxed, procVars, faults>>

(* removeJournalWhenTargetAbsent: unlinks only when neither path exists.      *)
RemoveJournal(c) ==
    LET r == job[c].root IN
    /\ job[c].at = "unjournal"
    /\ journal' = [journal EXCEPT ![r] = IF where[r] \in {"run", "quarantine"} THEN @ ELSE "none"]
    /\ Finish(c)
    /\ UNCHANGED <<where, files, marker, pastVars, boxed, procVars, faults>>

(* A call of the cleanup fails, the recovery budget is exhausted, or the pass *)
(* is killed: everything stays as it is on disk.                              *)
GiveUp(c) ==
    /\ job[c].at # "idle"
    /\ Fault
    /\ Finish(c)
    /\ UNCHANGED <<dirVars, pastVars, boxed, procVars>>

CleanerStep(c) ==
    \/ Verify(c) \/ OpenJournal(c) \/ WriteJournal(c) \/ RenameRoot(c)
    \/ RemoveEntry(c) \/ RemoveDirectory(c) \/ RemovalLost(c) \/ RemoveJournal(c)

-----------------------------------------------------------------------------
(* recoverStaleScratch inspects one entry of the parent directory.  An entry  *)
(* that is retained changes nothing.  The order of the entries is RecoveryScan.*)

Begin(p, r, how, step) ==
    /\ job' = [job EXCEPT ![p] = [at |-> step, root |-> r, via |-> how, saw |-> @.saw]]
    /\ UNCHANGED <<dirVars, pastVars, boxed, procVars, ownVars, faults>>

Idle(p) == job[p].at = "idle"

recoverRunCandidate(p, r) ==
    /\ Idle(p)
    /\ where[r] = "run" /\ "marker" \in files[r]
    /\ old[r] /\ ownerAbsence(p, r)
    /\ recoveryStateReason(p, r, marker[r])
    /\ Begin(p, r, "run", "verify")

(* Mutant: a journal whose directory is gone is nobody's work.                *)
recoverJournal_targetOnly(p, r) ==
    /\ Idle(p)
    /\ journal[r] \in {"allocated", "running"} /\ where[r] \in {"run", "quarantine"}
    /\ old[r] /\ ownerAbsence(p, r)
    /\ recoveryStateReason(p, r, journal[r])
    /\ Begin(p, r, "journal", IF where[r] = "run" THEN "rename" ELSE "remove")

(* A torn journal ("empty") is malformed and retained.                        *)
recoverJournal(p, r) ==
    /\ Idle(p)
    /\ journal[r] \in {"allocated", "running"}
    /\ old[r] /\ ownerAbsence(p, r)
    /\ recoveryStateReason(p, r, journal[r])
    /\ Begin(p, r, "journal",
             CASE where[r] = "run" -> "rename"
               [] where[r] = "quarantine" -> "remove"
               [] OTHER -> "unjournal")

recoverCompatibleQuarantine(p, r) ==
    /\ Idle(p)
    /\ where[r] = "quarantine" /\ "marker" \in files[r]
    /\ old[r] /\ ownerAbsence(p, r)
    /\ recoveryStateReason(p, r, marker[r])
    /\ Begin(p, r, "quarantine", "remove")

-----------------------------------------------------------------------------
(* The owner: runScratchCommand after its own recovery pass.                  *)

OwnerTo(r, state) == owner' = [owner EXCEPT ![r] = state]
Shutdown(r, w, state) == stop' = [stop EXCEPT ![r][w] = state]
NextOwner == UNCHANGED <<pastVars, boxed, faults>>

(* cleanupWithResult(ownership, result, true): enter quarantineAndRemove.     *)
StartCleanup(r) == /\ OwnerTo(r, "cleanup")
                   /\ job' = [job EXCEPT ![r].at = "verify"]

(* A signal latched before the allocation ends the run.                       *)
SignalBeforeAllocation(r) ==
    /\ owner[r] = "start" /\ signalled[r]
    /\ OwnerTo(r, "exited")
    /\ UNCHANGED <<dirVars, procVars, signalled, stop, job>> /\ NextOwner

(* allocateScratchOwnership: mkdtemp, then the marker, created exclusively.   *)
MakeRoot(r) ==
    /\ owner[r] = "start" /\ ~signalled[r]
    /\ where' = [where EXCEPT ![r] = "run"]
    /\ OwnerTo(r, "made")
    /\ UNCHANGED <<files, marker, journal, procVars, signalled, stop, job>> /\ NextOwner

WriteMarker(r) ==
    /\ owner[r] = "made"
    /\ files' = [files EXCEPT ![r] = {"marker"}]
    /\ OwnerTo(r, "allocated")
    /\ UNCHANGED <<where, marker, journal, procVars, signalled, stop, job>> /\ NextOwner

CleanupBeforeLaunch(r) ==
    /\ owner[r] = "allocated" /\ signalled[r]
    /\ StartCleanup(r)
    /\ UNCHANGED <<dirVars, procVars, signalled, stop>> /\ NextOwner

markScratchLaunching(r) ==
    /\ owner[r] = "allocated" /\ ~signalled[r]
    /\ marker' = [marker EXCEPT ![r] = "launching"]
    /\ OwnerTo(r, "launching")
    /\ UNCHANGED <<where, files, journal, procVars, signalled, stop, job>> /\ NextOwner

markScratchUnlaunched(r) ==
    /\ owner[r] = "launching" /\ signalled[r]
    /\ marker' = [marker EXCEPT ![r] = "allocated"]
    /\ StartCleanup(r)
    /\ UNCHANGED <<where, files, journal, procVars, signalled, stop>> /\ NextOwner

recordLaunchIntent(r) ==
    /\ owner[r] = "launching" /\ ~signalled[r]
    /\ files' = [files EXCEPT ![r] = IF boxed[r] THEN @ \cup {"intent"} ELSE @]
    /\ OwnerTo(r, "intent")
    /\ UNCHANGED <<where, marker, journal, procVars, signalled, stop, job>> /\ NextOwner

spawnOwnedCommand(r) ==
    /\ owner[r] = "intent"
    /\ sandbox' = [sandbox EXCEPT ![r] = "alive"]
    /\ OwnerTo(r, "spawned")
    /\ UNCHANGED <<dirVars, sidecar, signalled, stop, job>> /\ NextOwner

(* spawn returned no pid: the intent is cleared, the launch taken back.  With *)
(* a latched signal the root is left to recovery.                             *)
markSpawnFailed(r) ==
    /\ owner[r] = "intent"
    /\ Fault
    /\ files' = [files EXCEPT ![r] = @ \ {"intent"}]
    /\ marker' = [marker EXCEPT ![r] = "allocated"]
    /\ IF signalled[r] THEN OwnerTo(r, "exited") /\ UNCHANGED job ELSE StartCleanup(r)
    /\ UNCHANGED <<where, journal, procVars, signalled, stop, pastVars, boxed>>

(* A write of the launch fails, before or after it took effect; cleanup then  *)
(* meets whatever is on disk.                                                 *)
LaunchFails(r) ==
    /\ Fault
    /\ \/ /\ owner[r] = "allocated" /\ ~signalled[r]
          /\ \E m \in {"allocated", "launching"} : marker' = [marker EXCEPT ![r] = m]
          /\ UNCHANGED files
       \/ /\ owner[r] = "launching" /\ ~signalled[r]
          /\ \E f \in {{}, {"intent"}} : files' = [files EXCEPT ![r] = @ \cup f]
          /\ UNCHANGED marker
       \/ /\ owner[r] = "intent" /\ ~signalled[r]
          /\ UNCHANGED <<files, marker>>
    /\ StartCleanup(r)
    /\ UNCHANGED <<where, journal, procVars, signalled, stop, pastVars, boxed>>

(* A shutdown begins with the published group, if the command is sandboxed.   *)
FirstStop(r) == IF boxed[r] THEN "poll" ELSE "box_ok"

(* The running group becomes durable; a signal latched since takes effect.    *)
markScratchRunning(r) ==
    /\ owner[r] = "spawned"
    /\ marker' = [marker EXCEPT ![r] = "running"]
    /\ OwnerTo(r, "running")
    /\ IF signalled[r] THEN Shutdown(r, "signal", FirstStop(r)) ELSE UNCHANGED stop
    /\ UNCHANGED <<where, files, journal, procVars, signalled, job>> /\ NextOwner

(* It fails: the groups are stopped, and the root is retained.                *)
RunningFails(r) ==
    /\ owner[r] = "spawned"
    /\ Fault
    /\ \E m \in {"launching", "running"} : marker' = [marker EXCEPT ![r] = m]
    /\ OwnerTo(r, "abandoning")
    /\ Shutdown(r, "close", FirstStop(r))
    /\ UNCHANGED <<where, files, journal, procVars, signalled, job, pastVars, boxed>>

(* The child's close event; stopTrackedGroup joins a shutdown that a signal   *)
(* already started.                                                           *)
ChildCloses(r) ==
    /\ owner[r] = "running" /\ sandbox[r] \in {"exited", "killed"}
    /\ OwnerTo(r, "stopping")
    /\ IF stop[r].signal = "idle" THEN Shutdown(r, "close", FirstStop(r)) ELSE UNCHANGED stop
    /\ UNCHANGED <<dirVars, procVars, signalled, job>> /\ NextOwner

-----------------------------------------------------------------------------
(* A shutdown, w: the published group first, then the sandbox's.              *)

Stopping(r, w, states) == owner[r] # "exited" /\ stop[r][w] \in states
SameRun == UNCHANGED <<where, marker, journal, owner, signalled, job, old, rebooted, reboots,
                       boxed, faults>>
NextStop == SameRun /\ UNCHANGED misread

(* Mutant: a child that closed with a signal counts as one that exited.       *)
sandboxKilled_ignoresStatus(r, w) == w = "close" /\ owner[r] = "abandoning"

(* sandboxKilled as the two callers of stopPublishedGroup pass it.            *)
sandboxKilled(r, w) == /\ w = "close"
                       /\ owner[r] = "abandoning" \/ sandbox[r] = "killed"

(* publishedSandboxGroup observes the sandbox before it reads the file.       *)
ObserveSandboxGone(r, w) ==
    /\ Stopping(r, w, {"poll"}) /\ sandbox[r] # "alive"
    /\ Shutdown(r, w, "gone")
    /\ UNCHANGED <<files, procVars>> /\ NextStop

ReadPublished(r, w) ==
    /\ Stopping(r, w, {"poll", "gone"})
    /\ where[r] = "run" /\ "group" \in files[r]
    /\ Shutdown(r, w, "published")
    /\ UNCHANGED <<files, procVars>> /\ NextStop

(* Nothing published and the sandbox is gone: unknown when it was killed,     *)
(* else no command exists and clearSandboxLaunchIntent makes that durable.  A *)
(* signal's shutdown does not ask whether it was killed.                      *)
NothingPublished(r, w) ==
    /\ Stopping(r, w, {"gone"})
    /\ ~(where[r] = "run" /\ "group" \in files[r])
    /\ IF sandboxKilled(r, w) \/ where[r] # "run"
       THEN Shutdown(r, w, "box_bad") /\ UNCHANGED <<files, misread>>
       ELSE /\ Shutdown(r, w, "box_ok")
            /\ files' = [files EXCEPT ![r] = @ \ {"intent"}]
            /\ misread' = [misread EXCEPT ![r] = @ \/ (w = "signal" /\ sandbox[r] = "killed")]
    /\ UNCHANGED procVars /\ SameRun

(* The grace period ends with nothing published.                              *)
PollExpires(r, w) ==
    /\ Stopping(r, w, {"poll"})
    /\ Shutdown(r, w, "box_bad")
    /\ UNCHANGED <<files, procVars>> /\ NextStop

(* terminateRemainingGroup on the sidecar's group: it ends, or cannot be      *)
(* proven stopped.                                                            *)
StopPublished(r, w) ==
    /\ Stopping(r, w, {"published"})
    /\ \/ /\ sidecar' = [sidecar EXCEPT ![r] = "gone"]
          /\ Shutdown(r, w, "box_ok")
       \/ /\ sidecar[r] # "gone"
          /\ Shutdown(r, w, "box_bad") /\ UNCHANGED sidecar
    /\ UNCHANGED <<files, sandbox>> /\ NextStop

(* The same on the sandbox's own group.                                       *)
StopSandbox(r, w) ==
    /\ Stopping(r, w, {"box_ok", "box_bad"})
    /\ \/ /\ sandbox' = [sandbox EXCEPT ![r] = IF @ = "alive" THEN "killed" ELSE @]
          /\ Shutdown(r, w, IF stop[r][w] = "box_ok" THEN "stopped" ELSE "unstopped")
       \/ /\ sandbox[r] = "alive"
          /\ Shutdown(r, w, "unstopped") /\ UNCHANGED sandbox
    /\ UNCHANGED <<files, sidecar>> /\ NextStop

(* The owner has the verdict it waited for: it cleans up, or retains the root *)
(* (group-still-live).  An owner whose running marker failed never cleans up. *)
Verdict(r) == IF stop[r].close # "idle" THEN stop[r].close ELSE stop[r].signal

StopDone(r) ==
    /\ owner[r] \in {"stopping", "abandoning"} /\ Verdict(r) \in {"stopped", "unstopped"}
    /\ IF owner[r] = "stopping" /\ Verdict(r) = "stopped"
       THEN StartCleanup(r) /\ UNCHANGED stop
       ELSE OwnerTo(r, "exited") /\ stop' = [stop EXCEPT ![r] = NoStop] /\ UNCHANGED job
    /\ UNCHANGED <<dirVars, procVars, signalled>> /\ NextOwner

ShutdownStep(r) ==
    \/ \E w \in {"signal", "close"} :
         \/ ObserveSandboxGone(r, w) \/ ReadPublished(r, w) \/ NothingPublished(r, w)
         \/ PollExpires(r, w) \/ StopPublished(r, w) \/ StopSandbox(r, w)
    \/ StopDone(r)

OwnerStep(r) ==
    \/ SignalBeforeAllocation(r) \/ MakeRoot(r) \/ WriteMarker(r) \/ CleanupBeforeLaunch(r)
    \/ markScratchLaunching(r) \/ markScratchUnlaunched(r) \/ recordLaunchIntent(r)
    \/ spawnOwnedCommand(r) \/ markSpawnFailed(r) \/ LaunchFails(r)
    \/ markScratchRunning(r) \/ RunningFails(r) \/ ChildCloses(r)
    \/ ShutdownStep(r)

-----------------------------------------------------------------------------
(* The sandbox and its sidecar.                                               *)

SameOwner == UNCHANGED <<where, marker, journal, pastVars, boxed, ownVars, job>>

(* test-sandbox starts the sidecar in a session, and so a group, of its own.  *)
StartSidecar(r) ==
    /\ boxed[r] /\ sandbox[r] = "alive" /\ sidecar[r] = "none"
    /\ sidecar' = [sidecar EXCEPT ![r] = "starting"]
    /\ UNCHANGED <<files, sandbox, faults>> /\ SameOwner

(* The sidecar publishes its group at its path in the root, or fails and      *)
(* exits when the root is no longer there.                                    *)
PublishGroup(r) ==
    /\ sidecar[r] = "starting"
    /\ IF where[r] = "run"
       THEN /\ files' = [files EXCEPT ![r] = @ \cup {"group"}]
            /\ sidecar' = [sidecar EXCEPT ![r] = "published"]
       ELSE sidecar' = [sidecar EXCEPT ![r] = "gone"] /\ UNCHANGED files
    /\ UNCHANGED <<sandbox, faults>> /\ SameOwner

SpawnCommand(r) ==
    /\ sidecar[r] = "published"
    /\ sidecar' = [sidecar EXCEPT ![r] = "command"]
    /\ UNCHANGED <<files, sandbox, faults>> /\ SameOwner

SidecarEnds(r) ==
    /\ sidecar[r] \in {"starting", "published", "command"}
    /\ sidecar' = [sidecar EXCEPT ![r] = "gone"]
    /\ UNCHANGED <<files, sandbox, faults>> /\ SameOwner

(* The sandbox waits for its child, so it exits by itself only without one.   *)
SandboxExits(r) ==
    /\ sandbox[r] = "alive" /\ sidecar[r] \in {"none", "gone"}
    /\ sandbox' = [sandbox EXCEPT ![r] = "exited"]
    /\ UNCHANGED <<files, sidecar, faults>> /\ SameOwner

(* Somebody else kills the sandbox: the sidecar is in another group and lives.*)
SandboxKilled(r) ==
    /\ sandbox[r] = "alive"
    /\ Fault
    /\ sandbox' = [sandbox EXCEPT ![r] = "killed"]
    /\ UNCHANGED <<files, sidecar>> /\ SameOwner

ProcessStep(r) == \/ StartSidecar(r) \/ PublishGroup(r) \/ SpawnCommand(r)
                  \/ SidecarEnds(r) \/ SandboxExits(r) \/ SandboxKilled(r)

-----------------------------------------------------------------------------
(* forwardSignal: only the first signal counts; once the running group is     *)
(* active it starts a shutdown at once, whatever the owner is waiting for.    *)
Signal(r) ==
    /\ owner[r] # "exited" /\ ~signalled[r]
    /\ signalled' = [signalled EXCEPT ![r] = TRUE]
    /\ IF owner[r] \in {"running", "stopping", "cleanup"} /\ sandbox[r] # "none"
       THEN Shutdown(r, "signal", FirstStop(r))
       ELSE UNCHANGED stop
    /\ UNCHANGED <<dirVars, pastVars, boxed, procVars, owner, job, faults>>

(* The owner is killed, or a failed call ends it, with everything left as is. *)
OwnerKilled(r) ==
    /\ OwnerAlive(r)
    /\ Fault
    /\ OwnerTo(r, "exited")
    /\ stop' = [stop EXCEPT ![r] = NoStop]
    /\ job' = [job EXCEPT ![r] = NoJob(r)]
    /\ UNCHANGED <<dirVars, pastVars, boxed, procVars, signalled>>

Reboot ==
    /\ reboots < MaxReboots
    /\ reboots' = reboots + 1
    /\ rebooted' = [r \in Roots |-> rebooted[r] \/ where[r] # "none"]
    /\ owner' = [r \in Roots |-> IF OwnerAlive(r) THEN "exited" ELSE owner[r]]
    /\ sandbox' = [r \in Roots |-> IF sandbox[r] = "alive" THEN "killed" ELSE sandbox[r]]
    /\ sidecar' = [r \in Roots |-> IF sidecar[r] = "none" THEN "none" ELSE "gone"]
    /\ stop' = [r \in Roots |-> NoStop]
    /\ job' = [c \in Cleaners |-> NoJob(job[c].root)]
    /\ UNCHANGED <<dirVars, old, misread, boxed, signalled, faults>>

(* RECOVERY_GRACE_MS passes.                                                  *)
GrowOld(r) ==
    /\ where[r] # "none" /\ ~old[r]
    /\ old' = [old EXCEPT ![r] = TRUE]
    /\ UNCHANGED <<dirVars, rebooted, reboots, misread, boxed, procVars, ownVars, job, faults>>

Inspect(p, r) == recoverRunCandidate(p, r) \/ recoverJournal(p, r) \/ recoverCompatibleQuarantine(p, r)

Next ==
    \/ \E r \in Roots : OwnerStep(r) \/ ProcessStep(r) \/ Signal(r) \/ OwnerKilled(r) \/ GrowOld(r)
    \/ \E c \in Cleaners : CleanerStep(c) \/ GiveUp(c)
    \/ \E p \in Passes, r \in Roots : Inspect(p, r)
    \/ Reboot

(* Passes go on for ever and inspect every entry again and again (see         *)
(* RecoveryScan), time passes.  Nothing is assumed of owners and commands.    *)
Fairness ==
    /\ \A r \in Roots : WF_vars(GrowOld(r))
    /\ \A c \in Cleaners : WF_vars(CleanerStep(c))
    /\ \A p \in Passes, r \in Roots :
         /\ SF_vars(recoverRunCandidate(p, r))
         /\ SF_vars(recoverJournal(p, r))

Spec == Init /\ [][Next]_vars
FairSpec == Spec /\ Fairness

-----------------------------------------------------------------------------
(* A directory leaves its path only when no command runs in it and none can   *)
(* start in it, whoever moves it: its owner, or a pass that met it after the  *)
(* owner was killed at any point of the launch, of the shutdown or of its own *)
(* cleanup.  The code's account of this is the launch intent, the published   *)
(* group and the refusal of "launching".                                      *)
NoLiveRemoval ==
    \A r \in Roots : where[r] \in {"quarantine", "gone"} => ~CommandLive(r)

(* What is true of it: the one way into a directory that was moved is the     *)
(* misreading of run-command.ts:255, a signal's shutdown that met a sandbox   *)
(* killed from outside before its sidecar had published.  A kill at any other *)
(* point, a signal at any other point, both at once with the group published, *)
(* crashes, reboots and passes in any namespace leave nobody inside.          *)
LiveRemovalOnlyMisread ==
    \A r \in Roots : where[r] \in {"quarantine", "gone"} /\ CommandLive(r) => misread[r]

(* While its owner lives, nobody but the owner moves a directory; a pass in   *)
(* another PID namespace, where no probe can see the owner, included.         *)
NoTheft ==
    [][\A r \in Roots : where[r] = "run" /\ where'[r] # "run" /\ OwnerAlive(r)
          => job[r].at = "rename" /\ job'[r].at = "remove"]_vars

(* A directory that was moved is never without a complete journal, however    *)
(* many passes and its owner work on it at once: the embedded marker may be   *)
(* half deleted, so the journal is what lets a later pass finish.             *)
CapabilityKept ==
    \A r \in Roots : where[r] = "quarantine" => journal[r] \in {"allocated", "running"}

(* Why an entry may stay for ever: its marker was never written, the launch   *)
(* is unknown, its journal is torn, a group lives, or the launch intent       *)
(* outlived every record of the group and the host has not rebooted.          *)
Retained(r) ==
    \/ where[r] = "run" /\ ("marker" \notin files[r] \/ marker[r] = "launching")
    \/ journal[r] = "empty"
    \/ sandbox[r] = "alive" \/ CommandLive(r)
    \/ "intent" \in files[r] /\ "group" \notin files[r] /\ ~rebooted[r]

(* Every directory whose owner is gone is removed in the end, and its journal *)
(* with it, unless one of the reasons above holds for ever: no interruption   *)
(* of a cleanup and no race of two passes leaves a remainder that no pass     *)
(* takes up.                                                                  *)
Recovered(r) == where[r] \in {"none", "gone"} /\ journal[r] = "none"

StaleRootsRecovered ==
    \A r \in Roots : <>[](OwnerAlive(r) \/ Recovered(r) \/ Retained(r))

=============================================================================
