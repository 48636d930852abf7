------------------------ MODULE ScratchOwnershipProofs ------------------------
(* Proofs about ScratchOwnership, for any number of scratch directories,      *)
(* recovery passes, PID namespaces, faults and reboots.                       *)
EXTENDS ScratchOwnership, TLAPS

-----------------------------------------------------------------------------
(* Types.                                                                     *)

Job == [at : Step, root : Roots, via : {"run", "journal", "quarantine"},
        saw : {"allocated", "running"}]

Files == SUBSET {"marker", "intent", "group"}

LEMMA NoJobType == \A r \in Roots : NoJob(r) \in Job
  BY DEF NoJob, Job, Step

LEMMA NoStopType == NoStop \in [signal : StopState, close : StopState]
  BY DEF NoStop, StopState

LEMMA InitType == Init => TypeOK
<1> SUFFICES ASSUME Init PROVE TypeOK
  OBVIOUS
<1>1. \A c \in Cleaners : NoJob(IF c \in Roots THEN c ELSE CHOOSE r \in Roots : TRUE) \in Job
  BY NoJobType, ScratchAssumption
<1>2. job \in [Cleaners -> Job]
  BY <1>1 DEF Init
<1>3. stop \in [Roots -> [signal : StopState, close : StopState]]
  BY NoStopType DEF Init
<1>4. faults \in 0..MaxFaults /\ reboots \in 0..MaxReboots
  BY ScratchAssumption DEF Init
<1> QED BY <1>2, <1>3, <1>4 DEF Init, TypeOK, Job, MarkerState, OwnerState

LEMMA FaultType == TypeOK /\ Fault => faults' \in 0..MaxFaults
  BY ScratchAssumption DEF TypeOK, Fault

LEMMA FinishType ==
  ASSUME TypeOK, NEW c \in Cleaners, Finish(c)
  PROVE  /\ job' \in [Cleaners -> Job]
         /\ owner' \in [Roots -> OwnerState]
         /\ stop' \in [Roots -> [signal : StopState, close : StopState]]
         /\ signalled' \in [Roots -> BOOLEAN]
<1>1. NoJob(job[c].root) \in Job
  BY NoJobType DEF TypeOK
<1>2. job' \in [Cleaners -> Job]
  BY <1>1 DEF TypeOK, Finish, Job
<1>3. stop' \in [Roots -> [signal : StopState, close : StopState]]
  BY NoStopType DEF TypeOK, Finish
<1> QED BY <1>2, <1>3 DEF TypeOK, Finish, OwnerState

LEMMA GotoType ==
  ASSUME TypeOK, NEW c \in Cleaners, NEW step \in Step, Goto(c, step)
  PROVE  job' \in [Cleaners -> Job]
<1>0. job[c] \in Job
  BY DEF TypeOK, Job
<1>1. [job[c] EXCEPT !.at = step] \in Job
  BY <1>0 DEF Job
<1> QED BY <1>1 DEF TypeOK, Goto, Job

(* A step of a cleanup goes on to another step or is the last.                *)
LEMMA GoOnType ==
  ASSUME TypeOK, NEW c \in Cleaners, NEW step \in Step,
         (Goto(c, step) /\ UNCHANGED ownVars) \/ Finish(c)
  PROVE  /\ job' \in [Cleaners -> Job]
         /\ owner' \in [Roots -> OwnerState]
         /\ stop' \in [Roots -> [signal : StopState, close : StopState]]
         /\ signalled' \in [Roots -> BOOLEAN]
<1>1. CASE Goto(c, step) /\ UNCHANGED ownVars
  BY <1>1, GotoType DEF TypeOK, ownVars
<1> QED BY <1>1, FinishType

(* What a directory may hold, whatever one step does to one directory. *)
LEMMA FilesType ==
  ASSUME TypeOK, NEW r \in Roots, NEW fs,
         fs \in {files[r], files[r] \ {"intent"}, files[r] \cup {"group"}},
         files' = files \/ files' = [files EXCEPT ![r] = fs]
  PROVE  files' \in [Roots -> SUBSET {"marker", "intent", "group"}]
<1> DEFINE S == SUBSET {"marker", "intent", "group"}
<1>1. files \in [Roots -> S]
  BY DEF TypeOK
<1>2. files[r] \in S
  BY <1>1
<1>3. fs \in S
  BY <1>2
<1> HIDE DEF S
<1>4. files' \in [Roots -> S]
  BY <1>1, <1>3
<1> QED BY <1>4 DEF S

LEMMA CleanerType ==
  ASSUME TypeOK, NEW c \in Cleaners, CleanerStep(c) \/ GiveUp(c)
  PROVE  TypeOK'
<1> USE DEF Job
<1>0. job[c] \in Job /\ job[c].root \in Roots /\ job[c].saw \in {"allocated", "running"}
  BY DEF TypeOK
<1>1. CASE Verify(c)
  <2>1. CASE Finish(c)
    BY <1>1, <2>1, FinishType DEF Verify, TypeOK, dirVars, pastVars, procVars
  <2>2. CASE ~Finish(c)
    <3>1. /\ marker[job[c].root] \in {"allocated", "running"}
          /\ job' = [job EXCEPT ![c].at = "open", ![c].saw = marker[job[c].root]]
          /\ UNCHANGED ownVars
      BY <1>0, <1>1, <2>2 DEF Verify, TypeOK, MarkerState
    <3>2. [job[c] EXCEPT !.at = "open", !.saw = marker[job[c].root]] \in Job
      BY <1>0, <3>1 DEF Step
    <3>3. job' \in [Cleaners -> Job]
      BY <3>1, <3>2 DEF TypeOK
    <3> QED BY <1>1, <3>1, <3>3 DEF Verify, TypeOK, dirVars, pastVars, procVars, ownVars
  <2> QED BY <2>1, <2>2
<1>2. CASE OpenJournal(c)
  <2>1. (Goto(c, "write") /\ UNCHANGED ownVars) \/ Finish(c)
    BY <1>2 DEF OpenJournal
  <2>2. "write" \in Step
    BY DEF Step
  <2> HIDE DEF Job
  <2> QED BY <1>0, <1>2, <2>1, <2>2, GoOnType DEF OpenJournal, TypeOK, Job, pastVars, procVars
<1>3. CASE WriteJournal(c)
  BY <1>0, <1>3 DEF WriteJournal, TypeOK, Goto, Step, pastVars, procVars, ownVars
<1>4. CASE RenameRoot(c)
  <2>1. (Goto(c, "remove") /\ UNCHANGED ownVars) \/ Finish(c)
    BY <1>4 DEF RenameRoot
  <2>2. "remove" \in Step
    BY DEF Step
  <2>3. where' \in [Roots -> {"none", "run", "quarantine", "gone"}]
    <3>1. where' = where \/ where' = [where EXCEPT ![job[c].root] = "quarantine"]
      BY <1>4 DEF RenameRoot
    <3> QED BY <3>1 DEF TypeOK
  <2>4. UNCHANGED <<files, marker, journal, pastVars, boxed, procVars, faults>>
    BY <1>4 DEF RenameRoot
  <2> HIDE DEF Job
  <2>5. /\ job' \in [Cleaners -> Job] /\ owner' \in [Roots -> OwnerState]
        /\ stop' \in [Roots -> [signal : StopState, close : StopState]]
        /\ signalled' \in [Roots -> BOOLEAN]
    BY <2>1, <2>2, GoOnType
  <2> QED BY <2>3, <2>4, <2>5 DEF TypeOK, Job, pastVars, procVars
<1>5. CASE RemoveEntry(c)
  BY <1>0, <1>5 DEF RemoveEntry, TypeOK, pastVars, procVars, ownVars
<1>6. CASE RemoveDirectory(c)
  <2>1. (Goto(c, "unjournal") /\ UNCHANGED ownVars) \/ Finish(c)
    BY <1>6 DEF RemoveDirectory
  <2>2. "unjournal" \in Step
    BY DEF Step
  <2> HIDE DEF Job
  <2> QED BY <1>0, <1>6, <2>1, <2>2, GoOnType DEF RemoveDirectory, TypeOK, Job, pastVars, procVars
<1>7. CASE RemovalLost(c)
  <2>1. (Goto(c, "unjournal") /\ UNCHANGED ownVars) \/ Finish(c)
    BY <1>7 DEF RemovalLost
  <2>2. "unjournal" \in Step
    BY DEF Step
  <2> HIDE DEF Job
  <2> QED BY <1>0, <1>7, <2>1, <2>2, GoOnType DEF RemovalLost, dirVars, TypeOK, Job, pastVars, procVars
<1>8. CASE RemoveJournal(c)
  BY <1>0, <1>8, FinishType DEF RemoveJournal, TypeOK, pastVars, procVars
<1>9. CASE GiveUp(c)
  BY <1>0, <1>9, FinishType, FaultType DEF GiveUp, TypeOK, dirVars, pastVars, procVars
<1> QED BY <1>1, <1>2, <1>3, <1>4, <1>5, <1>6, <1>7, <1>8, <1>9 DEF CleanerStep

LEMMA InspectType ==
  ASSUME TypeOK, NEW p \in Passes, NEW r \in Roots, Inspect(p, r)
  PROVE  TypeOK'
<1>1. PICK how \in {"run", "journal", "quarantine"}, step \in Step : Begin(p, r, how, step)
  BY DEF Inspect, recoverRunCandidate, recoverJournal, recoverCompatibleQuarantine, Step
<1> QED BY <1>1 DEF Begin, TypeOK, Cleaners, Job, dirVars, pastVars, procVars, ownVars

LEMMA ShutdownType ==
  ASSUME TypeOK, NEW r \in Roots, NEW w \in {"signal", "close"}, NEW state \in StopState,
         Shutdown(r, w, state)
  PROVE  stop' \in [Roots -> [signal : StopState, close : StopState]]
<1>1. stop[r] \in [signal : StopState, close : StopState]
  BY DEF TypeOK
<1>2. [stop[r] EXCEPT ![w] = state] \in [signal : StopState, close : StopState]
  BY <1>1
<1> QED BY <1>2 DEF TypeOK, Shutdown

LEMMA StartCleanupType ==
  ASSUME TypeOK, NEW r \in Roots, StartCleanup(r)
  PROVE  job' \in [Cleaners -> Job] /\ owner' \in [Roots -> OwnerState]
<1>1. r \in Cleaners /\ "verify" \in Step /\ "cleanup" \in OwnerState
  BY DEF Cleaners, Step, OwnerState
<1>2. Goto(r, "verify")
  BY DEF StartCleanup, Goto
<1> QED BY <1>1, <1>2, GotoType DEF StartCleanup, OwnerTo, TypeOK

LEMMA FirstStopType == \A r \in Roots : FirstStop(r) \in StopState
  BY DEF FirstStop, StopState

LEMMA OwnerType ==
  ASSUME TypeOK, NEW r \in Roots, OwnerStep(r)
  PROVE  TypeOK'
<1> USE DEF NextOwner, pastVars, procVars, dirVars
<1>1. CASE SignalBeforeAllocation(r)
  BY <1>1 DEF SignalBeforeAllocation, TypeOK, OwnerTo, OwnerState
<1>2. CASE MakeRoot(r)
  BY <1>2 DEF MakeRoot, TypeOK, OwnerTo, OwnerState
<1>3. CASE WriteMarker(r)
  BY <1>3 DEF WriteMarker, TypeOK, OwnerTo, OwnerState
<1>4. CASE CleanupBeforeLaunch(r)
  BY <1>4, StartCleanupType DEF CleanupBeforeLaunch, TypeOK, Job
<1>5. CASE markScratchLaunching(r)
  BY <1>5 DEF markScratchLaunching, TypeOK, OwnerTo, OwnerState, MarkerState
<1>6. CASE markScratchUnlaunched(r)
  BY <1>6, StartCleanupType DEF markScratchUnlaunched, TypeOK, Job, MarkerState
<1>7. CASE recordLaunchIntent(r)
  BY <1>7 DEF recordLaunchIntent, TypeOK, OwnerTo, OwnerState
<1>8. CASE spawnOwnedCommand(r)
  BY <1>8 DEF spawnOwnedCommand, TypeOK, OwnerTo, OwnerState
<1>9. CASE markSpawnFailed(r)
  <2>1. job' \in [Cleaners -> Job] /\ owner' \in [Roots -> OwnerState]
    <3>1. CASE OwnerTo(r, "exited") /\ UNCHANGED job
      BY <3>1 DEF TypeOK, Job, OwnerTo, OwnerState
    <3>2. CASE StartCleanup(r)
      BY <3>2, StartCleanupType
    <3> QED BY <1>9, <3>1, <3>2 DEF markSpawnFailed
  <2>2. files' \in [Roots -> SUBSET {"marker", "intent", "group"}]
    <3>1. files' = [files EXCEPT ![r] = files[r] \ {"intent"}]
      BY <1>9 DEF markSpawnFailed
    <3> QED BY <3>1, FilesType
  <2>3. marker' \in [Roots -> MarkerState] /\ faults' \in 0..MaxFaults
    BY <1>9, FaultType DEF markSpawnFailed, TypeOK, MarkerState
  <2>4. UNCHANGED <<where, journal, procVars, signalled, stop, pastVars, boxed>>
    BY <1>9 DEF markSpawnFailed
  <2> QED BY <2>1, <2>2, <2>3, <2>4 DEF TypeOK, Job
<1>10. CASE LaunchFails(r)
  <2>1. files' \in [Roots -> Files] /\ marker' \in [Roots -> MarkerState]
    <3>1. CASE \E m \in {"allocated", "launching"} : marker' = [marker EXCEPT ![r] = m] /\ UNCHANGED files
      BY <3>1 DEF TypeOK, MarkerState, Files
    <3>2. CASE \E f \in {{}, {"intent"}} : files' = [files EXCEPT ![r] = @ \cup f] /\ UNCHANGED marker
      <4>1. PICK f \in {{}, {"intent"}} : files' = [files EXCEPT ![r] = @ \cup f]
        BY <3>2
      <4>2. files[r] \cup f \in Files
        BY DEF TypeOK, Files
      <4> QED BY <3>2, <4>1, <4>2 DEF TypeOK, Files
    <3>3. CASE UNCHANGED <<files, marker>>
      BY <3>3 DEF TypeOK, Files
    <3> QED BY <1>10, <3>1, <3>2, <3>3 DEF LaunchFails
  <2> QED BY <1>10, <2>1, StartCleanupType, FaultType DEF LaunchFails, TypeOK, Job, Files
<1>11. CASE markScratchRunning(r)
  <2>1. stop' \in [Roots -> [signal : StopState, close : StopState]]
    BY <1>11, ShutdownType, FirstStopType DEF markScratchRunning, TypeOK
  <2> QED BY <1>11, <2>1 DEF markScratchRunning, TypeOK, OwnerTo, OwnerState, MarkerState
<1>12. CASE RunningFails(r)
  <2>1. stop' \in [Roots -> [signal : StopState, close : StopState]]
    BY <1>12, ShutdownType, FirstStopType DEF RunningFails
  <2>2. PICK m \in {"launching", "running"} : marker' = [marker EXCEPT ![r] = m]
    BY <1>12 DEF RunningFails
  <2>3. marker' \in [Roots -> MarkerState]
    BY <2>2 DEF TypeOK, MarkerState
  <2>4. faults' \in 0..MaxFaults
    BY <1>12, FaultType DEF RunningFails
  <2> QED BY <1>12, <2>1, <2>3, <2>4 DEF RunningFails, TypeOK, OwnerTo, OwnerState
<1>13. CASE ChildCloses(r)
  <2>1. stop' \in [Roots -> [signal : StopState, close : StopState]]
    BY <1>13, ShutdownType, FirstStopType DEF ChildCloses, TypeOK
  <2> QED BY <1>13, <2>1 DEF ChildCloses, TypeOK, OwnerTo, OwnerState
<1>14. ASSUME NEW w \in {"signal", "close"},
              \/ ObserveSandboxGone(r, w) \/ ReadPublished(r, w) \/ NothingPublished(r, w)
              \/ PollExpires(r, w) \/ StopPublished(r, w) \/ StopSandbox(r, w)
       PROVE  TypeOK'
  <2>1. PICK state \in StopState : Shutdown(r, w, state)
    BY <1>14 DEF ObserveSandboxGone, ReadPublished, NothingPublished, PollExpires,
                 StopPublished, StopSandbox, StopState
  <2>2. stop' \in [Roots -> [signal : StopState, close : StopState]]
    BY <2>1, ShutdownType
  <2>3. /\ files' \in [Roots -> SUBSET {"marker", "intent", "group"}]
        /\ sandbox' \in [Roots -> {"none", "alive", "exited", "killed"}]
        /\ sidecar' \in [Roots -> {"none", "starting", "published", "command", "gone"}]
        /\ SameRun /\ misread' \in [Roots -> BOOLEAN]
    <3>1. CASE ObserveSandboxGone(r, w) \/ ReadPublished(r, w) \/ PollExpires(r, w)
      BY <3>1 DEF ObserveSandboxGone, ReadPublished, PollExpires, NextStop, TypeOK
    <3>2. CASE NothingPublished(r, w)
      <4>1. files' = files \/ files' = [files EXCEPT ![r] = files[r] \ {"intent"}]
        BY <3>2 DEF NothingPublished
      <4>2. files' \in [Roots -> SUBSET {"marker", "intent", "group"}]
        BY <4>1, FilesType
      <4>3. UNCHANGED <<sandbox, sidecar>> /\ SameRun
        BY <3>2 DEF NothingPublished, procVars
      <4>4. misread' \in [Roots -> BOOLEAN]
        BY <3>2 DEF NothingPublished, TypeOK
      <4> QED BY <4>2, <4>3, <4>4 DEF TypeOK
    <3>3. CASE StopPublished(r, w)
      BY <3>3 DEF StopPublished, NextStop, TypeOK
    <3>4. CASE StopSandbox(r, w)
      <4>1. \/ sandbox' = sandbox
            \/ sandbox' = [sandbox EXCEPT ![r] = "killed"]
            \/ sandbox' = [sandbox EXCEPT ![r] = sandbox[r]]
        <5>1. \/ sandbox' = sandbox
              \/ sandbox' = [sandbox EXCEPT ![r] = IF sandbox[r] = "alive" THEN "killed"
                                                  ELSE sandbox[r]]
          BY <3>4 DEF StopSandbox
        <5> DEFINE after == IF sandbox[r] = "alive" THEN "killed" ELSE sandbox[r]
        <5>2. after \in {"killed", sandbox[r]}
          OBVIOUS
        <5>3. sandbox' = sandbox \/ sandbox' = [sandbox EXCEPT ![r] = after]
          BY <5>1
        <5> HIDE DEF after
        <5> QED BY <5>2, <5>3
      <4>2. sandbox' \in [Roots -> {"none", "alive", "exited", "killed"}]
        BY <4>1 DEF TypeOK
      <4>3. UNCHANGED <<files, sidecar, misread>> /\ SameRun
        BY <3>4 DEF StopSandbox, NextStop
      <4> QED BY <4>2, <4>3 DEF TypeOK
    <3> QED BY <1>14, <3>1, <3>2, <3>3, <3>4
  <2> QED BY <2>2, <2>3 DEF SameRun, TypeOK
<1>15. CASE StopDone(r)
  <2>1. /\ job' \in [Cleaners -> Job] /\ owner' \in [Roots -> OwnerState]
        /\ stop' \in [Roots -> [signal : StopState, close : StopState]]
    <3>1. CASE StartCleanup(r) /\ UNCHANGED stop
      BY <3>1, StartCleanupType DEF TypeOK
    <3>2. CASE OwnerTo(r, "exited") /\ stop' = [stop EXCEPT ![r] = NoStop] /\ UNCHANGED job
      BY <3>2, NoStopType DEF TypeOK, Job, OwnerTo, OwnerState
    <3> QED BY <1>15, <3>1, <3>2 DEF StopDone
  <2> QED BY <1>15, <2>1 DEF StopDone, TypeOK, Job
<1> QED BY <1>1, <1>2, <1>3, <1>4, <1>5, <1>6, <1>7, <1>8, <1>9, <1>10, <1>11, <1>12, <1>13,
           <1>14, <1>15 DEF OwnerStep, ShutdownStep

LEMMA ProcessType ==
  ASSUME TypeOK, NEW r \in Roots, ProcessStep(r)
  PROVE  TypeOK'
<1>1. /\ files' \in [Roots -> SUBSET {"marker", "intent", "group"}]
      /\ sandbox' \in [Roots -> {"none", "alive", "exited", "killed"}]
      /\ sidecar' \in [Roots -> {"none", "starting", "published", "command", "gone"}]
      /\ faults' \in 0..MaxFaults /\ SameOwner
  <2>1. CASE StartSidecar(r)
    BY <2>1 DEF StartSidecar, TypeOK
  <2>5. CASE SpawnCommand(r)
    BY <2>5 DEF SpawnCommand, TypeOK
  <2>6. CASE SidecarEnds(r)
    BY <2>6 DEF SidecarEnds, TypeOK
  <2>2. CASE PublishGroup(r)
    <3>2. files' = files \/ files' = [files EXCEPT ![r] = files[r] \cup {"group"}]
      BY <2>2 DEF PublishGroup
    <3>3. files' \in [Roots -> SUBSET {"marker", "intent", "group"}]
      BY <3>2, FilesType
    <3>4. \E state \in {"published", "gone"} : sidecar' = [sidecar EXCEPT ![r] = state]
      BY <2>2 DEF PublishGroup
    <3>5. UNCHANGED <<sandbox, faults>> /\ SameOwner
      BY <2>2 DEF PublishGroup
    <3> QED BY <3>3, <3>4, <3>5 DEF TypeOK, Files
  <2>3. CASE SandboxExits(r)
    BY <2>3 DEF SandboxExits, TypeOK
  <2>4. CASE SandboxKilled(r)
    BY <2>4, FaultType DEF SandboxKilled, TypeOK
  <2> QED BY <2>1, <2>2, <2>3, <2>4, <2>5, <2>6 DEF ProcessStep
<1> QED BY <1>1 DEF SameOwner, TypeOK, pastVars, ownVars

LEMMA EventType ==
  ASSUME TypeOK, NEW r \in Roots, Signal(r) \/ OwnerKilled(r) \/ GrowOld(r) \/ Reboot
  PROVE  TypeOK'
<1> USE DEF pastVars, procVars, dirVars, ownVars
<1>1. CASE Signal(r)
  <2>1. stop' \in [Roots -> [signal : StopState, close : StopState]]
    BY <1>1, ShutdownType, FirstStopType DEF Signal, TypeOK
  <2> QED BY <1>1, <2>1 DEF Signal, TypeOK
<1>2. CASE OwnerKilled(r)
  <2>1. /\ job' \in [Cleaners -> Job]
        /\ stop' \in [Roots -> [signal : StopState, close : StopState]]
    BY <1>2, NoStopType, NoJobType DEF OwnerKilled, TypeOK, Job
  <2> QED BY <1>2, <2>1, FaultType DEF OwnerKilled, TypeOK, Job, OwnerTo, OwnerState
<1>3. CASE GrowOld(r)
  BY <1>3 DEF GrowOld, TypeOK
<1>4. CASE Reboot
  <2>1. /\ job' \in [Cleaners -> Job]
        /\ stop' \in [Roots -> [signal : StopState, close : StopState]]
    BY <1>4, NoStopType, NoJobType DEF Reboot, TypeOK, Job
  <2>2. reboots' \in 0..MaxReboots
    BY <1>4, ScratchAssumption DEF Reboot, TypeOK
  <2> QED BY <1>4, <2>1, <2>2 DEF Reboot, TypeOK, Job, OwnerState
<1> QED BY <1>1, <1>2, <1>3, <1>4

LEMMA StepType == TypeOK /\ [Next]_vars => TypeOK'
<1> SUFFICES ASSUME TypeOK, [Next]_vars PROVE TypeOK'
  OBVIOUS
<1>1. CASE UNCHANGED vars
  BY <1>1 DEF vars, dirVars, pastVars, procVars, ownVars, TypeOK
<1>2. CASE Reboot
  BY <1>2, ScratchAssumption, EventType
<1> QED BY <1>1, <1>2, CleanerType, InspectType, OwnerType, ProcessType, EventType DEF Next

(* The directories, processes, journals and cleanups stay well typed.         *)
THEOREM Typed == Spec => []TypeOK
  BY InitType, StepType, PTL DEF Spec

-----------------------------------------------------------------------------
(* Who may work on a directory, and when its journal is complete.             *)

Complete == {"allocated", "running"}

(* An owner has its directory from mkdtemp on; only a dead one is of an       *)
(* earlier boot; a journal belongs to a directory.                            *)
Directories ==
    \A r \in Roots :
       /\ owner[r] = "start" => where[r] = "none"
       /\ OwnerAlive(r) => where[r] # "none"
       /\ rebooted[r] => owner[r] = "exited"
       /\ where[r] = "none" => journal[r] = "none"

(* An owner cleans up its own directory, a pass one whose owner is dead; a    *)
(* cleanup that is about to move a directory has its journal complete.        *)
Jobs ==
    \A c \in Cleaners :
       /\ c \in Roots => job[c].root = c
       /\ job[c].at # "idle" => where[job[c].root] # "none"
       /\ job[c].at # "idle" /\ c \notin Roots => owner[job[c].root] = "exited"
       /\ job[c].at = "rename" /\ where[job[c].root] = "run" => journal[job[c].root] \in Complete

Inv == TypeOK /\ Directories /\ Jobs /\ CapabilityKept

LEMMA InitInv == Init => Inv
<1> SUFFICES ASSUME Init PROVE Inv
  OBVIOUS
<1>1. \A c \in Cleaners : job[c] = NoJob(IF c \in Roots THEN c ELSE CHOOSE r \in Roots : TRUE)
  BY DEF Init
<1>3. \A r : NoJob(r).at = "idle" /\ NoJob(r).root = r
  BY DEF NoJob
<1>2. \A c \in Cleaners : job[c].at = "idle" /\ (c \in Roots => job[c].root = c)
  BY <1>1, <1>3
<1> QED BY <1>2, InitType DEF Inv, Init, Directories, Jobs, CapabilityKept, OwnerAlive

(* What a step does to the cleanups in progress: none starts in a directory   *)
(* but an owner's, none reaches the move.                                     *)
JobsGoOn ==
    \A c \in Cleaners :
       /\ job'[c].root = job[c].root
       /\ job'[c].at # "idle" => job[c].at # "idle" \/ (c \in Roots /\ OwnerAlive(c))
       /\ job'[c].at = "rename" => job[c].at = "rename"

OwnersGoOn ==
    \A r \in Roots : \/ owner'[r] = owner[r]
                     \/ owner[r] # "exited" /\ owner'[r] = "exited"
                     \/ OwnerAlive(r) /\ owner'[r] # "start"

(* A directory that stays where it was keeps a complete journal.              *)
DirectoriesGoOn ==
    \A r \in Roots : /\ where[r] # "none" => where'[r] # "none"
                     /\ where'[r] = "run" => where[r] \in {"none", "run"}
                     /\ where[r] = "run" /\ journal[r] \in Complete => journal'[r] \in Complete

LEMMA JobsKept ==
  ASSUME TypeOK, Directories, Jobs, JobsGoOn, DirectoriesGoOn,
         \A r \in Roots : owner[r] = "exited" => owner'[r] = "exited"
  PROVE  Jobs'
<1> SUFFICES ASSUME NEW c \in Cleaners
             PROVE  /\ c \in Roots => job'[c].root = c
                    /\ job'[c].at # "idle" => where'[job'[c].root] # "none"
                    /\ job'[c].at # "idle" /\ c \notin Roots => owner'[job'[c].root] = "exited"
                    /\ job'[c].at = "rename" /\ where'[job'[c].root] = "run"
                         => journal'[job'[c].root] \in Complete
  BY DEF Jobs
<1> DEFINE r == job[c].root
<1>1. r \in Roots /\ job'[c].root = r
  BY DEF TypeOK, JobsGoOn
<1>2. c \in Roots => r = c
  BY DEF Jobs
<1>3. job'[c].at # "idle" => where[r] # "none" /\ (c \notin Roots => owner[r] = "exited")
  BY <1>2 DEF JobsGoOn, Jobs, Directories
<1>4. job'[c].at = "rename" /\ where'[r] = "run" => journal[r] \in Complete /\ where[r] = "run"
  BY <1>1, <1>3 DEF JobsGoOn, Jobs, DirectoriesGoOn
<1> QED BY <1>1, <1>2, <1>3, <1>4 DEF DirectoriesGoOn

LEMMA Calm ==
  ASSUME Inv, TypeOK', UNCHANGED <<where, journal, rebooted>>, OwnersGoOn, JobsGoOn
  PROVE  Inv'
<1>1. Directories'
  BY DEF Inv, Directories, OwnersGoOn, OwnerAlive
<1>2. Jobs'
  BY JobsKept DEF Inv, OwnersGoOn, DirectoriesGoOn, OwnerAlive
<1>3. CapabilityKept'
  BY DEF Inv, CapabilityKept
<1> QED BY <1>1, <1>2, <1>3 DEF Inv

LEMMA FinishGoesOn ==
  ASSUME TypeOK, NEW c \in Cleaners, Finish(c)
  PROVE  JobsGoOn /\ OwnersGoOn
  BY DEF TypeOK, Finish, NoJob, JobsGoOn, OwnersGoOn

LEMMA GotoGoesOn ==
  ASSUME TypeOK, NEW c \in Cleaners, NEW step \in Step, Goto(c, step), job[c].at # "idle",
         step # "rename", UNCHANGED owner
  PROVE  JobsGoOn /\ OwnersGoOn
  BY DEF TypeOK, Goto, JobsGoOn, OwnersGoOn

LEMMA CleanerInv ==
  ASSUME Inv, TypeOK', NEW c \in Cleaners, CleanerStep(c) \/ GiveUp(c)
  PROVE  Inv'
<1> DEFINE d == job[c].root
<1>0. TypeOK /\ d \in Roots /\ job[c].saw \in Complete
  BY DEF Inv, TypeOK, Complete
<1>1. CASE Verify(c)
  <2>1. CASE Finish(c)
    BY <1>0, <1>1, <2>1, FinishGoesOn, Calm DEF Verify, dirVars, pastVars
  <2>2. CASE job' = [job EXCEPT ![c].at = "open", ![c].saw = marker[d]] /\ UNCHANGED ownVars
    <3>1. JobsGoOn /\ OwnersGoOn
      BY <1>0, <1>1, <2>2 DEF Verify, TypeOK, JobsGoOn, OwnersGoOn, ownVars
    <3> QED BY <1>1, <3>1, Calm DEF Verify, dirVars, pastVars
  <2> QED BY <1>1, <2>1, <2>2 DEF Verify
<1>2. CASE OpenJournal(c)
  <2>1. CASE journal[d] # "none"
    <3>1. Finish(c) /\ UNCHANGED journal
      BY <1>2, <2>1 DEF OpenJournal
    <3> QED BY <1>0, <1>2, <3>1, FinishGoesOn, Calm DEF OpenJournal, pastVars
  <2>2. CASE journal[d] = "none"
    <3>1. /\ journal' = [journal EXCEPT ![d] = "empty"]
          /\ Goto(c, "write") /\ UNCHANGED ownVars /\ job[c].at = "open"
          /\ UNCHANGED <<where, rebooted>>
      BY <1>2, <2>2 DEF OpenJournal, pastVars
    <3>2. JobsGoOn /\ OwnersGoOn
      BY <1>0, <3>1, GotoGoesOn DEF Step, ownVars
    <3>3. DirectoriesGoOn
      BY <2>2, <3>1 DEF DirectoriesGoOn, Complete
    <3>4. where[d] # "none"
      BY <3>1 DEF Inv, Jobs
    <3>5. Directories'
      BY <1>0, <3>1, <3>4 DEF Inv, TypeOK, Directories, OwnerAlive, ownVars
    <3>6. CapabilityKept'
      BY <1>0, <2>2, <3>1 DEF Inv, TypeOK, CapabilityKept
    <3>7. Jobs'
      BY <3>1, <3>2, <3>3, JobsKept DEF Inv, ownVars
    <3> QED BY <3>5, <3>6, <3>7 DEF Inv
  <2> QED BY <2>1, <2>2
<1>3. CASE WriteJournal(c)
  <2>1. /\ journal' = [journal EXCEPT ![d] = job[c].saw]
        /\ Goto(c, "rename") /\ job[c].at = "write"
        /\ UNCHANGED <<where, rebooted, owner>>
    BY <1>3 DEF WriteJournal, pastVars, ownVars
  <2>2. where[d] # "none"
    BY <2>1 DEF Inv, Jobs
  <2>3. Directories'
    BY <1>0, <2>1, <2>2 DEF Inv, TypeOK, Directories, OwnerAlive
  <2>4. CapabilityKept'
    BY <1>0, <2>1 DEF Inv, TypeOK, CapabilityKept, Complete
  <2>5. \A b \in Cleaners : /\ job'[b].root = job[b].root
                            /\ job'[b].at # "idle" => job[b].at # "idle"
                            /\ b # c => job'[b] = job[b]
    BY <1>0, <2>1 DEF TypeOK, Goto
  <2>6. \A r \in Roots : r = d \/ journal[r] \in Complete => journal'[r] \in Complete
    BY <1>0, <2>1 DEF TypeOK
  <2>7. Jobs'
    <3> SUFFICES ASSUME NEW b \in Cleaners
                 PROVE  /\ b \in Roots => job'[b].root = b
                        /\ job'[b].at # "idle" => where'[job'[b].root] # "none"
                        /\ job'[b].at # "idle" /\ b \notin Roots => owner'[job'[b].root] = "exited"
                        /\ job'[b].at = "rename" /\ where'[job'[b].root] = "run"
                             => journal'[job'[b].root] \in Complete
      BY DEF Jobs
    <3>1. /\ b \in Roots => job[b].root = b
          /\ job[b].at # "idle" => where[job[b].root] # "none"
          /\ job[b].at # "idle" /\ b \notin Roots => owner[job[b].root] = "exited"
          /\ job[b].at = "rename" /\ where[job[b].root] = "run" => journal[job[b].root] \in Complete
      BY DEF Inv, Jobs
    <3>2. job[b].root \in Roots
      BY <1>0 DEF TypeOK
    <3> QED BY <2>1, <2>5, <2>6, <3>1, <3>2
  <2> QED BY <2>3, <2>4, <2>7 DEF Inv
<1>4. CASE RenameRoot(c)
  <2>1. CASE where[d] # "run"
    <3>1. Finish(c) /\ UNCHANGED where
      BY <1>4, <2>1 DEF RenameRoot
    <3> QED BY <1>0, <1>4, <3>1, FinishGoesOn, Calm DEF RenameRoot, pastVars
  <2>2. CASE where[d] = "run"
    <3>1. /\ where' = [where EXCEPT ![d] = "quarantine"]
          /\ Goto(c, "remove") /\ UNCHANGED ownVars /\ job[c].at = "rename"
          /\ UNCHANGED <<journal, rebooted>>
      BY <1>4, <2>2 DEF RenameRoot, pastVars
    <3>2. JobsGoOn /\ OwnersGoOn
      BY <1>0, <3>1, GotoGoesOn DEF Step, ownVars
    <3>3. DirectoriesGoOn
      BY <1>0, <3>1 DEF DirectoriesGoOn, TypeOK
    <3>4. journal[d] \in Complete
      BY <1>0, <2>2, <3>1 DEF Inv, Jobs
    <3>5. Directories'
      BY <1>0, <2>2, <3>1 DEF Inv, TypeOK, Directories, OwnerAlive, ownVars
    <3>6. CapabilityKept'
      BY <1>0, <3>1, <3>4 DEF Inv, TypeOK, CapabilityKept, Complete
    <3>7. Jobs'
      BY <3>1, <3>2, <3>3, JobsKept DEF Inv, ownVars
    <3> QED BY <3>5, <3>6, <3>7 DEF Inv
  <2> QED BY <2>1, <2>2
<1>5. CASE RemoveEntry(c)
  BY <1>5, Calm DEF RemoveEntry, pastVars, ownVars, JobsGoOn, OwnersGoOn
<1>6. CASE RemoveDirectory(c)
  <2>1. /\ where' = [where EXCEPT ![d] = "gone"] /\ where[d] = "quarantine"
        /\ job[c].at = "remove" /\ UNCHANGED <<journal, rebooted>>
    BY <1>6 DEF RemoveDirectory, pastVars
  <2>2. JobsGoOn /\ OwnersGoOn
    BY <1>0, <1>6, FinishGoesOn, GotoGoesOn DEF RemoveDirectory, Step, ownVars
  <2>3. DirectoriesGoOn
    BY <1>0, <2>1 DEF DirectoriesGoOn, TypeOK
  <2>4. Directories'
    BY <1>0, <2>1, <2>2 DEF Inv, TypeOK, Directories, OwnersGoOn, OwnerAlive
  <2>5. CapabilityKept'
    BY <1>0, <2>1 DEF Inv, TypeOK, CapabilityKept
  <2>6. Jobs'
    BY <2>2, <2>3, JobsKept DEF Inv, OwnersGoOn, OwnerAlive
  <2> QED BY <2>4, <2>5, <2>6 DEF Inv
<1>7. CASE RemovalLost(c)
  <2>1. JobsGoOn /\ OwnersGoOn
    BY <1>0, <1>7, FinishGoesOn, GotoGoesOn DEF RemovalLost, Step, ownVars
  <2> QED BY <1>7, <2>1, Calm DEF RemovalLost, dirVars, pastVars
<1>8. CASE RemoveJournal(c)
  <2>1. /\ journal' = [journal EXCEPT ![d] = IF where[d] \in {"run", "quarantine"} THEN @ ELSE "none"]
        /\ UNCHANGED <<where, rebooted>>
    BY <1>8 DEF RemoveJournal, pastVars
  <2>2. JobsGoOn /\ OwnersGoOn
    BY <1>0, <1>8, FinishGoesOn DEF RemoveJournal
  <2>3. \A r \in Roots : where[r] \in {"run", "quarantine"} => journal'[r] = journal[r]
    BY <1>0, <2>1 DEF TypeOK
  <2>4. \A r \in Roots : journal'[r] = journal[r] \/ journal'[r] = "none"
    BY <1>0, <2>1 DEF TypeOK
  <2>5. DirectoriesGoOn
    BY <2>1, <2>3 DEF DirectoriesGoOn
  <2>6. Directories'
    BY <1>0, <2>1, <2>2, <2>4 DEF Inv, TypeOK, Directories, OwnersGoOn, OwnerAlive
  <2>7. CapabilityKept'
    BY <2>1, <2>3 DEF Inv, CapabilityKept
  <2>8. Jobs'
    BY <2>2, <2>5, JobsKept DEF Inv, OwnersGoOn, OwnerAlive
  <2> QED BY <2>6, <2>7, <2>8 DEF Inv
<1>9. CASE GiveUp(c)
  BY <1>0, <1>9, FinishGoesOn, Calm DEF GiveUp, dirVars, pastVars
<1> QED BY <1>1, <1>2, <1>3, <1>4, <1>5, <1>6, <1>7, <1>8, <1>9 DEF CleanerStep

LEMMA InspectInv ==
  ASSUME Inv, TypeOK', NEW p \in Passes, NEW r \in Roots, Inspect(p, r)
  PROVE  Inv'
<1>1. /\ owner[r] = "exited"
      /\ \E how \in {"run", "journal", "quarantine"}, step \in Step :
           /\ step = "rename" => journal[r] \in Complete
           /\ Begin(p, r, how, step)
      /\ where[r] # "none"
  BY DEF Inspect, recoverRunCandidate, recoverJournal, recoverCompatibleQuarantine, Step,
         ownerAbsence, Inv, Directories, Complete
<1>2. PICK how \in {"run", "journal", "quarantine"}, step \in Step :
        (step = "rename" => journal[r] \in Complete) /\ Begin(p, r, how, step)
  BY <1>1
<1>3. p \in Cleaners /\ p \notin Roots
  BY ScratchAssumption DEF Cleaners
<1>4. UNCHANGED <<where, journal, rebooted, owner>>
  BY <1>2 DEF Begin, dirVars, pastVars, ownVars
<1>5. /\ job'[p].at = step /\ job'[p].root = r
      /\ \A c \in Cleaners : c # p => job'[c] = job[c]
  BY <1>2, <1>3 DEF Inv, TypeOK, Begin
<1>6. Jobs'
  BY <1>1, <1>2, <1>3, <1>4, <1>5 DEF Inv, Jobs
<1>7. Directories' /\ CapabilityKept'
  BY <1>4 DEF Inv, Directories, CapabilityKept, OwnerAlive
<1> QED BY <1>6, <1>7 DEF Inv

(* An owner at one of its program points goes on to another, and cleans up,   *)
(* if at all, its own directory.                                              *)
LEMMA OwnerGoesOn ==
  ASSUME TypeOK, NEW r \in Roots, OwnerAlive(r), UNCHANGED <<where, journal, rebooted>>,
         \/ UNCHANGED job /\ UNCHANGED owner
         \/ UNCHANGED job /\ (\E state \in OwnerState \ {"start"} : OwnerTo(r, state))
         \/ StartCleanup(r)
  PROVE  OwnersGoOn /\ JobsGoOn
<1>1. r \in Cleaners
  BY DEF Cleaners
<1>2. OwnersGoOn
  BY DEF TypeOK, OwnersGoOn, StartCleanup, OwnerTo
<1>3. CASE UNCHANGED job
  BY <1>2, <1>3 DEF JobsGoOn
<1>4. CASE StartCleanup(r)
  BY <1>1, <1>2, <1>4 DEF TypeOK, JobsGoOn, StartCleanup
<1> QED BY <1>3, <1>4

LEMMA OwnerInv ==
  ASSUME Inv, TypeOK', NEW r \in Roots, OwnerStep(r)
  PROVE  Inv'
<1> USE DEF NextOwner, pastVars, dirVars
<1>0. TypeOK
  BY DEF Inv
<1>1. CASE SignalBeforeAllocation(r)
  <2>1. OwnersGoOn /\ JobsGoOn
    BY <1>0, <1>1 DEF SignalBeforeAllocation, TypeOK, OwnerTo, OwnersGoOn, JobsGoOn
  <2> QED BY <1>1, <2>1, Calm DEF SignalBeforeAllocation
<1>2. CASE MakeRoot(r)
  <2>1. /\ owner[r] = "start" /\ where[r] = "none"
        /\ where' = [where EXCEPT ![r] = "run"] /\ owner' = [owner EXCEPT ![r] = "made"]
        /\ UNCHANGED <<journal, rebooted, job>>
    BY <1>2 DEF MakeRoot, OwnerTo, Inv, Directories
  <2>2. DirectoriesGoOn /\ JobsGoOn
    BY <1>0, <2>1 DEF TypeOK, DirectoriesGoOn, JobsGoOn
  <2>3. Jobs'
    BY <1>0, <2>1, <2>2, JobsKept DEF Inv, TypeOK
  <2>4. Directories' /\ CapabilityKept'
    BY <1>0, <2>1 DEF Inv, TypeOK, Directories, CapabilityKept, OwnerAlive
  <2> QED BY <2>3, <2>4 DEF Inv
<1>3. CASE /\ OwnerAlive(r) /\ UNCHANGED <<where, journal, rebooted>>
           /\ \/ UNCHANGED job /\ UNCHANGED owner
              \/ UNCHANGED job /\ (\E state \in OwnerState \ {"start"} : OwnerTo(r, state))
              \/ StartCleanup(r)
  BY <1>0, <1>3, OwnerGoesOn, Calm
<1>4. ASSUME ~SignalBeforeAllocation(r), ~MakeRoot(r)
      PROVE  /\ UNCHANGED <<where, journal, rebooted>>
             /\ \/ UNCHANGED job /\ UNCHANGED owner
                \/ UNCHANGED job /\ (\E state \in OwnerState \ {"start"} : OwnerTo(r, state))
                \/ StartCleanup(r)
  <2>1. CASE WriteMarker(r) \/ CleanupBeforeLaunch(r) \/ markScratchLaunching(r)
    BY <2>1 DEF WriteMarker, CleanupBeforeLaunch, markScratchLaunching, OwnerState
  <2>2. CASE markScratchUnlaunched(r) \/ recordLaunchIntent(r) \/ spawnOwnedCommand(r)
    BY <2>2 DEF markScratchUnlaunched, recordLaunchIntent, spawnOwnedCommand, OwnerState
  <2>3. CASE markSpawnFailed(r) \/ LaunchFails(r)
    BY <2>3 DEF markSpawnFailed, LaunchFails, OwnerState
  <2>4. CASE markScratchRunning(r) \/ RunningFails(r) \/ ChildCloses(r)
    BY <2>4 DEF markScratchRunning, RunningFails, ChildCloses, OwnerState
  <2>5. ASSUME NEW w \in {"signal", "close"},
               \/ ObserveSandboxGone(r, w) \/ ReadPublished(r, w) \/ NothingPublished(r, w)
               \/ PollExpires(r, w) \/ StopPublished(r, w) \/ StopSandbox(r, w)
        PROVE  UNCHANGED <<where, journal, rebooted, owner, job>>
    BY <2>5 DEF ObserveSandboxGone, ReadPublished, NothingPublished, PollExpires,
                StopPublished, StopSandbox, NextStop, SameRun
  <2>6. CASE StopDone(r)
    BY <2>6 DEF StopDone, OwnerState
  <2> QED BY <1>4, <2>1, <2>2, <2>3, <2>4, <2>5, <2>6 DEF OwnerStep, ShutdownStep
<1>5. ASSUME UNCHANGED <<where, journal, rebooted, owner, job>>
      PROVE  Inv'
  BY <1>5, Calm DEF OwnersGoOn, JobsGoOn
<1>6. ASSUME ~SignalBeforeAllocation(r), ~MakeRoot(r)
      PROVE  OwnerAlive(r) \/ UNCHANGED <<where, journal, rebooted, owner, job>>
  <2>1. CASE OwnerAlive(r)
    BY <2>1
  <2>2. ASSUME NEW w \in {"signal", "close"},
               \/ ObserveSandboxGone(r, w) \/ ReadPublished(r, w) \/ NothingPublished(r, w)
               \/ PollExpires(r, w) \/ StopPublished(r, w) \/ StopSandbox(r, w)
        PROVE  UNCHANGED <<where, journal, rebooted, owner, job>>
    BY <2>2 DEF ObserveSandboxGone, ReadPublished, NothingPublished, PollExpires,
                StopPublished, StopSandbox, NextStop, SameRun
  <2>3. CASE \/ WriteMarker(r) \/ CleanupBeforeLaunch(r) \/ markScratchLaunching(r)
             \/ markScratchUnlaunched(r) \/ recordLaunchIntent(r) \/ spawnOwnedCommand(r)
             \/ markSpawnFailed(r) \/ LaunchFails(r) \/ markScratchRunning(r)
             \/ RunningFails(r) \/ ChildCloses(r) \/ StopDone(r)
    BY <2>3 DEF OwnerAlive, WriteMarker, CleanupBeforeLaunch, markScratchLaunching,
                markScratchUnlaunched, recordLaunchIntent, spawnOwnedCommand, markSpawnFailed,
                LaunchFails, markScratchRunning, RunningFails, ChildCloses, StopDone
  <2> QED BY <1>6, <2>1, <2>2, <2>3 DEF OwnerStep, ShutdownStep
<1> QED BY <1>1, <1>2, <1>3, <1>4, <1>5, <1>6

LEMMA EventInv ==
  ASSUME Inv, TypeOK', NEW r \in Roots,
         ProcessStep(r) \/ Signal(r) \/ OwnerKilled(r) \/ GrowOld(r)
  PROVE  Inv'
<1> USE DEF pastVars, dirVars, ownVars
<1>1. CASE OwnerKilled(r)
  <2>1. r \in Cleaners /\ job[r].root = r
    BY DEF Inv, Jobs, Cleaners
  <2>2. NoJob(r).at = "idle" /\ NoJob(r).root = r
    BY DEF NoJob
  <2>3. OwnersGoOn /\ JobsGoOn
    BY <1>1, <2>1, <2>2 DEF Inv, TypeOK, OwnerKilled, OwnerTo, OwnerAlive, OwnersGoOn, JobsGoOn
  <2> QED BY <1>1, <2>3, Calm DEF OwnerKilled
<1>2. CASE Signal(r) \/ GrowOld(r) \/ ProcessStep(r)
  <2>1. UNCHANGED <<where, journal, rebooted, owner, job>>
    BY <1>2 DEF Signal, GrowOld, ProcessStep, StartSidecar, PublishGroup, SpawnCommand,
                SidecarEnds, SandboxExits, SandboxKilled, SameOwner
  <2> QED BY <2>1, Calm DEF OwnersGoOn, JobsGoOn
<1> QED BY <1>1, <1>2

LEMMA RebootInv ==
  ASSUME Inv, TypeOK', Reboot
  PROVE  Inv'
<1>0. \A c \in Cleaners : job'[c].at = "idle" /\ job'[c].root = job[c].root
  BY DEF Reboot, NoJob
<1>1. Jobs'
  BY <1>0 DEF Inv, Jobs
<1>2. UNCHANGED <<where, journal>>
  BY DEF Reboot, dirVars
<1>3. \A r \in Roots : /\ rebooted'[r] => rebooted[r] \/ where[r] # "none"
                       /\ owner'[r] = IF OwnerAlive(r) THEN "exited" ELSE owner[r]
  BY DEF Reboot
<1>4. \A r \in Roots : /\ owner[r] = "start" => where[r] = "none"
                       /\ rebooted[r] => owner[r] = "exited"
                       /\ where[r] = "none" => journal[r] = "none"
  BY DEF Inv, Directories
<1>6. Directories'
  BY <1>2, <1>3, <1>4 DEF Directories, OwnerAlive
<1>5. CapabilityKept'
  BY <1>2 DEF Inv, CapabilityKept
<1> QED BY <1>1, <1>5, <1>6 DEF Inv

LEMMA StepInv == Inv /\ [Next]_vars => Inv'
<1> SUFFICES ASSUME Inv, [Next]_vars PROVE Inv'
  OBVIOUS
<1>0. TypeOK'
  BY StepType DEF Inv
<1>1. CASE UNCHANGED vars
  BY <1>0, <1>1, Calm DEF vars, dirVars, pastVars, ownVars, OwnersGoOn, JobsGoOn
<1> QED BY <1>0, <1>1, CleanerInv, InspectInv, OwnerInv, EventInv, RebootInv DEF Next

THEOREM Invariant == Spec => []Inv
  BY InitInv, StepInv, PTL DEF Spec

(* A directory out of its path always has a complete journal, whatever the    *)
(* passes and its owner do to it at once and wherever they are interrupted:   *)
(* OpenJournal, WriteJournal, RenameRoot, recoverJournal.                     *)
THEOREM Capability == Spec => []CapabilityKept
<1>1. Inv => CapabilityKept
  BY DEF Inv
<1> QED BY Invariant, <1>1, PTL

(* Only RenameRoot takes a directory from its path.                           *)
LEMMA MovedByRename ==
  ASSUME Inv, Next, NEW r \in Roots, where[r] = "run", where'[r] # "run"
  PROVE  \E c \in Cleaners : RenameRoot(c) /\ job[c].root = r
<1>0. TypeOK
  BY DEF Inv
<1>1. CASE Reboot
  BY <1>1 DEF Reboot, dirVars
<1>2. ASSUME NEW p \in Passes, NEW q \in Roots, Inspect(p, q)
      PROVE  FALSE
  BY <1>2 DEF Inspect, recoverRunCandidate, recoverJournal, recoverCompatibleQuarantine,
              Begin, dirVars
<1>3. ASSUME NEW q \in Roots, ProcessStep(q) \/ Signal(q) \/ OwnerKilled(q) \/ GrowOld(q)
      PROVE  FALSE
  BY <1>3 DEF ProcessStep, StartSidecar, PublishGroup, SpawnCommand, SidecarEnds,
              SandboxExits, SandboxKilled, SameOwner, Signal, OwnerKilled, GrowOld, dirVars
<1>4. ASSUME NEW q \in Roots, OwnerStep(q)
      PROVE  FALSE
  <2>1. UNCHANGED where \/ where' = [where EXCEPT ![q] = "run"]
    <3>1. ASSUME NEW w \in {"signal", "close"},
                 \/ ObserveSandboxGone(q, w) \/ ReadPublished(q, w) \/ NothingPublished(q, w)
                 \/ PollExpires(q, w) \/ StopPublished(q, w) \/ StopSandbox(q, w)
          PROVE  UNCHANGED where
      BY <3>1 DEF ObserveSandboxGone, ReadPublished, NothingPublished, PollExpires,
                  StopPublished, StopSandbox, NextStop, SameRun
    <3> QED BY <1>4, <3>1 DEF OwnerStep, ShutdownStep, SignalBeforeAllocation, MakeRoot,
                  WriteMarker, CleanupBeforeLaunch, markScratchLaunching,
                  markScratchUnlaunched, recordLaunchIntent, spawnOwnedCommand,
                  markSpawnFailed, LaunchFails, markScratchRunning, RunningFails,
                  ChildCloses, StopDone, dirVars
  <2> QED BY <1>0, <2>1 DEF TypeOK
<1>5. ASSUME NEW c \in Cleaners, CleanerStep(c) \/ GiveUp(c)
      PROVE  RenameRoot(c) /\ job[c].root = r
  <2>1. CASE RemoveDirectory(c)
    BY <1>0, <2>1 DEF RemoveDirectory, TypeOK
  <2>2. CASE RenameRoot(c)
    BY <1>0, <2>2 DEF RenameRoot, TypeOK
  <2> QED BY <1>5, <2>1, <2>2 DEF CleanerStep, Verify, OpenJournal, WriteJournal, RemoveEntry,
                  RemovalLost, RemoveJournal, GiveUp, dirVars
<1> QED BY <1>1, <1>2, <1>3, <1>4, <1>5 DEF Next

(* While its owner lives, only the owner moves a directory: ownerAbsence and  *)
(* the boot check stand between a live owner and every pass, in its own PID   *)
(* namespace or another.                                                      *)
THEOREM OnlyOwnerMoves == Spec => NoTheft
<1> DEFINE Step0 == \A r \in Roots : where[r] = "run" /\ where'[r] # "run" /\ OwnerAlive(r)
                      => job[r].at = "rename" /\ job'[r].at = "remove"
<1>1. Inv /\ [Next]_vars => [Step0]_vars
  <2> SUFFICES ASSUME Inv, Next, NEW r \in Roots,
                      where[r] = "run", where'[r] # "run", OwnerAlive(r)
               PROVE  job[r].at = "rename" /\ job'[r].at = "remove"
    OBVIOUS
  <2>1. PICK c \in Cleaners : RenameRoot(c) /\ job[c].root = r
    BY MovedByRename
  <2>2. c = r
    BY <2>1 DEF RenameRoot, Inv, Jobs, OwnerAlive
  <2>3. Goto(r, "remove") /\ r \in Cleaners
    BY <2>1, <2>2 DEF RenameRoot
  <2> QED BY <2>1, <2>2, <2>3 DEF RenameRoot, Goto, Inv, TypeOK
<1> QED BY <1>1, Invariant, PTL DEF Spec, NoTheft

-----------------------------------------------------------------------------
(* What the files of a directory say of its processes.                        *)

BeforeSpawn == {"start", "made", "allocated", "launching", "intent"}

(* The owner launches: nothing runs before the marker says "launching" and,   *)
(* in a sandbox, the intent is in the directory; the intent outlives every    *)
(* sidecar that has not published its group; only a published group is named. *)
LaunchRecord(r) ==
    /\ owner[r] \in BeforeSpawn => sandbox[r] = "none"
    /\ marker[r] = "allocated" => sandbox[r] = "none"
    /\ owner[r] \in {"launching", "intent"} => marker[r] = "launching"
    /\ owner[r] = "intent" /\ boxed[r] => "intent" \in files[r]
    /\ sandbox[r] \in {"none", "exited"} => sidecar[r] \in {"none", "gone"}
    /\ "group" \in files[r] => sidecar[r] \in {"published", "command", "gone"}
    /\ where[r] = "run" /\ sidecar[r] \in {"published", "command"} => "group" \in files[r]
    /\ boxed[r] /\ where[r] = "run"
         /\ (sidecar[r] = "starting" \/ (sandbox[r] = "alive" /\ sidecar[r] = "none"))
         => "intent" \in files[r] \/ misread[r]
    /\ misread[r] => owner[r] \notin BeforeSpawn
    /\ rebooted[r] => sandbox[r] # "alive" /\ sidecar[r] \in {"none", "gone"}

(* The two shutdowns of one owner: which of them may run when, and what they  *)
(* know of the sandbox.                                                       *)
StopRecord(r) ==
    /\ owner[r] \in BeforeSpawn \cup {"spawned", "exited"} => stop[r] = NoStop
    /\ owner[r] \in {"stopping", "cleanup"} => sandbox[r] # "alive"
    /\ owner[r] = "abandoning" => stop[r].signal = "idle"
    /\ stop[r].signal # "idle" => signalled[r]
    /\ stop[r].close # "idle" => owner[r] \in {"stopping", "abandoning", "cleanup"}
    /\ stop[r].close # "idle" /\ stop[r].signal # "idle" => sandbox[r] # "alive"
    /\ stop[r].signal = "gone" \/ stop[r].close = "gone" => sandbox[r] # "alive"

(* No command runs and nothing is left that could start one.                  *)
Dead(r) ==
    /\ owner[r] \in {"cleanup", "exited"}
    /\ IF boxed[r] THEN sidecar[r] = "gone" \/ (sidecar[r] = "none" /\ sandbox[r] # "alive")
                   ELSE sandbox[r] # "alive"

(* What the proofs on disk are worth: without a misreading nobody is inside.  *)
Settled(r) == misread[r] \/ Dead(r)

(* A directory has been verified once it has a journal, has left its path, or *)
(* a cleanup of it is past its verification.                                  *)
Verified ==
    /\ \A r \in Roots : where[r] \in {"quarantine", "gone"} \/ journal[r] # "none" => Settled(r)
    /\ \A c \in Cleaners :
         /\ job[c].at \notin {"idle", "verify"} => Settled(job[c].root)
         /\ job[c].at # "idle" /\ c \in Foreign => rebooted[job[c].root]
         /\ job[c].at # "idle" /\ c \in Roots => owner[c] = "cleanup"

Records == \A r \in Roots : LaunchRecord(r) /\ StopRecord(r)

LiveInv == Inv /\ Records /\ Verified

LEMMA InitLive == Init => LiveInv
<1> SUFFICES ASSUME Init PROVE LiveInv
  OBVIOUS
<1>1. \A r : NoJob(r).at = "idle"
  BY DEF NoJob
<1>2. \A c \in Cleaners : job[c].at = "idle"
  BY <1>1 DEF Init
<1>3. \A r \in Roots : /\ owner[r] = "start" /\ where[r] = "none" /\ journal[r] = "none"
                       /\ files[r] = {} /\ ~rebooted[r] /\ ~misread[r] /\ stop[r] = NoStop
                       /\ sandbox[r] = "none" /\ sidecar[r] = "none"
  BY DEF Init
<1>4. Records
  BY <1>3 DEF Records, LaunchRecord, StopRecord, NoStop
<1>5. Verified
  BY <1>2, <1>3 DEF Verified
<1> QED BY <1>4, <1>5, InitInv DEF LiveInv

View(r) == <<where[r], files[r], marker[r], boxed[r], rebooted[r], misread[r], sandbox[r], sidecar[r],
             owner[r], signalled[r], stop[r]>>

LEMMA SameView ==
  ASSUME NEW r \in Roots, LaunchRecord(r), StopRecord(r), UNCHANGED View(r)
  PROVE  LaunchRecord(r)' /\ StopRecord(r)'
  BY DEF View, LaunchRecord, StopRecord

LEMMA StopValue ==
  ASSUME TypeOK, NEW r \in Roots, NEW w \in {"signal", "close"}, NEW state \in StopState,
         Shutdown(r, w, state)
  PROVE  /\ stop'[r].signal = IF w = "signal" THEN state ELSE stop[r].signal
         /\ stop'[r].close = IF w = "close" THEN state ELSE stop[r].close
         /\ \A q \in Roots : q # r => stop'[q] = stop[q]
<1>1. stop[r] \in [signal : StopState, close : StopState]
  BY DEF TypeOK
<1>2. stop' = [stop EXCEPT ![r] = [stop[r] EXCEPT ![w] = state]]
  BY DEF Shutdown
<1>3. stop'[r] = [stop[r] EXCEPT ![w] = state]
  BY <1>2 DEF TypeOK
<1> QED BY <1>1, <1>2, <1>3 DEF TypeOK

(* A step of a cleanup, seen from a directory.                                *)
LEMMA CleanedRecord ==
  ASSUME TypeOK, NEW r \in Roots, LaunchRecord(r), StopRecord(r),
         where'[r] = where[r] \/ where'[r] \in {"quarantine", "gone"},
         \/ files'[r] = files[r]
         \/ files'[r] \subseteq files[r] /\ where'[r] = "quarantine" /\ Settled(r),
         \/ owner'[r] = owner[r] /\ stop'[r] = stop[r]
         \/ owner'[r] = "exited" /\ stop'[r] = NoStop,
         UNCHANGED <<marker[r], boxed[r], rebooted[r], misread[r], sandbox[r], sidecar[r],
                     signalled[r]>>
  PROVE  LaunchRecord(r)' /\ StopRecord(r)'
<1>1. LaunchRecord(r)'
  BY DEF LaunchRecord, Dead, Settled, BeforeSpawn
<1>2. StopRecord(r)'
  BY DEF StopRecord, NoStop, BeforeSpawn
<1> QED BY <1>1, <1>2

LEMMA CleanerRecords ==
  ASSUME LiveInv, TypeOK', NEW c \in Cleaners, CleanerStep(c) \/ GiveUp(c)
  PROVE  Records'
<1> SUFFICES ASSUME NEW r \in Roots
             PROVE  LaunchRecord(r)' /\ StopRecord(r)'
  BY DEF Records
<1>0. TypeOK /\ LaunchRecord(r) /\ StopRecord(r)
  BY DEF LiveInv, Inv, Records
<1>1. UNCHANGED <<marker, boxed, rebooted, misread, sandbox, sidecar, signalled>>
  BY DEF CleanerStep, Verify, OpenJournal, WriteJournal, RenameRoot, RemoveEntry, RemoveDirectory,
         RemovalLost, RemoveJournal, GiveUp, Finish, dirVars, pastVars, procVars, ownVars
<1>2. \/ owner'[r] = owner[r] /\ stop'[r] = stop[r]
      \/ owner'[r] = "exited" /\ stop'[r] = NoStop
  <2>1. CASE Finish(c)
    BY <2>1 DEF Finish
  <2>2. CASE UNCHANGED <<owner, stop>>
    BY <2>2
  <2>3. Finish(c) \/ UNCHANGED <<owner, stop>>
    BY DEF CleanerStep, Verify, OpenJournal, WriteJournal, RenameRoot, RemoveEntry,
           RemoveDirectory, RemovalLost, RemoveJournal, GiveUp, ownVars
  <2> QED BY <2>1, <2>2, <2>3
<1>3. CASE RemoveEntry(c)
  <2>1. PICK f \in files[job[c].root] : files' = [files EXCEPT ![job[c].root] = @ \ {f}]
    BY <1>3 DEF RemoveEntry
  <2>2. job[c].root \in Roots /\ Settled(job[c].root) /\ where[job[c].root] = "quarantine"
    BY <1>0, <1>3 DEF RemoveEntry, LiveInv, Verified, TypeOK
  <2>3. UNCHANGED where
    BY <1>3 DEF RemoveEntry
  <2>4. \/ files'[r] = files[r]
        \/ files'[r] \subseteq files[r] /\ where'[r] = "quarantine" /\ Settled(r)
    BY <1>0, <2>1, <2>2, <2>3 DEF TypeOK
  <2> QED BY <1>0, <1>1, <1>2, <2>3, <2>4, CleanedRecord
<1>4. CASE ~RemoveEntry(c)
  <2>1. UNCHANGED files
    BY <1>4 DEF CleanerStep, Verify, OpenJournal, WriteJournal, RenameRoot, RemoveDirectory,
         RemovalLost, RemoveJournal, GiveUp, dirVars
  <2>2. \/ UNCHANGED where
        \/ \E state \in {"quarantine", "gone"} : where' = [where EXCEPT ![job[c].root] = state]
    BY <1>4 DEF CleanerStep, Verify, OpenJournal, WriteJournal, RenameRoot, RemoveDirectory,
         RemovalLost, RemoveJournal, GiveUp, dirVars
  <2>3. where'[r] = where[r] \/ where'[r] \in {"quarantine", "gone"}
    BY <1>0, <2>2 DEF TypeOK
  <2> QED BY <1>0, <1>1, <1>2, <2>1, <2>3, CleanedRecord
<1> QED BY <1>3, <1>4

(* Dead is for ever.                                                          *)
LEMMA DeadStays ==
  ASSUME TypeOK, NEW r \in Roots, Dead(r), boxed'[r] = boxed[r],
         owner'[r] = owner[r] \/ owner'[r] = "exited",
         sandbox'[r] = "alive" => sandbox[r] = "alive",
         \/ sidecar'[r] = sidecar[r] \/ sidecar'[r] = "gone"
         \/ sidecar[r] \notin {"none", "gone"} \/ (boxed[r] /\ sidecar[r] = "none" /\ sandbox[r] = "alive")
  PROVE  Dead(r)'
  BY DEF Dead

(* A step of one owner, of its processes or of its clock is seen in its own   *)
(* directory only.                                                            *)
LEMMA Elsewhere ==
  ASSUME TypeOK, NEW r \in Roots, NEW q \in Roots, q # r,
         OwnerStep(r) \/ ProcessStep(r) \/ Signal(r) \/ OwnerKilled(r) \/ GrowOld(r)
  PROVE  UNCHANGED View(q)
<1> USE DEF View, TypeOK, NextOwner, pastVars, procVars, dirVars, ownVars
<1>0. ASSUME NEW state, OwnerTo(r, state)
      PROVE  owner'[q] = owner[q]
  BY <1>0 DEF OwnerTo
<1>01. ASSUME NEW w, NEW state, Shutdown(r, w, state)
       PROVE  stop'[q] = stop[q]
  BY <1>01 DEF Shutdown
<1>02. ASSUME StartCleanup(r)
       PROVE  owner'[q] = owner[q]
  BY <1>02, <1>0 DEF StartCleanup
<1>1. CASE SignalBeforeAllocation(r) \/ MakeRoot(r) \/ WriteMarker(r)
  BY <1>1, <1>0 DEF SignalBeforeAllocation, MakeRoot, WriteMarker
<1>2. CASE CleanupBeforeLaunch(r) \/ markScratchLaunching(r) \/ markScratchUnlaunched(r)
  BY <1>2, <1>0, <1>02 DEF CleanupBeforeLaunch, markScratchLaunching, markScratchUnlaunched
<1>3. CASE recordLaunchIntent(r) \/ spawnOwnedCommand(r)
  BY <1>3, <1>0 DEF recordLaunchIntent, spawnOwnedCommand
<1>4. CASE markSpawnFailed(r)
  BY <1>4, <1>0, <1>02 DEF markSpawnFailed
<1>5. CASE LaunchFails(r)
  <2>1. files'[q] = files[q] /\ marker'[q] = marker[q]
    BY <1>5 DEF LaunchFails
  <2> QED BY <1>5, <1>02, <2>1 DEF LaunchFails
<1>6. CASE markScratchRunning(r)
  BY <1>6, <1>0, <1>01 DEF markScratchRunning
<1>7. CASE RunningFails(r)
  <2>1. marker'[q] = marker[q]
    BY <1>7 DEF RunningFails
  <2> QED BY <1>7, <1>0, <1>01, <2>1 DEF RunningFails
<1>8. CASE ChildCloses(r)
  BY <1>8, <1>0, <1>01 DEF ChildCloses
<1>9. ASSUME NEW w \in {"signal", "close"},
             \/ ObserveSandboxGone(r, w) \/ ReadPublished(r, w) \/ NothingPublished(r, w)
             \/ PollExpires(r, w) \/ StopPublished(r, w) \/ StopSandbox(r, w)
      PROVE  UNCHANGED View(q)
  <2>1. CASE ObserveSandboxGone(r, w) \/ ReadPublished(r, w) \/ PollExpires(r, w)
    BY <2>1, <1>01 DEF ObserveSandboxGone, ReadPublished, PollExpires, NextStop, SameRun
  <2>2. CASE NothingPublished(r, w)
    BY <2>2, <1>01 DEF NothingPublished, NextStop, SameRun
  <2>3. CASE StopPublished(r, w)
    BY <2>3, <1>01 DEF StopPublished, NextStop, SameRun
  <2>4. CASE StopSandbox(r, w)
    BY <2>4, <1>01 DEF StopSandbox, NextStop, SameRun
  <2> QED BY <1>9, <2>1, <2>2, <2>3, <2>4
<1>10. CASE StopDone(r)
  BY <1>10, <1>0, <1>02 DEF StopDone
<1>11. CASE ProcessStep(r)
  BY <1>11 DEF ProcessStep, StartSidecar, PublishGroup, SpawnCommand, SidecarEnds, SandboxExits,
               SandboxKilled, SameOwner
<1>12. CASE Signal(r)
  BY <1>12, <1>01 DEF Signal
<1>13. CASE OwnerKilled(r)
  BY <1>13, <1>0 DEF OwnerKilled
<1>14. CASE GrowOld(r)
  BY <1>14 DEF GrowOld
<1> QED BY <1>1, <1>2, <1>3, <1>4, <1>5, <1>6, <1>7, <1>8, <1>9, <1>10, <1>11, <1>12, <1>13,
           <1>14 DEF OwnerStep, ShutdownStep

(* The launch and the shutdown, seen from their own directory.                *)
LEMMA LaunchRecords ==
  ASSUME LiveInv, TypeOK', NEW r \in Roots, OwnerStep(r),
         \A w \in {"signal", "close"} :
            ~ \/ ObserveSandboxGone(r, w) \/ ReadPublished(r, w) \/ NothingPublished(r, w)
              \/ PollExpires(r, w) \/ StopPublished(r, w) \/ StopSandbox(r, w)
  PROVE  LaunchRecord(r)' /\ StopRecord(r)'
<1> USE DEF NextOwner, pastVars, procVars, dirVars, BeforeSpawn
<1>0. TypeOK /\ LaunchRecord(r) /\ StopRecord(r) /\ (rebooted[r] => owner[r] = "exited")
  BY DEF LiveInv, Inv, Records, Directories
<1>01. ASSUME NEW state, OwnerTo(r, state)
       PROVE  owner'[r] = state
  BY <1>0, <1>01 DEF OwnerTo, TypeOK
<1>02. ASSUME StartCleanup(r)
       PROVE  owner'[r] = "cleanup"
  BY <1>0, <1>02 DEF StartCleanup, OwnerTo, TypeOK
<1>03. NoStop.signal = "idle" /\ NoStop.close = "idle"
  BY DEF NoStop
<1>1. CASE SignalBeforeAllocation(r)
  BY <1>0, <1>01, <1>03, <1>1 DEF SignalBeforeAllocation, LaunchRecord, StopRecord
<1>2. CASE MakeRoot(r)
  BY <1>0, <1>01, <1>03, <1>2 DEF MakeRoot, LaunchRecord, StopRecord
<1>3. CASE WriteMarker(r)
  <2>1. files'[r] = {"marker"}
    BY <1>0, <1>3 DEF WriteMarker, TypeOK
  <2> QED BY <1>0, <1>01, <1>03, <1>3, <2>1 DEF WriteMarker, LaunchRecord, StopRecord
<1>4. CASE CleanupBeforeLaunch(r)
  BY <1>0, <1>02, <1>03, <1>4 DEF CleanupBeforeLaunch, LaunchRecord, StopRecord
<1>5. CASE markScratchLaunching(r)
  <2>1. marker'[r] = "launching"
    BY <1>0, <1>5 DEF markScratchLaunching, TypeOK
  <2> QED BY <1>0, <1>01, <1>03, <1>5, <2>1 DEF markScratchLaunching, LaunchRecord, StopRecord
<1>6. CASE markScratchUnlaunched(r)
  <2>1. marker'[r] = "allocated"
    BY <1>0, <1>6 DEF markScratchUnlaunched, TypeOK
  <2> QED BY <1>0, <1>02, <1>03, <1>6, <2>1 DEF markScratchUnlaunched, LaunchRecord, StopRecord
<1>7. CASE recordLaunchIntent(r)
  <2>1. files'[r] = IF boxed[r] THEN files[r] \cup {"intent"} ELSE files[r]
    BY <1>0, <1>7 DEF recordLaunchIntent, TypeOK
  <2> QED BY <1>0, <1>01, <1>03, <1>7, <2>1 DEF recordLaunchIntent, LaunchRecord, StopRecord
<1>8. CASE spawnOwnedCommand(r)
  <2>1. sandbox'[r] = "alive"
    BY <1>0, <1>8 DEF spawnOwnedCommand, TypeOK
  <2> QED BY <1>0, <1>01, <1>03, <1>8, <2>1 DEF spawnOwnedCommand, LaunchRecord, StopRecord
<1>9. CASE markSpawnFailed(r)
  <2>1. files'[r] = files[r] \ {"intent"} /\ marker'[r] = "allocated"
    BY <1>0, <1>9 DEF markSpawnFailed, TypeOK
  <2>2. owner'[r] \in {"exited", "cleanup"}
    BY <1>01, <1>02, <1>9 DEF markSpawnFailed
  <2> QED BY <1>0, <1>03, <1>9, <2>1, <2>2 DEF markSpawnFailed, LaunchRecord, StopRecord
<1>10. CASE LaunchFails(r)
  <2>1. files[r] \subseteq files'[r] /\ ("group" \in files'[r] => "group" \in files[r])
    BY <1>0, <1>10 DEF LaunchFails, TypeOK
  <2> QED BY <1>0, <1>02, <1>03, <1>10, <2>1 DEF LaunchFails, LaunchRecord, StopRecord
<1>11. CASE markScratchRunning(r)
  <2>1. marker'[r] = "running"
    BY <1>0, <1>11 DEF markScratchRunning, TypeOK
  <2>2. /\ stop'[r].close = "idle"
        /\ stop'[r].signal \in {"idle", "poll", "box_ok"}
        /\ stop'[r].signal # "idle" => signalled[r]
    <3>1. CASE signalled[r]
      <4>1. Shutdown(r, "signal", FirstStop(r))
        BY <1>11, <3>1 DEF markScratchRunning
      <4>2. FirstStop(r) \in {"poll", "box_ok"}
        BY DEF FirstStop
      <4> QED BY <1>0, <1>03, <1>11, <3>1, <4>1, <4>2, StopValue, FirstStopType
              DEF markScratchRunning, StopRecord
    <3> QED BY <1>0, <1>03, <1>11, <3>1 DEF markScratchRunning, StopRecord
  <2> QED BY <1>0, <1>01, <1>11, <2>1, <2>2 DEF markScratchRunning, LaunchRecord, StopRecord
<1>12. CASE RunningFails(r)
  <2>1. marker'[r] \in {"launching", "running"}
    BY <1>0, <1>12 DEF RunningFails, TypeOK
  <2>2. stop'[r].signal = "idle" /\ stop'[r].close # "gone"
    <3>1. FirstStop(r) \in {"poll", "box_ok"} /\ Shutdown(r, "close", FirstStop(r))
      BY <1>12 DEF FirstStop, RunningFails
    <3> QED BY <1>0, <1>03, <1>12, <3>1, StopValue, FirstStopType DEF RunningFails, StopRecord
  <2> QED BY <1>0, <1>01, <1>12, <2>1, <2>2 DEF RunningFails, LaunchRecord, StopRecord
<1>13. CASE ChildCloses(r)
  <2>1. stop'[r].signal = stop[r].signal /\ (stop'[r].close = "gone" => stop[r].close = "gone")
    <3>1. CASE stop[r].signal = "idle"
      <4>1. FirstStop(r) \in {"poll", "box_ok"} /\ Shutdown(r, "close", FirstStop(r))
        BY <1>13, <3>1 DEF FirstStop, ChildCloses
      <4> QED BY <1>0, <4>1, StopValue, FirstStopType
    <3> QED BY <1>13, <3>1 DEF ChildCloses
  <2> QED BY <1>0, <1>01, <1>13, <2>1 DEF ChildCloses, LaunchRecord, StopRecord
<1>14. CASE StopDone(r)
  <2>1. CASE StartCleanup(r) /\ UNCHANGED stop /\ owner[r] = "stopping"
    BY <1>0, <1>02, <1>14, <2>1 DEF StopDone, LaunchRecord, StopRecord
  <2>2. CASE OwnerTo(r, "exited") /\ stop' = [stop EXCEPT ![r] = NoStop]
    <3>1. stop'[r] = NoStop
      BY <1>0, <2>2 DEF TypeOK
    <3> QED BY <1>0, <1>01, <1>03, <1>14, <2>2, <3>1 DEF StopDone, LaunchRecord, StopRecord
  <2> QED BY <1>14, <2>1, <2>2 DEF StopDone
<1> QED BY <1>1, <1>2, <1>3, <1>4, <1>5, <1>6, <1>7, <1>8, <1>9, <1>10, <1>11, <1>12, <1>13,
           <1>14 DEF OwnerStep, ShutdownStep

LEMMA ShutdownRecords ==
  ASSUME LiveInv, TypeOK', NEW r \in Roots, NEW w \in {"signal", "close"},
         \/ ObserveSandboxGone(r, w) \/ ReadPublished(r, w) \/ NothingPublished(r, w)
         \/ PollExpires(r, w) \/ StopPublished(r, w) \/ StopSandbox(r, w)
  PROVE  LaunchRecord(r)' /\ StopRecord(r)'
<1>0. TypeOK /\ LaunchRecord(r) /\ StopRecord(r)
  BY DEF LiveInv, Inv, Records
<1>1. SameRun /\ owner[r] # "exited" /\ stop[r][w] \in StopState \ {"idle"}
  BY DEF ObserveSandboxGone, ReadPublished, NothingPublished, PollExpires, StopPublished,
         StopSandbox, Stopping, StopState, NextStop
<1>2. owner[r] \notin BeforeSpawn \cup {"spawned", "exited"}
  BY <1>0, <1>1 DEF StopRecord, NoStop
<1>3. UNCHANGED <<where, marker, owner, signalled, boxed, rebooted>>
  BY <1>1 DEF SameRun
<1>31. misread[r] => misread'[r]
  BY <1>0 DEF ObserveSandboxGone, ReadPublished, NothingPublished, PollExpires, StopPublished,
         StopSandbox, NextStop, TypeOK
<1>4. PICK state \in StopState :
         /\ Shutdown(r, w, state)
         /\ state # "idle"
         /\ state = "poll" => FALSE
         /\ state = "gone" => sandbox[r] # "alive" /\ stop[r][w] = "poll" /\ UNCHANGED sandbox
  BY DEF ObserveSandboxGone, ReadPublished, NothingPublished, PollExpires, StopPublished,
         StopSandbox, Stopping, StopState, procVars
<1>5. /\ stop'[r].signal = IF w = "signal" THEN state ELSE stop[r].signal
      /\ stop'[r].close = IF w = "close" THEN state ELSE stop[r].close
  BY <1>0, <1>4, StopValue
<1>6. CASE sandbox'[r] = sandbox[r]
  <2>1. StopRecord(r)'
    BY <1>0, <1>1, <1>2, <1>3, <1>4, <1>5, <1>6 DEF StopRecord, BeforeSpawn
  <2>2. CASE files'[r] = files[r] /\ (sidecar'[r] = sidecar[r] \/ sidecar'[r] = "gone")
    BY <1>0, <1>2, <1>3, <1>31, <1>6, <2>1, <2>2 DEF LaunchRecord, BeforeSpawn
  <2>3. CASE /\ files'[r] = files[r] \ {"intent"} /\ NothingPublished(r, w)
             /\ ~sandboxKilled(r, w) /\ (w = "signal" /\ sandbox[r] = "killed" => misread'[r])
    <3>1. sandbox[r] \in {"none", "exited"} \/ misread'[r]
      <4>1. sandbox[r] # "alive" /\ stop[r][w] = "gone"
        BY <1>0, <2>3 DEF NothingPublished, Stopping, StopRecord
      <4>2. CASE w = "signal"
        BY <1>0, <2>3, <4>1, <4>2 DEF TypeOK
      <4>3. CASE w = "close"
        BY <1>0, <2>3, <4>1, <4>3 DEF sandboxKilled, TypeOK
      <4> QED BY <4>2, <4>3
    <3>2. UNCHANGED <<sandbox, sidecar>>
      BY <2>3 DEF NothingPublished, procVars
    <3> QED BY <1>0, <1>2, <1>3, <1>31, <2>1, <2>3, <3>1, <3>2 DEF LaunchRecord, BeforeSpawn
  <2>4. \/ files'[r] = files[r] /\ (sidecar'[r] = sidecar[r] \/ sidecar'[r] = "gone")
        \/ /\ files'[r] = files[r] \ {"intent"} /\ NothingPublished(r, w)
           /\ ~sandboxKilled(r, w) /\ (w = "signal" /\ sandbox[r] = "killed" => misread'[r])
    <3>1. CASE ObserveSandboxGone(r, w) \/ ReadPublished(r, w) \/ PollExpires(r, w)
      BY <3>1 DEF ObserveSandboxGone, ReadPublished, PollExpires, procVars
    <3>2. CASE NothingPublished(r, w)
      BY <1>0, <3>2 DEF NothingPublished, procVars, TypeOK
    <3>3. CASE StopPublished(r, w)
      BY <1>0, <3>3 DEF StopPublished, TypeOK
    <3>4. CASE StopSandbox(r, w)
      BY <3>4 DEF StopSandbox
    <3> QED BY <3>1, <3>2, <3>3, <3>4
  <2> QED BY <2>2, <2>3, <2>4
<1>7. CASE sandbox'[r] # sandbox[r]
  <2>1. StopSandbox(r, w)
    BY <1>7 DEF ObserveSandboxGone, ReadPublished, NothingPublished, PollExpires, StopPublished,
                procVars
  <2>2. /\ sandbox[r] = "alive" /\ sandbox'[r] = "killed" /\ UNCHANGED <<files, sidecar>>
    BY <1>0, <1>7, <2>1 DEF StopSandbox, TypeOK
  <2>3. stop[r][w] \in {"box_ok", "box_bad"} /\ state \in {"stopped", "unstopped"}
    <3>1. \E x \in {"stopped", "unstopped"} : Shutdown(r, w, x)
      BY <2>1 DEF StopSandbox
    <3>2. stop'[r].signal = state \/ stop'[r].close = state
      BY <1>5
    <3>3. PICK x \in {"stopped", "unstopped"} : Shutdown(r, w, x)
      BY <3>1
    <3>4. x \in StopState
      BY DEF StopState
    <3>5. state = x
      BY <1>0, <1>5, <3>3, <3>4, StopValue
    <3> QED BY <2>1, <3>3, <3>5 DEF StopSandbox, Stopping
  <2>4. StopRecord(r)'
    BY <1>0, <1>2, <1>3, <1>5, <2>2, <2>3 DEF StopRecord, BeforeSpawn
  <2>5. LaunchRecord(r)'
    BY <1>0, <1>2, <1>3, <1>31, <2>2 DEF LaunchRecord, BeforeSpawn
  <2> QED BY <2>4, <2>5
<1> QED BY <1>6, <1>7

LEMMA ProcessRecords ==
  ASSUME LiveInv, TypeOK', NEW r \in Roots, ProcessStep(r)
  PROVE  LaunchRecord(r)' /\ StopRecord(r)'
<1>0. TypeOK /\ LaunchRecord(r) /\ StopRecord(r)
  BY DEF LiveInv, Inv, Records
<1>1. UNCHANGED <<where, marker, owner, signalled, stop, boxed, rebooted, misread>>
  BY DEF ProcessStep, StartSidecar, PublishGroup, SpawnCommand, SidecarEnds, SandboxExits,
         SandboxKilled, SameOwner, pastVars, ownVars
<1>2. CASE StartSidecar(r)
  <2>1. sidecar'[r] = "starting"
    BY <1>0, <1>2 DEF StartSidecar, TypeOK
  <2> QED BY <1>0, <1>1, <1>2, <2>1 DEF StartSidecar, LaunchRecord, StopRecord
<1>3. CASE PublishGroup(r)
  <2>1. \/ files'[r] = files[r] \cup {"group"} /\ sidecar'[r] = "published"
        \/ files'[r] = files[r] /\ sidecar'[r] = "gone"
    BY <1>0, <1>3 DEF PublishGroup, TypeOK
  <2> QED BY <1>0, <1>1, <1>3, <2>1 DEF PublishGroup, LaunchRecord, StopRecord
<1>4. CASE SpawnCommand(r)
  <2>1. sidecar'[r] = "command"
    BY <1>0, <1>4 DEF SpawnCommand, TypeOK
  <2> QED BY <1>0, <1>1, <1>4, <2>1 DEF SpawnCommand, LaunchRecord, StopRecord
<1>5. CASE SidecarEnds(r)
  <2>1. sidecar'[r] = "gone"
    BY <1>0, <1>5 DEF SidecarEnds, TypeOK
  <2> QED BY <1>0, <1>1, <1>5, <2>1 DEF SidecarEnds, LaunchRecord, StopRecord
<1>6. CASE SandboxExits(r)
  <2>1. sandbox'[r] = "exited"
    BY <1>0, <1>6 DEF SandboxExits, TypeOK
  <2> QED BY <1>0, <1>1, <1>6, <2>1 DEF SandboxExits, LaunchRecord, StopRecord
<1>7. CASE SandboxKilled(r)
  <2>1. sandbox'[r] = "killed"
    BY <1>0, <1>7 DEF SandboxKilled, TypeOK
  <2> QED BY <1>0, <1>1, <1>7, <2>1 DEF SandboxKilled, LaunchRecord, StopRecord
<1> QED BY <1>2, <1>3, <1>4, <1>5, <1>6, <1>7 DEF ProcessStep

LEMMA EventRecords ==
  ASSUME LiveInv, TypeOK', NEW r \in Roots,
         Signal(r) \/ OwnerKilled(r) \/ GrowOld(r)
  PROVE  LaunchRecord(r)' /\ StopRecord(r)'
<1>0. TypeOK /\ LaunchRecord(r) /\ StopRecord(r)
  BY DEF LiveInv, Inv, Records
<1>1. CASE Signal(r)
  <2>1. /\ ~signalled[r] /\ signalled'[r]
        /\ UNCHANGED <<where, files, marker, rebooted, misread, boxed, sandbox, sidecar, owner>>
    BY <1>0, <1>1 DEF Signal, dirVars, pastVars, procVars, TypeOK
  <2>2. CASE UNCHANGED stop
    BY <1>0, <2>1, <2>2 DEF LaunchRecord, StopRecord
  <2>3. CASE Shutdown(r, "signal", FirstStop(r)) /\ owner[r] \in {"running", "stopping", "cleanup"}
    <3>1. FirstStop(r) \in {"poll", "box_ok"}
      BY DEF FirstStop
    <3>2. stop'[r].signal = FirstStop(r) /\ stop'[r].close = stop[r].close
      BY <1>0, <2>3, StopValue, FirstStopType
    <3> QED BY <1>0, <2>1, <2>3, <3>1, <3>2 DEF LaunchRecord, StopRecord, BeforeSpawn
  <2> QED BY <1>1, <2>2, <2>3 DEF Signal
<1>2. CASE OwnerKilled(r)
  <2>1. owner'[r] = "exited" /\ stop'[r] = NoStop
    BY <1>0, <1>2 DEF OwnerKilled, OwnerTo, TypeOK
  <2>2. UNCHANGED <<where, files, marker, rebooted, misread, boxed, sandbox, sidecar, signalled>>
    BY <1>2 DEF OwnerKilled, dirVars, pastVars, procVars
  <2> QED BY <1>0, <2>1, <2>2, CleanedRecord
<1>3. CASE GrowOld(r)
  <2>1. UNCHANGED View(r)
    BY <1>3 DEF GrowOld, View, dirVars, procVars, ownVars
  <2> QED BY <1>0, <2>1, SameView
<1> QED BY <1>1, <1>2, <1>3

LEMMA RebootRecords ==
  ASSUME LiveInv, TypeOK', Reboot
  PROVE  Records'
<1> SUFFICES ASSUME NEW r \in Roots
             PROVE  LaunchRecord(r)' /\ StopRecord(r)'
  BY DEF Records
<1>0. TypeOK /\ LaunchRecord(r) /\ StopRecord(r)
  BY DEF LiveInv, Inv, Records
<1>1. /\ owner'[r] = IF OwnerAlive(r) THEN "exited" ELSE owner[r]
      /\ sandbox'[r] = IF sandbox[r] = "alive" THEN "killed" ELSE sandbox[r]
      /\ sidecar'[r] = IF sidecar[r] = "none" THEN "none" ELSE "gone"
      /\ stop'[r] = NoStop
      /\ UNCHANGED <<where, files, marker, boxed, signalled, misread>>
  BY DEF Reboot, dirVars
<1>2. LaunchRecord(r)'
  BY <1>0, <1>1 DEF LaunchRecord, OwnerAlive, BeforeSpawn
<1>3. StopRecord(r)'
  BY <1>0, <1>1 DEF StopRecord, OwnerAlive, BeforeSpawn, NoStop
<1> QED BY <1>2, <1>3

(* Dead is for ever, whatever the rest of the system does.                    *)
LEMMA DeadForEver ==
  ASSUME LiveInv, [Next]_vars, NEW r \in Roots, Dead(r)
  PROVE  Dead(r)'
<1>0. TypeOK /\ LaunchRecord(r)
  BY DEF LiveInv, Inv, Records
<1>1. CASE UNCHANGED vars
  BY <1>1 DEF vars, procVars, ownVars, Dead
<1>2. ASSUME NEW c \in Cleaners, CleanerStep(c) \/ GiveUp(c)
      PROVE  Dead(r)'
  <2>1. UNCHANGED <<boxed, sandbox, sidecar>>
    BY <1>2 DEF CleanerStep, Verify, OpenJournal, WriteJournal, RenameRoot, RemoveEntry,
           RemoveDirectory, RemovalLost, RemoveJournal, GiveUp, procVars
  <2>2. Finish(c) \/ UNCHANGED owner
    BY <1>2 DEF CleanerStep, Verify, OpenJournal, WriteJournal, RenameRoot, RemoveEntry,
           RemoveDirectory, RemovalLost, RemoveJournal, GiveUp, ownVars
  <2>3. owner'[r] = owner[r] \/ owner'[r] = "exited"
    BY <2>2 DEF Finish
  <2> QED BY <1>0, <2>1, <2>3, DeadStays
<1>3. ASSUME NEW p \in Passes, NEW q \in Roots, Inspect(p, q)
      PROVE  Dead(r)'
  BY <1>3 DEF Inspect, recoverRunCandidate, recoverJournal, recoverCompatibleQuarantine, Begin,
              procVars, ownVars, Dead
<1>4. ASSUME NEW q \in Roots, q # r,
             OwnerStep(q) \/ ProcessStep(q) \/ Signal(q) \/ OwnerKilled(q) \/ GrowOld(q)
      PROVE  Dead(r)'
  BY <1>0, <1>4, Elsewhere DEF View, Dead
<1>5. CASE OwnerStep(r)
  <2>1. PICK w \in {"signal", "close"} :
          \/ ObserveSandboxGone(r, w) \/ ReadPublished(r, w) \/ NothingPublished(r, w)
          \/ PollExpires(r, w) \/ StopPublished(r, w) \/ StopSandbox(r, w)
    BY <1>5 DEF OwnerStep, ShutdownStep, Dead, SignalBeforeAllocation, MakeRoot, WriteMarker,
                CleanupBeforeLaunch, markScratchLaunching, markScratchUnlaunched,
                recordLaunchIntent, spawnOwnedCommand, markSpawnFailed, LaunchFails,
                markScratchRunning, RunningFails, ChildCloses, StopDone
  <2>2. UNCHANGED <<owner, boxed>>
    BY <2>1 DEF ObserveSandboxGone, ReadPublished, NothingPublished, PollExpires, StopPublished,
                StopSandbox, NextStop, SameRun
  <2>3. sidecar'[r] = sidecar[r] \/ sidecar'[r] = "gone"
    BY <1>0, <2>1 DEF ObserveSandboxGone, ReadPublished, NothingPublished, PollExpires,
                StopPublished, StopSandbox, procVars, TypeOK
  <2>4. sandbox'[r] = "alive" => sandbox[r] = "alive"
    BY <1>0, <2>1 DEF ObserveSandboxGone, ReadPublished, NothingPublished, PollExpires,
                StopPublished, StopSandbox, procVars, TypeOK
  <2> QED BY <1>0, <2>2, <2>3, <2>4, DeadStays
<1>6. CASE ProcessStep(r)
  <2>1. UNCHANGED <<owner, boxed>>
    BY <1>6 DEF ProcessStep, StartSidecar, PublishGroup, SpawnCommand, SidecarEnds, SandboxExits,
                SandboxKilled, SameOwner, ownVars
  <2>2. sandbox'[r] = "alive" => sandbox[r] = "alive"
    BY <1>0, <1>6 DEF ProcessStep, StartSidecar, PublishGroup, SpawnCommand, SidecarEnds,
                SandboxExits, SandboxKilled, TypeOK
  <2>3. CASE boxed[r]
    <3>1. sidecar'[r] = sidecar[r] \/ sidecar'[r] = "gone"
      BY <1>0, <1>6, <2>3 DEF Dead, ProcessStep, StartSidecar, PublishGroup, SpawnCommand,
                SidecarEnds, SandboxExits, SandboxKilled, TypeOK
    <3> QED BY <1>0, <2>1, <2>2, <3>1, DeadStays
  <2>4. CASE ~boxed[r]
    BY <2>1, <2>2, <2>4 DEF Dead
  <2> QED BY <2>3, <2>4
<1>7. CASE Signal(r) \/ OwnerKilled(r) \/ GrowOld(r)
  <2>1. owner'[r] = owner[r] \/ owner'[r] = "exited"
    BY <1>0, <1>7 DEF Signal, OwnerKilled, GrowOld, OwnerTo, ownVars, TypeOK
  <2>2. UNCHANGED <<boxed, sandbox, sidecar>>
    BY <1>7 DEF Signal, OwnerKilled, GrowOld, procVars
  <2> QED BY <1>0, <2>1, <2>2, DeadStays
<1>8. CASE Reboot
  <2>1. /\ owner'[r] = owner[r] \/ owner'[r] = "exited"
        /\ sandbox'[r] # "alive"
        /\ sidecar'[r] = IF sidecar[r] = "none" THEN "none" ELSE "gone"
        /\ UNCHANGED boxed
    BY <1>8 DEF Reboot
  <2> QED BY <2>1 DEF Dead
<1> QED BY <1>1, <1>2, <1>3, <1>4, <1>5, <1>6, <1>7, <1>8 DEF Next

(* What was misread stays so.                                                 *)
LEMMA MisreadKept ==
  ASSUME TypeOK, [Next]_vars, NEW r \in Roots, misread[r]
  PROVE  misread'[r]
<1> USE DEF pastVars, NextOwner, SameOwner, NextStop
<1>1. CASE UNCHANGED vars
  BY <1>1 DEF vars
<1>2. ASSUME NEW c \in Cleaners, CleanerStep(c) \/ GiveUp(c)
      PROVE  UNCHANGED misread
  BY <1>2 DEF CleanerStep, Verify, OpenJournal, WriteJournal, RenameRoot, RemoveEntry,
         RemoveDirectory, RemovalLost, RemoveJournal, GiveUp
<1>3. ASSUME NEW p \in Passes, NEW q \in Roots, Inspect(p, q)
      PROVE  UNCHANGED misread
  BY <1>3 DEF Inspect, recoverRunCandidate, recoverJournal, recoverCompatibleQuarantine, Begin
<1>4. ASSUME NEW q \in Roots, OwnerStep(q)
      PROVE  misread'[r]
  <2>1. CASE \E w \in {"signal", "close"} : NothingPublished(q, w)
    BY <2>1 DEF NothingPublished, TypeOK
  <2>2. CASE \E w \in {"signal", "close"} :
               \/ ObserveSandboxGone(q, w) \/ ReadPublished(q, w) \/ PollExpires(q, w)
               \/ StopPublished(q, w) \/ StopSandbox(q, w)
    BY <2>2 DEF ObserveSandboxGone, ReadPublished, PollExpires, StopPublished, StopSandbox
  <2>3. CASE \/ SignalBeforeAllocation(q) \/ MakeRoot(q) \/ WriteMarker(q)
             \/ CleanupBeforeLaunch(q) \/ markScratchLaunching(q) \/ markScratchUnlaunched(q)
             \/ recordLaunchIntent(q)
    BY <2>3 DEF SignalBeforeAllocation, MakeRoot, WriteMarker, CleanupBeforeLaunch,
           markScratchLaunching, markScratchUnlaunched, recordLaunchIntent
  <2>4. CASE \/ spawnOwnedCommand(q) \/ markSpawnFailed(q) \/ LaunchFails(q)
             \/ markScratchRunning(q) \/ RunningFails(q) \/ ChildCloses(q) \/ StopDone(q)
    BY <2>4 DEF spawnOwnedCommand, markSpawnFailed, LaunchFails, markScratchRunning,
           RunningFails, ChildCloses, StopDone
  <2> QED BY <1>4, <2>1, <2>2, <2>3, <2>4 DEF OwnerStep, ShutdownStep
<1>5. ASSUME NEW q \in Roots, ProcessStep(q) \/ Signal(q) \/ OwnerKilled(q) \/ GrowOld(q)
      PROVE  UNCHANGED misread
  BY <1>5 DEF ProcessStep, StartSidecar, PublishGroup, SpawnCommand, SidecarEnds, SandboxExits,
         SandboxKilled, Signal, OwnerKilled, GrowOld
<1>6. CASE Reboot
  BY <1>6 DEF Reboot
<1> QED BY <1>1, <1>2, <1>3, <1>4, <1>5, <1>6 DEF Next

LEMMA SettledForEver ==
  ASSUME LiveInv, [Next]_vars, NEW r \in Roots, Settled(r)
  PROVE  Settled(r)'
  BY DeadForEver, MisreadKept DEF Settled, LiveInv, Inv

(* What Verify and createCleanupJournal read proves that nobody is in there.  *)
LEMMA VerifiedIsSettled ==
  ASSUME LiveInv, NEW c \in Cleaners, Verify(c), ~Finish(c)
  PROVE  Settled(job[c].root)
<1> DEFINE r == job[c].root
<1>0. TypeOK /\ r \in Roots
  BY DEF LiveInv, Inv, TypeOK
<1>1. /\ where[r] = "run" /\ "marker" \in files[r] /\ marker[r] # "launching"
      /\ marker[r] = "running" => groupAbsent(c, r) /\ sandboxGroupReason(c, r)
      /\ job[c].at = "verify"
  BY DEF Verify
<1>2. LaunchRecord(r)
  BY <1>0 DEF LiveInv, Records
<1>3. owner[r] \in {"cleanup", "exited"}
  BY <1>1 DEF LiveInv, Verified, Inv, Jobs, Cleaners
<1>4. c \in Foreign => rebooted[r]
  BY <1>1 DEF LiveInv, Verified
<1>5. CASE marker[r] = "allocated"
  BY <1>2, <1>3, <1>5 DEF LaunchRecord, Dead, Settled
<1>6. CASE marker[r] = "running"
  <2>1. CASE rebooted[r]
    BY <1>2, <1>3, <2>1 DEF LaunchRecord, Dead, Settled
  <2>2. CASE ~rebooted[r]
    <3>1. sandbox[r] # "alive"
      BY <1>1, <1>4, <1>6, <2>2 DEF groupAbsent
    <3>2. IF "group" \in files[r] THEN sidecar[r] \notin {"published", "command"}
                                  ELSE "intent" \notin files[r]
      BY <1>1, <1>4, <1>6, <2>2 DEF sandboxGroupReason, publishedAbsent
    <3>3. boxed[r] => sidecar[r] \in {"none", "gone"} \/ misread[r]
      BY <1>0, <1>1, <1>2, <3>2 DEF LaunchRecord, TypeOK
    <3> QED BY <1>3, <3>1, <3>3 DEF Dead, Settled
  <2> QED BY <2>1, <2>2
<1> QED BY <1>0, <1>1, <1>5, <1>6 DEF TypeOK, MarkerState

LEMMA VerifiedKept ==
  ASSUME LiveInv, TypeOK', [Next]_vars,
         \A r \in Roots : where'[r] \in {"quarantine", "gone"} \/ journal'[r] # "none" => Settled(r),
         \A c \in Cleaners :
            /\ job'[c].at \notin {"idle", "verify"} => Settled(job'[c].root)
            /\ job'[c].at # "idle" /\ c \in Foreign => rebooted'[job'[c].root]
            /\ job'[c].at # "idle" /\ c \in Roots => owner'[c] = "cleanup"
  PROVE  Verified'
<1>1. \A r \in Roots : Settled(r) => Settled(r)'
  BY SettledForEver
<1>2. \A c \in Cleaners : job'[c].root \in Roots
  BY DEF TypeOK
<1>3. \A c \in Cleaners : job'[c].at \notin {"idle", "verify"} => Settled(job[c].root)'
  BY <1>1, <1>2
<1> QED BY <1>1, <1>3 DEF Verified

LEMMA CleanerVerified ==
  ASSUME LiveInv, TypeOK', NEW c \in Cleaners, CleanerStep(c) \/ GiveUp(c)
  PROVE  Verified'
<1> DEFINE d == job[c].root
<1>0. TypeOK /\ Verified /\ d \in Roots
  BY DEF LiveInv, Inv, TypeOK
<1>01. [Next]_vars
  BY DEF Next
<1>1. Settled(d) \/ Verify(c) \/ GiveUp(c)
  BY <1>0 DEF Verified, CleanerStep, OpenJournal, WriteJournal, RenameRoot, RemoveEntry,
              RemoveDirectory, RemovalLost, RemoveJournal
<1>2. ASSUME NEW r \in Roots, where'[r] \in {"quarantine", "gone"} \/ journal'[r] # "none"
      PROVE  Settled(r)
  <2>1. CASE where'[r] = where[r] /\ journal'[r] = journal[r]
    BY <1>0, <1>2, <2>1 DEF Verified
  <2>2. CASE Verify(c) \/ GiveUp(c)
    BY <2>1, <2>2 DEF Verify, GiveUp, dirVars
  <2>3. CASE r # d
    <3>1. where'[r] = where[r]
      BY <1>0, <2>3 DEF TypeOK, CleanerStep, Verify, OpenJournal, WriteJournal, RenameRoot,
            RemoveEntry, RemoveDirectory, RemovalLost, RemoveJournal, GiveUp, dirVars
    <3>2. journal'[r] = journal[r]
      BY <1>0, <2>3 DEF TypeOK, CleanerStep, Verify, OpenJournal, WriteJournal, RenameRoot,
            RemoveEntry, RemoveDirectory, RemovalLost, RemoveJournal, GiveUp, dirVars
    <3> QED BY <2>1, <3>1, <3>2
  <2> QED BY <1>1, <2>2, <2>3
<1>3. job[c].at # "idle"
  BY DEF CleanerStep, Verify, OpenJournal, WriteJournal, RenameRoot, RemoveEntry,
         RemoveDirectory, RemovalLost, RemoveJournal, GiveUp
<1>4. /\ job'[c].root = d
      /\ \A b \in Cleaners : b # c => job'[b] = job[b] /\ (b \in Roots => owner'[b] = owner[b])
      /\ job'[c].at = "idle" \/ UNCHANGED owner
  <2>1. CASE Finish(c)
    BY <1>0, <2>1 DEF Finish, NoJob, TypeOK
  <2>2. CASE UNCHANGED <<ownVars, job>>
    BY <2>2 DEF ownVars
  <2>3. CASE \E step \in Step : Goto(c, step) /\ UNCHANGED ownVars
    BY <1>0, <2>3 DEF Goto, ownVars, TypeOK
  <2>4. CASE Verify(c) /\ ~Finish(c)
    BY <1>0, <2>4 DEF Verify, ownVars, TypeOK
  <2>5. \/ Finish(c) \/ UNCHANGED <<ownVars, job>> \/ Verify(c)
        \/ \E step \in Step : Goto(c, step) /\ UNCHANGED ownVars
    BY DEF CleanerStep, OpenJournal, WriteJournal, RenameRoot, RemoveEntry,
           RemoveDirectory, RemovalLost, RemoveJournal, GiveUp, Step
  <2> QED BY <2>1, <2>2, <2>3, <2>4, <2>5
<1>5. job'[c].at # "idle" => Settled(d)
  <2>1. CASE Finish(c)
    BY <1>0, <2>1 DEF Finish, NoJob, TypeOK
  <2>2. CASE Verify(c) /\ ~Finish(c)
    BY <2>2, VerifiedIsSettled
  <2>3. GiveUp(c) => Finish(c)
    BY DEF GiveUp
  <2> QED BY <1>1, <2>1, <2>2, <2>3
<1>6. UNCHANGED rebooted
  BY DEF CleanerStep, Verify, OpenJournal, WriteJournal, RenameRoot, RemoveEntry,
         RemoveDirectory, RemovalLost, RemoveJournal, GiveUp, pastVars
<1>7. ASSUME NEW b \in Cleaners
      PROVE  /\ job'[b].at \notin {"idle", "verify"} => Settled(job'[b].root)
             /\ job'[b].at # "idle" /\ b \in Foreign => rebooted'[job'[b].root]
             /\ job'[b].at # "idle" /\ b \in Roots => owner'[b] = "cleanup"
  BY <1>0, <1>3, <1>4, <1>5, <1>6 DEF Verified
<1> QED BY <1>01, <1>2, <1>7, VerifiedKept

LEMMA InspectVerified ==
  ASSUME LiveInv, TypeOK', NEW p \in Passes, NEW r \in Roots, Inspect(p, r)
  PROVE  Verified'
<1>0. TypeOK /\ Verified
  BY DEF LiveInv, Inv
<1>01. [Next]_vars
  BY DEF Next
<1>1. /\ p \in Foreign => rebooted[r]
      /\ \E how \in {"run", "journal", "quarantine"}, step \in Step :
           /\ step # "verify" => journal[r] # "none" \/ where[r] = "quarantine"
           /\ Begin(p, r, how, step)
  BY DEF Inspect, recoverRunCandidate, recoverJournal, recoverCompatibleQuarantine, Step,
         ownerAbsence
<1>2. PICK how \in {"run", "journal", "quarantine"}, step \in Step :
           /\ step # "verify" => journal[r] # "none" \/ where[r] = "quarantine"
           /\ Begin(p, r, how, step)
  BY <1>1
<1>3. p \in Cleaners /\ p \notin Roots
  BY ScratchAssumption DEF Cleaners
<1>4. /\ job'[p].at = step /\ job'[p].root = r
      /\ \A c \in Cleaners : c # p => job'[c] = job[c]
      /\ UNCHANGED <<where, journal, rebooted, owner>>
  BY <1>0, <1>2, <1>3 DEF Begin, TypeOK, dirVars, pastVars, ownVars
<1>5. \A q \in Roots : where'[q] \in {"quarantine", "gone"} \/ journal'[q] # "none" => Settled(q)
  BY <1>0, <1>4 DEF Verified
<1>6. step # "verify" => Settled(r)
  BY <1>0, <1>2 DEF Verified
<1>7. ASSUME NEW c \in Cleaners
      PROVE  /\ job'[c].at \notin {"idle", "verify"} => Settled(job'[c].root)
             /\ job'[c].at # "idle" /\ c \in Foreign => rebooted'[job'[c].root]
             /\ job'[c].at # "idle" /\ c \in Roots => owner'[c] = "cleanup"
  BY <1>0, <1>1, <1>3, <1>4, <1>6 DEF Verified
<1> QED BY <1>01, <1>5, <1>7, VerifiedKept

LEMMA RootVerified ==
  ASSUME LiveInv, TypeOK', NEW r \in Roots,
         OwnerStep(r) \/ ProcessStep(r) \/ Signal(r) \/ OwnerKilled(r) \/ GrowOld(r)
  PROVE  Verified'
<1>0. TypeOK /\ Verified /\ Directories /\ Jobs
  BY DEF LiveInv, Inv
<1>01. [Next]_vars
  BY DEF Next
<1>02. r \in Cleaners
  BY DEF Cleaners
<1>1. /\ UNCHANGED <<journal, rebooted>>
      /\ \A q \in Roots : q # r => owner'[q] = owner[q]
      /\ \A c \in Cleaners : c # r => job'[c] = job[c]
      /\ \A q \in Roots : where'[q] \in {"quarantine", "gone"} => where'[q] = where[q]
      /\ \/ job'[r] = job[r] /\ owner'[r] = owner[r]
         \/ job'[r].at = "idle"
         \/ job'[r] = job[r] /\ owner[r] \notin {"cleanup", "exited"}
         \/ job'[r].at = "verify" /\ owner'[r] = "cleanup"
  <2> USE DEF NextOwner, pastVars, dirVars, ownVars
  <2>1. CASE OwnerStep(r)
    <3>1. ASSUME NEW w \in {"signal", "close"},
                 \/ ObserveSandboxGone(r, w) \/ ReadPublished(r, w) \/ NothingPublished(r, w)
                 \/ PollExpires(r, w) \/ StopPublished(r, w) \/ StopSandbox(r, w)
          PROVE  UNCHANGED <<where, journal, rebooted, owner, job>>
      BY <3>1 DEF ObserveSandboxGone, ReadPublished, NothingPublished, PollExpires,
                  StopPublished, StopSandbox, NextStop, SameRun
    <3>2. \/ UNCHANGED <<where, journal, rebooted, owner, job>>
          \/ /\ owner[r] \notin {"cleanup", "exited"} /\ UNCHANGED <<journal, rebooted>>
             /\ UNCHANGED where \/ where' = [where EXCEPT ![r] = "run"]
             /\ \/ UNCHANGED job /\ (\E state \in OwnerState : OwnerTo(r, state))
                \/ StartCleanup(r)
      <4>1. CASE SignalBeforeAllocation(r) \/ MakeRoot(r) \/ WriteMarker(r)
        BY <4>1 DEF SignalBeforeAllocation, MakeRoot, WriteMarker, OwnerState
      <4>2. CASE CleanupBeforeLaunch(r) \/ markScratchLaunching(r) \/ markScratchUnlaunched(r)
        BY <4>2 DEF CleanupBeforeLaunch, markScratchLaunching, markScratchUnlaunched, OwnerState
      <4>3. CASE recordLaunchIntent(r) \/ spawnOwnedCommand(r) \/ markSpawnFailed(r)
        BY <4>3 DEF recordLaunchIntent, spawnOwnedCommand, markSpawnFailed, OwnerState
      <4>4. CASE LaunchFails(r) \/ markScratchRunning(r) \/ RunningFails(r)
        BY <4>4 DEF LaunchFails, markScratchRunning, RunningFails, OwnerState
      <4>5. CASE ChildCloses(r) \/ StopDone(r)
        BY <4>5 DEF ChildCloses, StopDone, OwnerState
      <4> QED BY <2>1, <3>1, <4>1, <4>2, <4>3, <4>4, <4>5 DEF OwnerStep, ShutdownStep
    <3>3. CASE UNCHANGED <<where, journal, rebooted, owner, job>>
      BY <3>3
    <3>4. CASE /\ owner[r] \notin {"cleanup", "exited"} /\ UNCHANGED <<journal, rebooted>>
               /\ UNCHANGED where \/ where' = [where EXCEPT ![r] = "run"]
               /\ \/ UNCHANGED job /\ (\E state \in OwnerState : OwnerTo(r, state))
                  \/ StartCleanup(r)
      <4>1. \A q \in Roots : where'[q] \in {"quarantine", "gone"} => where'[q] = where[q]
        BY <1>0, <3>4 DEF TypeOK
      <4>2. \A q \in Roots : q # r => owner'[q] = owner[q]
        BY <1>0, <3>4 DEF TypeOK, OwnerTo, StartCleanup
      <4>3. \A c \in Cleaners : c # r => job'[c] = job[c]
        BY <1>0, <3>4 DEF TypeOK, StartCleanup
      <4>4. UNCHANGED job \/ (job'[r].at = "verify" /\ owner'[r] = "cleanup")
        BY <1>0, <1>02, <3>4 DEF TypeOK, StartCleanup, OwnerTo
      <4> QED BY <3>4, <4>1, <4>2, <4>3, <4>4
    <3> QED BY <3>2, <3>3, <3>4
  <2>2. CASE ProcessStep(r) \/ Signal(r) \/ GrowOld(r)
    BY <2>2 DEF ProcessStep, StartSidecar, PublishGroup, SpawnCommand, SidecarEnds,
                SandboxExits, SandboxKilled, SameOwner, Signal, GrowOld
  <2>3. CASE OwnerKilled(r)
    BY <1>0, <1>02, <2>3 DEF OwnerKilled, OwnerTo, NoJob, TypeOK
  <2> QED BY <2>1, <2>2, <2>3
<1>2. \A q \in Roots : where'[q] \in {"quarantine", "gone"} \/ journal'[q] # "none" => Settled(q)
  BY <1>0, <1>1 DEF Verified
<1>3. ASSUME NEW c \in Cleaners
      PROVE  /\ job'[c].at \notin {"idle", "verify"} => Settled(job'[c].root)
             /\ job'[c].at # "idle" /\ c \in Foreign => rebooted'[job'[c].root]
             /\ job'[c].at # "idle" /\ c \in Roots => owner'[c] = "cleanup"
  <2>1. CASE c # r
    BY <1>0, <1>1, <2>1 DEF Verified
  <2>2. CASE c = r
    <3>1. r \notin Foreign
      BY ScratchAssumption
    <3>2. CASE job'[r] = job[r] /\ owner'[r] = owner[r]
      BY <1>0, <2>2, <3>1, <3>2 DEF Verified
    <3>3. CASE job'[r] = job[r] /\ owner[r] \notin {"cleanup", "exited"}
      BY <1>0, <2>2, <3>1, <3>3 DEF Verified
    <3> QED BY <1>1, <2>2, <3>1, <3>2, <3>3
  <2> QED BY <2>1, <2>2
<1> QED BY <1>01, <1>2, <1>3, VerifiedKept

LEMMA RebootVerified ==
  ASSUME LiveInv, TypeOK', Reboot
  PROVE  Verified'
<1>1. \A c \in Cleaners : job'[c].at = "idle"
  BY DEF Reboot, NoJob
<1>2. \A r \in Roots : where'[r] \in {"quarantine", "gone"} \/ journal'[r] # "none" => Settled(r)
  BY DEF Reboot, dirVars, LiveInv, Verified
<1> QED BY <1>1, <1>2, VerifiedKept DEF Next

LEMMA StepLive == LiveInv /\ [Next]_vars => LiveInv'
<1> SUFFICES ASSUME LiveInv, [Next]_vars PROVE LiveInv'
  OBVIOUS
<1>0. Inv' /\ TypeOK'
  BY StepInv DEF LiveInv, Inv
<1>1. CASE UNCHANGED vars
  <2>1. UNCHANGED <<where, journal, rebooted, owner, job>> /\ \A r \in Roots : UNCHANGED View(r)
    BY <1>1 DEF vars, dirVars, pastVars, procVars, ownVars, View
  <2>2. Records'
    BY <2>1, SameView DEF LiveInv, Records
  <2>3. Verified'
    BY <1>0, <2>1, VerifiedKept DEF LiveInv, Verified
  <2> QED BY <1>0, <2>2, <2>3 DEF LiveInv
<1>2. ASSUME NEW c \in Cleaners, CleanerStep(c) \/ GiveUp(c)
      PROVE  LiveInv'
  BY <1>0, <1>2, CleanerRecords, CleanerVerified DEF LiveInv
<1>3. ASSUME NEW p \in Passes, NEW r \in Roots, Inspect(p, r)
      PROVE  LiveInv'
  <2>1. \A q \in Roots : UNCHANGED View(q)
    BY <1>3 DEF Inspect, recoverRunCandidate, recoverJournal, recoverCompatibleQuarantine, Begin,
                dirVars, pastVars, procVars, ownVars, View
  <2>2. Records'
    BY <2>1, SameView DEF LiveInv, Records
  <2> QED BY <1>0, <1>3, <2>2, InspectVerified DEF LiveInv
<1>4. ASSUME NEW r \in Roots,
             OwnerStep(r) \/ ProcessStep(r) \/ Signal(r) \/ OwnerKilled(r) \/ GrowOld(r)
      PROVE  LiveInv'
  <2>1. LaunchRecord(r)' /\ StopRecord(r)'
    BY <1>0, <1>4, LaunchRecords, ShutdownRecords, ProcessRecords, EventRecords
  <2>2. \A q \in Roots : q # r => UNCHANGED View(q)
    BY <1>4, Elsewhere DEF LiveInv, Inv
  <2>3. Records'
    BY <2>1, <2>2, SameView DEF LiveInv, Records
  <2> QED BY <1>0, <1>4, <2>3, RootVerified DEF LiveInv
<1>5. CASE Reboot
  BY <1>0, <1>5, RebootRecords, RebootVerified DEF LiveInv
<1> QED BY <1>1, <1>2, <1>3, <1>4, <1>5 DEF Next

(* A command runs or can start in a directory that left its path only if the  *)
(* owner's shutdown, begun by a signal, met a sandbox killed from outside     *)
(* before its sidecar had published: whoever moves the directory and wherever *)
(* its owner was killed, the launch intent, the published group, the marker's *)
(* three states and the boot check together are enough in every other case.   *)
THEOREM NobodyInside == Spec => []LiveRemovalOnlyMisread
<1>1. LiveInv => LiveRemovalOnlyMisread
  BY DEF LiveInv, Verified, Settled, LiveRemovalOnlyMisread, Dead, CommandLive
<1>2. LiveInv /\ [Next]_vars => LiveInv'
  BY StepLive
<1> QED BY InitLive, <1>1, <1>2, PTL DEF Spec
=============================================================================
