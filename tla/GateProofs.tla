----------------------------- MODULE GateProofs -----------------------------
(***************************************************************************)
(* A test-accounting gate: of the wrappers of a machine one runs its       *)
(* command at a time (SuiteLock), and the command runs the selected suites *)
(* in a pool of lanes (RunAuthority).  The two share no state and each is  *)
(* proved on its own, for every value of its constants.                    *)
(***************************************************************************)
EXTENDS SuiteLock, RunAuthority, TLAPS

(***************************************************************************)
(* SuiteLock for any number of wrappers: the lock excludes until one is    *)
(* killed while it holds the lock.  Waiters may be killed at any point.    *)
(***************************************************************************)

(* The lock directory exists exactly while one local wrapper is past its   *)
(* mkdir, and says what that wrapper has written into it so far.           *)
HolderUnique == \A p, q \in Local : pc[p] \in Holding /\ pc[q] \in Holding => p = q

HolderDirectory ==
  \A p \in Local :
    /\ pc[p] = "write" => lockDir.exists /\ lockDir.owner = {} /\ ~lockDir.old
    /\ pc[p] \in Holding \ {"write"} => lockDir.exists /\ lockDir.owner = {p}

DirectoryHeld == lockDir.exists => \E p \in Local : pc[p] \in Holding

ChildAwaited ==
  \A p \in Local : child[p] = "alive" => pc[p] \in {"setChildPid", "await"}

CIPoints == \A p \in CI : pc[p] \in {"spawn", "await", "exited", "orphaned"}

NobodyRenames == \A p \in Wrappers : pc[p] # "rename"

Held == HolderUnique /\ HolderDirectory /\ DirectoryHeld /\ ChildAwaited /\ NobodyRenames

LockInv == LockTypeOK /\ CIPoints /\ (HolderKilled \/ Held)

(* Before any wrapper runs there is no directory and nobody holds it. *)
LEMMA LockStart == LockInit => LockInv
  BY LockAssumption
  DEF LockInit, LockInv, Held, LockTypeOK, HolderUnique, HolderDirectory, DirectoryHeld, ChildAwaited,
      CIPoints, NobodyRenames, NoDir, Local, Holding, Competing, Ended, Points

(* Every step keeps the types of the three variables. *)
LEMMA LockTypeStep == LockTypeOK /\ [LockNext]_lockVars => LockTypeOK'
<1> SUFFICES ASSUME LockTypeOK, [LockNext]_lockVars PROVE LockTypeOK'
  OBVIOUS
<1> DEFINE Dirs == [exists : BOOLEAN, owner : SUBSET Wrappers,
                    childKnown : BOOLEAN, old : BOOLEAN]
<1>1. \A o \in SUBSET Wrappers : \A a, b \in BOOLEAN : OwnedDir(o, a, b) \in Dirs
  BY DEF OwnedDir
<1>2. NoDir \in Dirs
  BY DEF NoDir
<1>3. lockDir' \in Dirs
  <2> USE DEF LockTypeOK
  <2>1. ASSUME NEW p \in Wrappers, Step(p) PROVE lockDir' \in Dirs
    <3>1. {p} \in SUBSET Wrappers /\ {} \in SUBSET Wrappers
      OBVIOUS
    <3>2. \/ lockDir' = lockDir
          \/ lockDir' = NoDir
          \/ \E o \in {{}, {p}}, a \in BOOLEAN : lockDir' = OwnedDir(o, a, FALSE)
      BY <2>1 DEF Step, MkDir, WriteOwner, ReadOwner, Rename, Poll, Spawn, SpawnFails,
                  SetChildPid, AwaitExit, Release, RmDir
    <3>3. lockDir \in Dirs
      OBVIOUS
    <3> HIDE DEF Dirs, LockTypeOK
    <3> QED
      BY <3>1, <3>2, <3>3, <1>1, <1>2, Zenon
  <2>2. CASE Age
    BY <2>2 DEF Age
  <2> QED
    BY <2>1, <2>2 DEF LockNext, ChildExits, Crash, lockVars
<1>4. \/ pc' = pc
      \/ \E p \in Wrappers, point \in Points : pc' = [pc EXCEPT ![p] = point]
  <2>1. ASSUME NEW p \in Wrappers, Step(p)
        PROVE  \E point \in Points : pc' = [pc EXCEPT ![p] = point]
    BY <2>1 DEF Step, MkDir, WriteOwner, ReadOwner, Rename, Poll, Spawn, SpawnFails,
                SetChildPid, AwaitExit, Release, RmDir, Goto, Points, Competing, Holding, Ended
  <2>2. ASSUME NEW p \in Wrappers, Crash(p)
        PROVE  \E point \in Points : pc' = [pc EXCEPT ![p] = point]
    BY <2>2 DEF Crash, Goto, Points, Ended
  <2> QED BY <2>1, <2>2 DEF LockNext, ChildExits, Age, lockVars
<1>5. pc' \in [Wrappers -> Points]
  BY <1>4 DEF LockTypeOK
<1>6. \/ child' = child
      \/ \E p \in Wrappers, c \in {"alive", "gone"} : child' = [child EXCEPT ![p] = c]
  BY DEF LockNext, Step, MkDir, WriteOwner, ReadOwner, Rename, Poll, Spawn, SpawnFails,
         SetChildPid, ChildExits, AwaitExit, Release, RmDir, Crash, Age, lockVars
<1>7. child' \in [Wrappers -> {"none", "alive", "gone"}]
  BY <1>6 DEF LockTypeOK
<1> QED
  BY <1>3, <1>5, <1>7 DEF LockTypeOK

(* The wrappers that take no lock never compete, and a killed holder stays *)
(* killed.                                                                 *)
LEMMA CIStep == LockInv /\ [LockNext]_lockVars => CIPoints' /\ (HolderKilled => HolderKilled')
<1> SUFFICES ASSUME LockInv, [LockNext]_lockVars PROVE CIPoints' /\ (HolderKilled => HolderKilled')
  OBVIOUS
<1> USE LockAssumption DEF LockInv, LockTypeOK, CIPoints, HolderKilled, Local, Goto, Competing, Ended
<1>1. ASSUME NEW p \in Wrappers, Step(p) PROVE CIPoints' /\ (HolderKilled => HolderKilled')
  <2>1. \E x \in Points : pc' = [pc EXCEPT ![p] = x]
    BY <1>1 DEF Step, MkDir, WriteOwner, ReadOwner, Rename, Poll, Spawn, SpawnFails,
                SetChildPid, AwaitExit, Release, RmDir, Points, Holding
  <2>2. pc[p] # "orphaned"
    BY <1>1 DEF Step, MkDir, WriteOwner, ReadOwner, Rename, Poll, Spawn, SpawnFails,
                SetChildPid, AwaitExit, Release, RmDir
  <2>3. p \in CI => pc'[p] \in {"await", "exited"}
    BY <1>1 DEF Step, MkDir, WriteOwner, ReadOwner, Rename, Poll, Spawn, SpawnFails,
                SetChildPid, AwaitExit, Release, RmDir
  <2> QED
    BY <2>1, <2>2, <2>3
<1>2. ASSUME NEW p \in Wrappers, Crash(p) PROVE CIPoints' /\ (HolderKilled => HolderKilled')
  BY <1>2 DEF Crash, Holding
<1>3. ASSUME UNCHANGED pc PROVE CIPoints' /\ (HolderKilled => HolderKilled')
  BY <1>3
<1> QED
  BY <1>1, <1>2, <1>3 DEF LockNext, ChildExits, Age, lockVars

(* Until a holder is killed, every step of a wrapper, of its command, of   *)
(* the clock or of a kill keeps the account of the directory.              *)
LEMMA LockStep == LockInv /\ [LockNext]_lockVars => LockInv'
<1> SUFFICES ASSUME LockInv, [LockNext]_lockVars PROVE LockInv'
  OBVIOUS
<1>a. LockTypeOK' /\ CIPoints'
  BY LockTypeStep, CIStep DEF LockInv
<1> SUFFICES ASSUME ~HolderKilled' PROVE Held'
  BY <1>a DEF LockInv
<1>b. LockTypeOK /\ CIPoints /\ Held
  BY CIStep DEF LockInv
<1> USE LockAssumption, <1>b
    DEF LockTypeOK, Held, HolderUnique, HolderDirectory, DirectoryHeld, ChildAwaited,
        CIPoints, NobodyRenames, Local, Holding, Competing, Ended, Points, Goto
<1>1. ASSUME NEW p \in Wrappers, MkDir(p) PROVE Held'
  <2>1. HolderUnique'
    BY <1>1 DEF MkDir, OwnedDir
  <2>2. HolderDirectory'
    BY <1>1 DEF MkDir, OwnedDir
  <2>3. DirectoryHeld'
    BY <1>1 DEF MkDir, OwnedDir
  <2>4. ChildAwaited'
    BY <1>1 DEF MkDir, OwnedDir
  <2>5. NobodyRenames'
    BY <1>1 DEF MkDir, OwnedDir
  <2> QED
    BY <2>1, <2>2, <2>3, <2>4, <2>5
<1>2. ASSUME NEW p \in Wrappers, WriteOwner(p) PROVE Held'
  <2>1. HolderUnique'
    BY <1>2 DEF WriteOwner, OwnedDir
  <2>2. HolderDirectory'
    BY <1>2 DEF WriteOwner, OwnedDir
  <2>3. DirectoryHeld'
    BY <1>2 DEF WriteOwner, OwnedDir
  <2>4. ChildAwaited'
    BY <1>2 DEF WriteOwner, OwnedDir
  <2>5. NobodyRenames'
    BY <1>2 DEF WriteOwner, OwnedDir
  <2> QED
    BY <2>1, <2>2, <2>3, <2>4, <2>5
<1>3. ASSUME NEW p \in Wrappers, ReadOwner(p) PROVE Held'
  BY <1>3 DEF ReadOwner, Abandoned, OwnerIsAlive, Running
<1>4. ASSUME NEW p \in Wrappers, Rename(p) PROVE Held'
  BY <1>4 DEF Rename
<1>5. ASSUME NEW p \in Wrappers, Poll(p) PROVE Held'
  BY <1>5 DEF Poll
<1>6. ASSUME NEW p \in Wrappers, Spawn(p) PROVE Held'
  BY <1>6 DEF Spawn
<1>7. ASSUME NEW p \in Wrappers, SpawnFails(p) PROVE Held'
  <2>1. lockDir' = lockDir \/ lockDir' = OwnedDir({p}, FALSE, FALSE)
    BY <1>7 DEF SpawnFails
  <2>2. HolderUnique'
    BY <1>7 DEF SpawnFails
  <2>3. HolderDirectory'
    BY <1>7, <2>1 DEF SpawnFails, OwnedDir
  <2>4. DirectoryHeld'
    BY <1>7, <2>1 DEF SpawnFails, OwnedDir
  <2>5. ChildAwaited'
    BY <1>7 DEF SpawnFails
  <2>6. NobodyRenames'
    BY <1>7 DEF SpawnFails
  <2> QED
    BY <2>2, <2>3, <2>4, <2>5, <2>6
<1>8. ASSUME NEW p \in Wrappers, SetChildPid(p) PROVE Held'
  <2>1. HolderUnique'
    BY <1>8 DEF SetChildPid, OwnedDir
  <2>2. HolderDirectory'
    BY <1>8 DEF SetChildPid, OwnedDir
  <2>3. DirectoryHeld'
    BY <1>8 DEF SetChildPid, OwnedDir
  <2>4. ChildAwaited'
    BY <1>8 DEF SetChildPid, OwnedDir
  <2>5. NobodyRenames'
    BY <1>8 DEF SetChildPid, OwnedDir
  <2> QED
    BY <2>1, <2>2, <2>3, <2>4, <2>5
<1>9. ASSUME NEW p \in Wrappers, ChildExits(p) PROVE Held'
  BY <1>9 DEF ChildExits
<1>10. ASSUME NEW p \in Wrappers, AwaitExit(p) PROVE Held'
  BY <1>10 DEF AwaitExit
<1>11. ASSUME NEW p \in Wrappers, Release(p) PROVE Held'
  BY <1>11 DEF Release
<1>12. ASSUME NEW p \in Wrappers, RmDir(p) PROVE Held'
  BY <1>12 DEF RmDir, NoDir
<1>13. ASSUME NEW p \in Wrappers, Crash(p) PROVE Held'
  BY <1>13 DEF Crash, HolderKilled
<1>14. CASE Age
  BY <1>14 DEF Age
<1>15. CASE UNCHANGED lockVars
  BY <1>15 DEF lockVars
<1> QED
  BY <1>1, <1>2, <1>3, <1>4, <1>5, <1>6, <1>7, <1>8, <1>9, <1>10, <1>11, <1>12,
     <1>13, <1>14, <1>15
  DEF LockNext, Step

(* The types of the three variables, for every set of crash points.        *)
THEOREM LockTyped == LockSpec => []LockTypeOK
<1>1. LockInit => LockTypeOK
  BY LockStart DEF LockInv
<1> QED
  BY <1>1, LockTypeStep, PTL DEF LockSpec

(* acquireLock ... release: however many wrappers compete, and whichever   *)
(* waiters are killed, two full gates never run at the same time, unless   *)
(* the holder of the lock was killed.                                      *)
THEOREM Exclusion == LockSpec => []OneGateWhileHoldersLive
<1>1. LockInv => OneGateWhileHoldersLive
  BY DEF LockInv, Held, HolderUnique, ChildAwaited, OneGateWhileHoldersLive, OneGateAtATime,
         Local, Holding
<1> QED
  BY <1>1, LockStart, LockStep, PTL DEF LockSpec

(* acquireLock ... release: the wrapper past acquireLock is the one        *)
(* owner.json names until it removes the directory itself.                 *)
THEOREM Ownership == LockSpec => []HolderOwnsDirectory
<1>1. LockInv => HolderOwnsDirectory
  BY DEF LockInv, Held, HolderDirectory, HolderOwnsDirectory
<1> QED
  BY <1>1, LockStart, LockStep, PTL DEF LockSpec

(***************************************************************************)
(* RunAuthority for any runs, any number of lanes, any set of prepared     *)
(* runs and any manifest order: its safety properties, by one inductive    *)
(* invariant.                                                              *)
(*                                                                         *)
(* The argument for a clean start: leftovers make the pool suspect unless  *)
(* it has failed (Suspected), a suspect pool has a lane that waits and no  *)
(* lane that is ready (Suspected), and the suspicion is lifted only by the *)
(* last run to leave, which found no leftovers (OneJudge).                 *)
(***************************************************************************)

(* A lane that settles is the only one at work, and found the checkout clean. *)
OneJudge ==
  \A l \in Lanes : lane[l] = "settling" =>
    /\ leftovers = {}
    /\ \A k \in Lanes \ {l} : lane[k] \in {"waiting", "ended"}

(* What the phases leave to which lane. *)
Phased ==
  /\ phase = "over" => \A l \in Lanes : lane[l] = "ended"
  /\ phase = "exclusive" => \A l \in Lanes \ {1} : lane[l] = "ended"
  /\ phase = "shared" /\ Concurrency # 1 =>
       \A l \in Lanes : InFlight(l) => current[l] \notin Prepared

(* A run is executed by one lane, and is not complete while it executes. *)
Executing ==
  \A l \in Lanes : InFlight(l) =>
    /\ current[l] \in started
    /\ current[l] \notin unsealed \cup sealing \cup sealed
    /\ \A k \in Lanes \ {l} : InFlight(k) => current[k] # current[l]

(* Only runs that were started complete. *)
Started == unsealed \cup sealing \cup sealed \subseteq started

(* Suspicion holds the lanes back. *)
Suspected ==
  ~errors =>
    /\ leftovers # {} => suspect
    /\ suspect => Quiet /\ \E l \in Lanes : lane[l] = "waiting"

(* Transient files belong to executing runs. *)
OnlyRunning == \A r \in transient : \E l \in Lanes : InFlight(l) /\ current[l] = r

(* Somebody will judge what awaits judgement, or it was judged dirty. *)
Judged == unsealed # {} => (\E l \in Lanes : InFlight(l)) \/ (leftovers # {} /\ errors)

(* Somebody waits for what is being sealed. *)
BeingSealed == sealing # {} => errors \/ \E l \in Lanes : lane[l] = "settling"

(* While nothing has gone wrong, every run that was started is somewhere,  *)
(* and a worker that ended found none left.                                *)
Accounted ==
  ~errors /\ ~stopped =>
    /\ \A r \in started \ (unsealed \cup sealing \cup sealed) :
         \E l \in Lanes : InFlight(l) /\ current[l] = r
    /\ phase # "over" /\ lane[1] = "ended" => PhaseRuns(phase) \subseteq started
    /\ phase # "shared" => PhaseRuns("shared") \subseteq started

IInv ==
  /\ TypeOK /\ OneJudge /\ Phased /\ Executing /\ Started /\ Suspected
  /\ OnlyRunning /\ Judged /\ BeingSealed /\ Accounted
  /\ SealedLeftNothing /\ GreenIsComplete

(* Lane 1 exists. *)
LEMMA FirstLane == 1 \in Lanes
  BY RunAssumption DEF Lanes

(* The invariant holds when the pool starts. *)
LEMMA InitInv == Init => IInv
<1> SUFFICES ASSUME Init PROVE IInv
  OBVIOUS
<1> USE RunAssumption, FirstLane DEF Init, Workers, Width, InFlight, Lanes
<1>1. TypeOK
  BY DEF TypeOK
<1>2. \A l \in Lanes : lane[l] = "ready"
  OBVIOUS
<1> QED
  BY <1>1, <1>2 DEF IInv, OneJudge, Phased, Executing, Started, Suspected, OnlyRunning,
     Judged, BeingSealed, Accounted, SealedLeftNothing, GreenIsComplete

-----------------------------------------------------------------------------
(* worker takes a run: a ready lane means that nothing is suspect. *)
LEMMA TakeInv ==
  ASSUME NEW l \in Lanes, NEW r \in Runs, IInv, Take(l, r)
  PROVE  IInv'
<1> USE RunAssumption, FirstLane DEF IInv, TypeOK, InFlight, Lanes, checkout, Take,
        Remaining
<1>1. TypeOK'
  OBVIOUS
<1>2. OneJudge' /\ Suspected'
  BY DEF OneJudge, Suspected, Quiet
<1>3. Phased' /\ Executing' /\ Started'
  BY DEF Phased, Executing, Started, PhaseRuns
<1>4. OnlyRunning' /\ Judged'
  BY DEF OnlyRunning, Judged, Executing
<1>5. BeingSealed' /\ Accounted'
  BY DEF BeingSealed, Accounted, PhaseRuns
<1>6. SealedLeftNothing' /\ GreenIsComplete'
  BY DEF SealedLeftNothing, GreenIsComplete, Executing, OneJudge, Phased
<1> QED BY <1>1, <1>2, <1>3, <1>4, <1>5, <1>6

(* A worker ends because of a failure or because no run is left. *)
LEMMA WorkerEndsInv ==
  ASSUME NEW l \in Lanes, IInv, WorkerEnds(l)
  PROVE  IInv'
<1> USE RunAssumption, FirstLane DEF IInv, TypeOK, InFlight, Lanes, checkout,
        WorkerEnds, Remaining
<1>1. TypeOK'
  OBVIOUS
<1>2. OneJudge' /\ Suspected'
  BY DEF OneJudge, Suspected, Quiet
<1>3. Phased' /\ Executing' /\ Started'
  BY DEF Phased, Executing, Started, PhaseRuns
<1>4. OnlyRunning' /\ Judged'
  BY DEF OnlyRunning, Judged, Executing
<1>5. BeingSealed' /\ Accounted'
  BY DEF BeingSealed, Accounted, PhaseRuns
<1>6. SealedLeftNothing' /\ GreenIsComplete'
  BY DEF SealedLeftNothing, GreenIsComplete, Executing, OneJudge, Phased
<1> QED BY <1>1, <1>2, <1>3, <1>4, <1>5, <1>6

(* A run that executes writes files. *)
LEMMA WriteFilesInv ==
  ASSUME NEW l \in Lanes, IInv, WriteFiles(l)
  PROVE  IInv'
<1> USE RunAssumption, FirstLane DEF IInv, TypeOK, InFlight, Lanes, checkout, WriteFiles
<1>1. TypeOK'
  BY DEF Executing
<1>2. OneJudge' /\ Suspected'
  BY DEF OneJudge, Suspected, Quiet
<1>3. Phased' /\ Executing' /\ Started'
  BY DEF Phased, Executing, Started, PhaseRuns
<1>4. OnlyRunning' /\ Judged'
  BY DEF OnlyRunning, Judged, Executing
<1>5. BeingSealed' /\ Accounted'
  BY DEF BeingSealed, Accounted, PhaseRuns
<1>6. SealedLeftNothing' /\ GreenIsComplete'
  BY DEF SealedLeftNothing, GreenIsComplete, Executing, OneJudge, Phased
<1> QED BY <1>1, <1>2, <1>3, <1>4, <1>5, <1>6

(* A run that executes removes files. *)
LEMMA RemoveFilesInv ==
  ASSUME NEW l \in Lanes, IInv, RemoveFiles(l)
  PROVE  IInv'
<1> USE RunAssumption, FirstLane DEF IInv, TypeOK, InFlight, Lanes, checkout, RemoveFiles
<1>1. TypeOK'
  OBVIOUS
<1>2. OneJudge' /\ Suspected'
  BY DEF OneJudge, Suspected, Quiet
<1>3. Phased' /\ Executing' /\ Started'
  BY DEF Phased, Executing, Started, PhaseRuns
<1>4. OnlyRunning' /\ Judged'
  BY DEF OnlyRunning, Judged, Executing
<1>5. BeingSealed' /\ Accounted'
  BY DEF BeingSealed, Accounted, PhaseRuns
<1>6. SealedLeftNothing' /\ GreenIsComplete'
  BY DEF SealedLeftNothing, GreenIsComplete, Executing, OneJudge, Phased
<1> QED BY <1>1, <1>2, <1>3, <1>4, <1>5, <1>6

(* finishRun with siblings in flight: a dirty end makes the pool suspect *)
(* and the lane wait.                                                    *)
LEMMA EndRunInv ==
  ASSUME NEW l \in Lanes, NEW outcome \in Outcomes, IInv, EndRun(l, outcome)
  PROVE  IInv'
<1> USE FirstLane DEF InFlight
<1>1. /\ Quiet /\ lane[l] = "running"
      /\ \E k \in Lanes \ {l} : InFlight(k)
      /\ UNCHANGED <<phase, started, sealing, sealed, failure, receipts>>
      /\ current' = [current EXCEPT ![l] = None]
      /\ transient' = transient \ {current[l]}
      /\ leftovers' = leftovers \cup ({current[l]} \cap transient)
  BY DEF EndRun, FilesStay
<1>2. \/ unsealed' = unsealed /\ outcome # "passed"
      \/ unsealed' = unsealed \cup {current[l]}
  BY DEF EndRun, Completed
<1>3. /\ stopped' = (stopped \/ outcome # "passed")
      /\ \/ errors' = TRUE /\ suspect' = suspect /\ lane' = [lane EXCEPT ![l] = "ready"]
         \/ errors' = errors /\ suspect' = (suspect \/ Dirty')
            /\ lane' = [lane EXCEPT ![l] = IF suspect' THEN "waiting" ELSE "ready"]
  BY Zenon DEF EndRun, EndsAmongOthers
<1>4. /\ lane' = [lane EXCEPT ![l] = lane'[l]]
      /\ lane'[l] \in {"ready", "waiting"}
  BY <1>3 DEF IInv, TypeOK
<1>5. /\ current[l] \in Runs /\ current[l] \notin sealing \cup sealed
      /\ \A k \in Lanes \ {l} : InFlight(k) => current[k] # current[l]
  BY <1>1 DEF IInv, Executing, TypeOK
<1> HIDE DEF EndRun
<1>6. TypeOK'
  <2>1. /\ suspect' \in BOOLEAN
        /\ stopped' \in BOOLEAN
        /\ errors' \in BOOLEAN
    BY <1>3, Zenon DEF IInv, TypeOK
  <2> QED BY <1>1, <1>2, <1>4, <1>5, <2>1 DEF IInv, TypeOK
<1>7. OneJudge'
  BY <1>1, <1>4 DEF IInv, TypeOK, OneJudge
<1>8. Suspected'
  <2> SUFFICES ASSUME ~errors'
               PROVE  /\ leftovers' # {} => suspect'
                      /\ suspect' => Quiet' /\ \E k \in Lanes : lane'[k] = "waiting"
    BY DEF Suspected
  <2>1. /\ suspect' = (suspect \/ Dirty')
        /\ lane' = [lane EXCEPT ![l] = IF suspect' THEN "waiting" ELSE "ready"]
    BY <1>3
  <2>2. leftovers' # {} => suspect'
    BY <2>1 DEF Dirty
  <2>3. ASSUME suspect'
        PROVE  Quiet' /\ \E k \in Lanes : lane'[k] = "waiting"
    <3>1. lane' = [lane EXCEPT ![l] = "waiting"]
      BY <2>1, <2>3
    <3> QED BY <1>1, <3>1 DEF Quiet, IInv, TypeOK
  <2> QED BY <2>2, <2>3
<1>9. Phased'
  BY <1>1, <1>4 DEF IInv, TypeOK, Phased
<1>10. Executing'
  BY <1>1, <1>2, <1>4, <1>5 DEF IInv, TypeOK, Executing
<1>11. Started'
  BY <1>1, <1>2 DEF IInv, Started, Executing
<1>12. OnlyRunning'
  BY <1>1, <1>4 DEF IInv, TypeOK, OnlyRunning
<1>13. Judged'
  BY <1>1, <1>4 DEF IInv, TypeOK, Judged
<1>14. BeingSealed'
  BY <1>1, <1>3, <1>4 DEF IInv, TypeOK, BeingSealed
<1>15. Accounted'
  <2> SUFFICES ASSUME ~errors', ~stopped' PROVE Accounted'
    BY DEF Accounted
  <2>1. /\ Accounted /\ ~errors /\ ~stopped
        /\ unsealed' = unsealed \cup {current[l]}
    <3>1. ~errors
      BY <1>3, Zenon
    <3>2. ~stopped /\ outcome = "passed"
      BY <1>3, Zenon
    <3> QED BY <1>2, <3>1, <3>2 DEF IInv
  <2>2. ASSUME NEW r \in started' \ (unsealed' \cup sealing' \cup sealed')
        PROVE  \E k \in Lanes : InFlight(k)' /\ current'[k] = r
    <3>1. PICK k \in Lanes : InFlight(k) /\ current[k] = r
      BY <1>1, <2>1, <2>2 DEF Accounted
    <3>2. k # l
      BY <2>1, <2>2, <3>1
    <3> QED BY <1>1, <1>4, <3>1, <3>2 DEF IInv, TypeOK
  <2>3. lane'[1] = "ended" => lane[1] = "ended"
    BY <1>4 DEF IInv, TypeOK
  <2> QED BY <1>1, <2>1, <2>2, <2>3 DEF Accounted, PhaseRuns
<1>16. SealedLeftNothing'
  BY <1>1, <1>5 DEF IInv, SealedLeftNothing
<1>17. GreenIsComplete'
  BY <1>1 DEF IInv, GreenIsComplete, Phased
<1> QED
  BY <1>6, <1>7, <1>8, <1>9, <1>10, <1>11, <1>12, <1>13, <1>14, <1>15, <1>16, <1>17 DEF IInv

(* finishRun of the last run: a dirty checkout is then due to leftovers *)
(* alone and fails the pool, a clean one is sealed.                     *)
LEMMA LastRunEndsInv ==
  ASSUME NEW l \in Lanes, NEW outcome \in Outcomes, IInv, LastRunEnds(l, outcome)
  PROVE  IInv'
<1> USE FirstLane DEF InFlight
<1> DEFINE Completion == unsealed \cup {current[l]}
<1>1. /\ Quiet /\ lane[l] = "running"
      /\ \A k \in Lanes \ {l} : ~InFlight(k)
      /\ UNCHANGED <<phase, started, sealed, receipts>>
      /\ current' = [current EXCEPT ![l] = None]
      /\ transient' = transient \ {current[l]}
      /\ leftovers' = leftovers \cup ({current[l]} \cap transient)
  BY DEF LastRunEnds, FilesStay
<1>2. CASE Dirty'
  <2>1. /\ stopped' = TRUE /\ errors' = TRUE /\ suspect' = FALSE
        /\ lane' = [k \in Lanes |-> IF lane[k] = "waiting" THEN "ready"
                                   ELSE IF k = l THEN "ready" ELSE lane[k]]
        /\ UNCHANGED <<sealing, failure>>
        /\ unsealed' = unsealed \/ unsealed' = Completion
    <3>1. JudgedDirty(l) /\ unsealed' = Completed(l, outcome)
      BY <1>2 DEF LastRunEnds, Settle
    <3> QED BY <3>1 DEF JudgedDirty, Released, Completed, IInv, TypeOK
  <2>2. /\ current[l] \in Runs /\ current[l] \notin sealing \cup sealed
    BY <1>1 DEF IInv, Executing, TypeOK
  <2>3. transient' = {} /\ leftovers' # {}
    BY <1>1, <1>2 DEF Dirty, IInv, OnlyRunning
  <2> HIDE DEF LastRunEnds
  <2>4. TypeOK'
    BY <1>1, <2>1, <2>2 DEF IInv, TypeOK
  <2>5. OneJudge' /\ Suspected' /\ BeingSealed' /\ Accounted'
    BY <1>1, <2>1 DEF IInv, OneJudge, Suspected, BeingSealed, Accounted
  <2>6. Phased' /\ Executing' /\ Started'
    BY <1>1, <2>1, <2>2 DEF IInv, Phased, Executing, Started, TypeOK
  <2>7. OnlyRunning' /\ Judged'
    BY <2>1, <2>3 DEF OnlyRunning, Judged
  <2>8. SealedLeftNothing' /\ GreenIsComplete'
    BY <1>1, <2>1, <2>2 DEF IInv, SealedLeftNothing, GreenIsComplete
  <2> QED BY <2>4, <2>5, <2>6, <2>7, <2>8 DEF IInv
<1>3. CASE ~Dirty'
  <2>1. /\ unsealed' = {} /\ sealing' = sealing \cup Completed(l, outcome)
        /\ failure' = [failure EXCEPT ![l] = outcome = "threw"]
        /\ stopped' = (stopped \/ outcome # "passed")
        /\ lane' = [lane EXCEPT ![l] = "settling"]
        /\ UNCHANGED <<suspect, errors>>
    BY <1>3, Zenon DEF LastRunEnds, Settle
  <2>2. sealing' = sealing \cup unsealed \/ sealing' = sealing \cup Completion
    BY <2>1 DEF Completed
  <2>3. current[l] \in Runs /\ current[l] \in started
    BY <1>1 DEF IInv, Executing, TypeOK
  <2>4. transient' = {} /\ leftovers' = {} /\ leftovers = {}
    BY <1>1, <1>3 DEF Dirty
  <2> HIDE DEF LastRunEnds
  <2>5. TypeOK'
    <3>1. failure' \in [Lanes -> BOOLEAN]
      BY <2>1, Zenon DEF IInv, TypeOK
    <3>2. stopped' \in BOOLEAN
      BY <2>1, Zenon
    <3> QED BY <1>1, <2>1, <2>2, <2>3, <2>4, <3>1, <3>2 DEF IInv, TypeOK
  <2>6. OneJudge'
    <3>1. ASSUME NEW k \in Lanes \ {l} PROVE lane'[k] \in {"waiting", "ended"}
      BY <1>1, <2>1 DEF IInv, TypeOK, OneJudge, Quiet
    <3> QED BY <2>1, <2>4, <3>1 DEF IInv, TypeOK, OneJudge
  <2>7. Suspected'
    BY <1>1, <2>1, <2>4 DEF IInv, TypeOK, Suspected, Quiet
  <2>8. Phased' /\ Executing'
    BY <1>1, <2>1 DEF IInv, TypeOK, Phased, Executing
  <2>9. Started'
    BY <1>1, <2>1, <2>2, <2>3 DEF IInv, Started
  <2>10. OnlyRunning' /\ Judged'
    BY <2>1, <2>4 DEF OnlyRunning, Judged
  <2>11. BeingSealed'
    BY <2>1 DEF BeingSealed, IInv, TypeOK
  <2>12. Accounted'
    <3> SUFFICES ASSUME ~errors', ~stopped' PROVE Accounted'
      BY DEF Accounted
    <3>1. ~errors
      BY <2>1
    <3>2. ~stopped /\ outcome = "passed"
      BY <2>1, Zenon
    <3>3. sealing' = sealing \cup unsealed \cup {current[l]}
      BY <2>1, <3>2 DEF Completed
    <3>4. \A r \in started' \ (unsealed' \cup sealing' \cup sealed') : FALSE
      BY <1>1, <3>1, <3>2, <3>3 DEF IInv, Accounted
    <3>5. lane'[1] = "ended" => lane[1] = "ended"
      BY <2>1 DEF IInv, TypeOK
    <3> QED BY <1>1, <3>1, <3>2, <3>4, <3>5 DEF IInv, Accounted, PhaseRuns
  <2>13. SealedLeftNothing' /\ GreenIsComplete'
    BY <1>1, <2>4 DEF SealedLeftNothing, GreenIsComplete, IInv, Phased
  <2> QED
    BY <2>5, <2>6, <2>7, <2>8, <2>9, <2>10, <2>11, <2>12, <2>13 DEF IInv
<1> QED BY <1>2, <1>3

(* sealRun writes a receipt. *)
LEMMA SealRunInv ==
  ASSUME NEW r \in Runs, IInv, SealRun(r)
  PROVE  IInv'
<1> USE RunAssumption, FirstLane DEF IInv, TypeOK, InFlight, Lanes, checkout, SealRun
<1>1. TypeOK'
  OBVIOUS
<1>2. OneJudge' /\ Suspected'
  BY DEF OneJudge, Suspected, Quiet
<1>3. Phased' /\ Executing' /\ Started'
  BY DEF Phased, Executing, Started, PhaseRuns
<1>4. OnlyRunning' /\ Judged'
  BY DEF OnlyRunning, Judged, Executing
<1>5. BeingSealed' /\ Accounted'
  BY DEF BeingSealed, Accounted, PhaseRuns
<1>6. SealedLeftNothing' /\ GreenIsComplete'
  BY DEF SealedLeftNothing, GreenIsComplete, Executing, OneJudge, Phased
<1> QED BY <1>1, <1>2, <1>3, <1>4, <1>5, <1>6

(* sealRun fails: the pool has met an error and nobody waits any more. *)
LEMMA SealFailsInv ==
  ASSUME NEW l \in Lanes, NEW r \in Runs, IInv, SealFails(l, r)
  PROVE  IInv'
<1> USE RunAssumption, FirstLane DEF IInv, TypeOK, InFlight, Lanes, checkout,
        SealFails, Released
<1>1. TypeOK'
  OBVIOUS
<1>2. OneJudge' /\ Suspected'
  BY DEF OneJudge, Suspected, Quiet
<1>3. Phased' /\ Executing' /\ Started'
  BY DEF Phased, Executing, Started, PhaseRuns
<1>4. OnlyRunning' /\ Judged'
  BY DEF OnlyRunning, Judged, Executing
<1>5. BeingSealed' /\ Accounted'
  BY DEF BeingSealed, Accounted, PhaseRuns
<1>6. SealedLeftNothing' /\ GreenIsComplete'
  BY DEF SealedLeftNothing, GreenIsComplete, Executing, OneJudge, Phased
<1> QED BY <1>1, <1>2, <1>3, <1>4, <1>5, <1>6

(* settle is complete: the judge found no leftovers, so the suspicion goes. *)
LEMMA SettledInv ==
  ASSUME NEW l \in Lanes, IInv, Settled(l)
  PROVE  IInv'
<1> USE RunAssumption, FirstLane DEF IInv, TypeOK, InFlight, Lanes, checkout, Settled,
        Released
<1>1. TypeOK'
  OBVIOUS
<1>2. OneJudge' /\ Suspected'
  BY DEF OneJudge, Suspected, Quiet
<1>3. Phased' /\ Executing' /\ Started'
  BY DEF Phased, Executing, Started, PhaseRuns
<1>4. OnlyRunning' /\ Judged'
  BY DEF OnlyRunning, Judged, Executing
<1>5. BeingSealed' /\ Accounted'
  <2>1. BeingSealed'
    BY DEF BeingSealed
  <2>2. Accounted'
    BY DEF Accounted, PhaseRuns
  <2> QED BY <2>1, <2>2
<1>6. SealedLeftNothing' /\ GreenIsComplete'
  BY DEF SealedLeftNothing, GreenIsComplete, Executing, OneJudge, Phased
<1> QED BY <1>1, <1>2, <1>3, <1>4, <1>5, <1>6

(* The exclusive phase starts with one worker. *)
LEMMA NextPhaseInv ==
  ASSUME IInv, NextPhase
  PROVE  IInv'
<1> USE RunAssumption, FirstLane DEF IInv, TypeOK, InFlight, Lanes, checkout,
        NextPhase, Workers, Width
<1>1. TypeOK'
  OBVIOUS
<1>2. OneJudge' /\ Suspected'
  BY DEF OneJudge, Suspected, Quiet
<1>3. Phased' /\ Executing' /\ Started'
  BY DEF Phased, Executing, Started, PhaseRuns
<1>4. OnlyRunning' /\ Judged'
  BY DEF OnlyRunning, Judged, Executing
<1>5. BeingSealed' /\ Accounted'
  <2>1. \A k \in Lanes : ~InFlight(k) /\ lane[k] # "settling"
    OBVIOUS
  <2>2. lane'[1] = "ready"
    OBVIOUS
  <2>3. phase = "shared" /\ UNCHANGED <<started, unsealed, sealing, sealed, errors, stopped>>
    OBVIOUS
  <2>4. BeingSealed'
    BY <2>1, <2>3 DEF BeingSealed
  <2>5. ~errors /\ ~stopped =>
          /\ started \subseteq unsealed \cup sealing \cup sealed
          /\ PhaseRuns("shared") \subseteq started
    BY <2>1, <2>3 DEF Accounted
  <2> HIDE DEF NextPhase, Workers, Width
  <2>6. Accounted'
    BY <2>2, <2>3, <2>5 DEF Accounted, PhaseRuns
  <2> QED BY <2>4, <2>6
<1>6. SealedLeftNothing' /\ GreenIsComplete'
  BY DEF SealedLeftNothing, GreenIsComplete, Executing, OneJudge, Phased
<1> QED BY <1>1, <1>2, <1>3, <1>4, <1>5, <1>6

(* The pool is over: with no error, all that was started is sealed. *)
LEMMA PoolIsOverInv ==
  ASSUME IInv, PoolIsOver
  PROVE  IInv'
<1> USE RunAssumption, FirstLane DEF IInv, TypeOK, InFlight, Lanes, checkout, PoolIsOver
<1>1. TypeOK'
  OBVIOUS
<1>2. OneJudge' /\ Suspected'
  BY DEF OneJudge, Suspected, Quiet
<1>3. Phased' /\ Executing' /\ Started'
  BY DEF Phased, Executing, Started, PhaseRuns
<1>4. OnlyRunning' /\ Judged'
  BY DEF OnlyRunning, Judged, Executing
<1>5. BeingSealed' /\ Accounted'
  BY DEF BeingSealed, Accounted, PhaseRuns
<1>6. SealedLeftNothing' /\ GreenIsComplete'
  <2>1. SealedLeftNothing'
    BY DEF SealedLeftNothing
  <2>2. ASSUME ~errors, ~stopped PROVE sealed = Runs
    <3>1. phase = "exclusive" /\ unsealed = {} /\ sealing = {}
      BY <2>2 DEF Judged, BeingSealed
    <3>2. PhaseRuns("shared") \cup PhaseRuns("exclusive") = Runs
      BY DEF PhaseRuns
    <3>3. Runs \subseteq started
      BY <2>2, <3>1, <3>2 DEF Accounted
    <3>4. ASSUME NEW r \in Runs PROVE r \in sealed
      <4>1. ~\E l \in Lanes : InFlight(l)
        OBVIOUS
      <4>2. ~(r \in started \ (unsealed \cup sealing \cup sealed))
        BY <2>2, <4>1 DEF Accounted
      <4> QED BY <3>1, <3>3, <4>2
    <3> QED BY <3>4
  <2>3. GreenIsComplete'
    BY <2>2 DEF GreenIsComplete
  <2> QED BY <2>1, <2>3
<1> QED BY <1>1, <1>2, <1>3, <1>4, <1>5, <1>6

-----------------------------------------------------------------------------
(* Every step of the pool preserves the invariant. *)
LEMMA StepInv == IInv /\ [Next]_vars => IInv'
<1> SUFFICES ASSUME IInv, [Next]_vars PROVE IInv'
  OBVIOUS
<1>1. CASE UNCHANGED vars
  BY <1>1 DEF vars, checkout, IInv, TypeOK, OneJudge, Phased, Executing, Started, Suspected,
     OnlyRunning, Judged, BeingSealed, Accounted, SealedLeftNothing, GreenIsComplete,
     InFlight, Quiet
<1>2. CASE Next
  BY <1>2, TakeInv, WorkerEndsInv, WriteFilesInv, RemoveFilesInv, EndRunInv, LastRunEndsInv,
     SealRunInv, SealFailsInv, SettledInv, NextPhaseInv, PoolIsOverInv DEF Next
<1> QED BY <1>1, <1>2

(* The invariant holds of every reachable state of the pool. *)
THEOREM Invariance == Spec => []IInv
  BY InitInv, StepInv, PTL DEF Spec

(* Lanes, phases and the sets of completed, suspect and sealed runs stay   *)
(* inside the types runPool and finishRun assume.                          *)
THEOREM Typed == Spec => []TypeOK
<1>1. IInv => TypeOK
  BY DEF IInv
<1> QED BY <1>1, Invariance, PTL

(* sealRun is reached only for runs that left nothing: no run that has a   *)
(* receipt, or is about to get one, has files lying in the checkout.       *)
THEOREM CleanReceipts == Spec => []SealedLeftNothing
<1>1. IInv => SealedLeftNothing
  BY DEF IInv
<1> QED BY <1>1, Invariance, PTL

(* schedulePhases: a run with a prepare step executes alone. *)
THEOREM PreparedAlone == Spec => []PreparedRunsAlone
<1>1. IInv => PreparedRunsAlone
  <2> SUFFICES ASSUME IInv, NEW l \in Lanes, NEW k \in Lanes, l # k, InFlight(l), InFlight(k)
               PROVE  current[l] \notin Prepared
    BY DEF PreparedRunsAlone
  <2>1. CASE phase = "shared"
    <3>1. Concurrency # 1
      BY RunAssumption DEF Lanes
    <3> QED BY <2>1, <3>1 DEF IInv, Phased
  <2>2. CASE phase # "shared"
    <3>1. phase = "exclusive" \/ phase = "over"
      BY <2>2 DEF IInv, TypeOK
    <3> QED BY <3>1 DEF IInv, Phased, InFlight
  <2> QED BY <2>1, <2>2
<1> QED BY <1>1, Invariance, PTL

(* finishRun: runs still await judgement when the pool is over only        *)
(* because leftovers were found, and then the gate fails.                  *)
THEOREM Unstranded == Spec => []NeverStranded
<1>1. IInv => NeverStranded
  BY DEF IInv, NeverStranded, Judged, Phased, InFlight
<1> QED BY <1>1, Invariance, PTL

(* verifyReceipts: a pool that ends with no error and unstopped has a      *)
(* receipt of every selected run.                                          *)
THEOREM Green == Spec => []GreenIsComplete
<1>1. IInv => GreenIsComplete
  BY DEF IInv
<1> QED BY <1>1, Invariance, PTL

(* worker and waitForRest: no run starts over what another left behind. *)
THEOREM CleanStart == Spec => NoStartOverLeftovers
<1>1. IInv /\ [Next]_vars => [started' # started => leftovers = {}]_vars
  <2> SUFFICES ASSUME IInv, Next, started' # started
               PROVE  leftovers = {}
    OBVIOUS
  <2>1. PICK l \in Lanes, r \in Runs : Take(l, r)
    BY DEF Next, WorkerEnds, WriteFiles, RemoveFiles, Settled, EndRun, LastRunEnds,
       SealRun, SealFails, NextPhase, PoolIsOver
  <2> QED BY <2>1 DEF Take, IInv, Suspected, Quiet
<1> QED BY <1>1, Invariance, PTL DEF Spec, NoStartOverLeftovers
=============================================================================
