----------------------------- MODULE SuiteLock -----------------------------
(***************************************************************************)
(* The machine-local lock that lets one full test-accounting run proceed   *)
(* per Git common directory:                                               *)
(* scripts/test-accounting/with-local-full-suite-lock.mjs.                 *)
(*                                                                         *)
(* Every wrapper process competes for one directory, the lock, with the    *)
(* steps below; a step is one system call of the wrapper, so that another  *)
(* wrapper may act, and this one may be killed, between any two of them.   *)
(* A wrapper runs one command, its child, and then exits.                  *)
(*                                                                         *)
(* What is abstracted: the token and the process ids of owner.json are the *)
(* wrapper itself, the ten second grace of an incomplete owner is the flag *)
(* `old` of the directory, the 250 ms poll is the step Poll.               *)
(***************************************************************************)
EXTENDS FiniteSets, Naturals

CONSTANTS
  Wrappers,     \* the wrapper processes
  CI,           \* those started with CI set, which take no lock
  CrashPoints   \* the program points at which a wrapper may be killed

(* Program points, named by the call that comes next.  "killed" and        *)
(* "orphaned" are those of a wrapper killed while it competed and after.   *)
Competing == {"mkdir", "reclaim", "rename", "wait"}
Holding   == {"write", "spawn", "setChildPid", "await", "release", "rmdir"}
Ended     == {"exited", "killed", "orphaned"}
Points    == Competing \cup Holding \cup Ended

ASSUME LockAssumption ==
  /\ CI \subseteq Wrappers
  /\ CrashPoints \subseteq Competing \cup Holding

NoDir   == [exists |-> FALSE, owner |-> {}, childKnown |-> FALSE, old |-> FALSE]
OwnedDir(o, known, aged) ==
  [exists |-> TRUE, owner |-> o, childKnown |-> known, old |-> aged]

VARIABLES
  pc,         \* program point of each wrapper
  child,      \* "none", "alive" or "gone": the command each wrapper spawned
  lockDir     \* the directory at lockPath, with what its owner.json says

lockVars == <<pc, child, lockDir>>

(* owner.json is the set {p} of the wrapper it names, or {} when there is  *)
(* no readable owner.json.                                                 *)
LockTypeOK ==
  /\ pc \in [Wrappers -> Points]
  /\ child \in [Wrappers -> {"none", "alive", "gone"}]
  /\ lockDir \in [exists : BOOLEAN, owner : SUBSET Wrappers,
                  childKnown : BOOLEAN, old : BOOLEAN]

LockInit ==
  /\ pc = [p \in Wrappers |-> IF p \in CI THEN "spawn" ELSE "mkdir"]
  /\ child = [p \in Wrappers |-> "none"]
  /\ lockDir = NoDir

Goto(p, point) == pc' = [pc EXCEPT ![p] = point]

Running(p) == pc[p] \notin Ended

(* Mutant: only the recorded child is probed, not the wrapper. *)
OwnerIsAlive_childOnly ==
  \E q \in lockDir.owner : lockDir.childKnown /\ child[q] = "alive"

(* process.kill(pid, 0) on the wrapper and on the recorded child. *)
OwnerIsAlive ==
  \E q \in lockDir.owner : Running(q) \/ (lockDir.childKnown /\ child[q] = "alive")

-----------------------------------------------------------------------------
(* acquireLock: mkdirSync(lockPath), EEXIST leads to the reclaim attempt. *)
MkDir(p) ==
  /\ pc[p] = "mkdir"
  /\ IF lockDir.exists
     THEN Goto(p, "reclaim") /\ UNCHANGED lockDir
     ELSE Goto(p, "write") /\ lockDir' = OwnedDir({}, FALSE, FALSE)
  /\ UNCHANGED child

(* writeFileSync(ownerPath, ..., {flag: "wx"}): ENOENT is thrown out of    *)
(* acquireLock, EEXIST is taken for a lock that is already held.           *)
WriteOwner(p) ==
  /\ pc[p] = "write"
  /\ \/ ~lockDir.exists /\ Goto(p, "exited") /\ UNCHANGED lockDir
     \/ lockDir.owner # {} /\ Goto(p, "reclaim") /\ UNCHANGED lockDir
     \/ /\ lockDir.exists /\ lockDir.owner = {}
        /\ Goto(p, "spawn")
        /\ lockDir' = OwnedDir({p}, FALSE, FALSE)
  /\ UNCHANGED child

(* Mutant: an incomplete owner gets no grace. *)
Abandoned_noGrace == IF lockDir.owner # {} THEN ~OwnerIsAlive ELSE TRUE

(* Mutant: an incomplete owner is never given up. *)
Abandoned_never == lockDir.owner # {} /\ ~OwnerIsAlive

(* The first half of reclaimAbandonedLock: what the waiter reads decides   *)
(* whether it will rename the directory away.                              *)
Abandoned == IF lockDir.owner # {} THEN ~OwnerIsAlive ELSE lockDir.old

ReadOwner(p) ==
  /\ pc[p] = "reclaim"
  /\ Goto(p, IF ~lockDir.exists THEN "mkdir"
             ELSE IF Abandoned THEN "rename" ELSE "wait")
  /\ UNCHANGED <<child, lockDir>>

(* The second half: renameSync moves away whatever is at lockPath by now.  *)
Rename(p) ==
  /\ pc[p] = "rename"
  /\ Goto(p, "mkdir")
  /\ lockDir' = NoDir
  /\ UNCHANGED child

Poll(p) ==
  /\ pc[p] = "wait"
  /\ Goto(p, "mkdir")
  /\ UNCHANGED <<child, lockDir>>

-----------------------------------------------------------------------------
(* runCommand: spawn, then record the child.                               *)
Spawn(p) ==
  /\ pc[p] = "spawn"
  /\ child' = [child EXCEPT ![p] = "alive"]
  /\ Goto(p, IF p \in CI THEN "await" ELSE "setChildPid")
  /\ UNCHANGED lockDir

(* A command that cannot be started: spawn throws, or setChildPid records  *)
(* null (or throws, without the directory) and an error event follows.     *)
(* Each of these releases the lock.                                        *)
SpawnFails(p) ==
  /\ pc[p] = "spawn"
  /\ Goto(p, IF p \in CI THEN "exited" ELSE "release")
  /\ \/ UNCHANGED lockDir
     \/ p \notin CI /\ lockDir.exists /\ lockDir' = OwnedDir({p}, FALSE, FALSE)
  /\ UNCHANGED child

(* setChildPid overwrites owner.json, whoever wrote it; without the        *)
(* directory it throws, and the wrapper exits while its command runs on.   *)
SetChildPid(p) ==
  /\ pc[p] = "setChildPid"
  /\ \/ ~lockDir.exists /\ Goto(p, "exited") /\ UNCHANGED lockDir
     \/ /\ lockDir.exists /\ Goto(p, "await")
        /\ lockDir' = OwnedDir({p}, TRUE, FALSE)
  /\ UNCHANGED child

ChildExits(p) ==
  /\ child[p] = "alive"
  /\ child' = [child EXCEPT ![p] = "gone"]
  /\ UNCHANGED <<pc, lockDir>>

AwaitExit(p) ==
  /\ pc[p] = "await" /\ child[p] = "gone"
  /\ Goto(p, IF p \in CI THEN "exited" ELSE "release")
  /\ UNCHANGED <<child, lockDir>>

(* release: compare the token, then remove what is at lockPath. *)
Release(p) ==
  /\ pc[p] = "release"
  /\ Goto(p, IF lockDir.owner = {p} THEN "rmdir" ELSE "exited")
  /\ UNCHANGED <<child, lockDir>>

RmDir(p) ==
  /\ pc[p] = "rmdir"
  /\ Goto(p, "exited")
  /\ lockDir' = NoDir
  /\ UNCHANGED child

-----------------------------------------------------------------------------
(* SIGKILL, or any signal before runCommand installs its handlers.  The    *)
(* command is not in a group of its own and survives its wrapper.          *)
Crash(p) ==
  /\ pc[p] \in CrashPoints
  /\ Goto(p, IF pc[p] \in Competing THEN "killed" ELSE "orphaned")
  /\ UNCHANGED <<child, lockDir>>

(* INCOMPLETE_OWNER_GRACE_MS passes over a directory without an owner.     *)
(* ASSUMPTION: a wrapper that is alive writes owner.json within the grace. *)
Age ==
  /\ lockDir.exists /\ lockDir.owner = {} /\ ~lockDir.old
  /\ \A p \in Wrappers : pc[p] # "write"
  /\ lockDir' = [lockDir EXCEPT !.old = TRUE]
  /\ UNCHANGED <<pc, child>>

Finished == \A p \in Wrappers : pc[p] \in Ended /\ child[p] # "alive"

Step(p) ==
  \/ MkDir(p) \/ WriteOwner(p) \/ ReadOwner(p) \/ Rename(p) \/ Poll(p)
  \/ Spawn(p) \/ SpawnFails(p) \/ SetChildPid(p) \/ AwaitExit(p)
  \/ Release(p) \/ RmDir(p)

LockNext ==
  \/ \E p \in Wrappers : Step(p) \/ ChildExits(p) \/ Crash(p)
  \/ Age
  \/ Finished /\ UNCHANGED lockVars

LockSpec == LockInit /\ [][LockNext]_lockVars

(* A wrapper that is not killed keeps running, commands end, time passes.  *)
LockFairness ==
  /\ \A p \in Wrappers : WF_lockVars(Step(p)) /\ WF_lockVars(ChildExits(p))
  /\ WF_lockVars(Age)

LockFairSpec == LockSpec /\ LockFairness

-----------------------------------------------------------------------------
Local == Wrappers \ CI

(* docs/reference/testing-policy.md: "One full gate at a time per Git      *)
(* common directory": the commands of two wrappers that take the lock      *)
(* never run at the same time.                                             *)
OneGateAtATime ==
  \A p, q \in Local : (child[p] = "alive" /\ child[q] = "alive") => p = q

(* A wrapper that held the lock, or its directory, was killed. *)
HolderKilled == \E p \in Local : pc[p] = "orphaned"

(* acquireLock ... release: until then the lock excludes, however many     *)
(* wrappers compete and whichever waiters are killed.                      *)
OneGateWhileHoldersLive == HolderKilled \/ OneGateAtATime

(* acquireLock and release: until then a wrapper between acquiring and     *)
(* releasing is the one owner.json names, so nobody else's reclaim has     *)
(* taken the directory away and its own release removes no other's.        *)
HolderOwnsDirectory ==
  HolderKilled \/ \A p \in Local : pc[p] \in Holding \ {"write"} => lockDir.owner = {p}

(* reclaimAbandonedLock: whoever is killed and wherever, a wrapper that    *)
(* lives gets its turn and exits: no lock is left behind for good, and no  *)
(* two wrappers wait for each other.                                       *)
EveryWrapperEnds == \A p \in Wrappers : <>(pc[p] \in Ended)

=============================================================================
