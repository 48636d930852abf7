----------------------------- MODULE LeafCapture -----------------------------
(***************************************************************************)
(* capture, trackProcessGroup, killProcessGroup and signalProcessGroups of *)
(* scripts/test-accounting/authority.ts: how the authority runs a leaf as  *)
(* the leader of a process group, copies its output to the transcript and  *)
(* settles exactly once, whatever the leaf, its descendants, the disk and  *)
(* the timers do.                                                          *)
(*                                                                         *)
(* One action is one callback of the authority's event loop with the       *)
(* microtasks it leaves, or one step of the operating system.  stdout and  *)
(* stderr are one pipe: append pauses and resumes both together.  Clocks   *)
(* are left out: an armed timer may fire at any later moment.              *)
(***************************************************************************)
EXTENDS Integers

CONSTANTS
  Captures,    \* calls of capture
  Pids,        \* numeric process group ids
  MaxChunks,   \* bound: chunks of output a leaf and its group write
  None

ASSUME CaptureAssumption ==
  /\ None \notin Captures /\ None \notin Pids
  /\ MaxChunks \in Nat

VARIABLES
  proc,          \* the operating system's view of each leaf
  pipe,          \* its output on the way to the transcript
  cap,           \* the variables of the capture closure
  registry,      \* liveProcessGroups
  unregistered,  \* captures whose tracker has let go of its group
  signalled,     \* whose tracker sent a signal in the last step
  landed,        \* whose tracker sent a signal that landed
  denied,        \* whose tracker sent a signal the system refused
  up             \* the authority process is running

tracker == <<registry, unregistered>>
signals == <<signalled, landed, denied>>
vars == <<proc, pipe, cap, registry, unregistered, signalled, landed, denied, up>>

Procs == [pid : Pids \cup {None}, leader : {"unborn", "failed", "alive", "dead", "reaped"},
          kin : BOOLEAN, holder : BOOLEAN]
Pipes == [output : 0..MaxChunks, kernel : 0..1, buffered : 0..1, pending : 0..MaxChunks,
          paused : BOOLEAN, open : BOOLEAN, lost : BOOLEAN, closed : BOOLEAN]
Caps == [ticker : BOOLEAN, deadline : BOOLEAN, killSettle : {"unset", "armed", "spent"},
         exitSettle : {"none", "kill", "drain"}, settling : BOOLEAN,
         settled : {"no", "resolved", "rejected"},
         failure : SUBSET {"stall", "deadline", "write", "spawn"}]

TypeOK ==
  /\ proc \in [Captures -> Procs]
  /\ pipe \in [Captures -> Pipes]
  /\ cap \in [Captures -> Caps]
  /\ registry \in [Pids -> Captures \cup {None}]
  /\ unregistered \subseteq Captures
  /\ signalled \subseteq Captures /\ landed \subseteq Captures /\ denied \subseteq Captures
  /\ up \in BOOLEAN

Init ==
  /\ proc = [c \in Captures |-> [pid |-> None, leader |-> "unborn", kin |-> FALSE, holder |-> FALSE]]
  /\ pipe = [c \in Captures |-> [output |-> MaxChunks, kernel |-> 0, buffered |-> 0, pending |-> 0,
                                 paused |-> FALSE, open |-> FALSE, lost |-> FALSE, closed |-> FALSE]]
  /\ cap = [c \in Captures |-> [ticker |-> FALSE, deadline |-> FALSE, killSettle |-> "unset",
                                exitSettle |-> "none", settling |-> FALSE, settled |-> "no",
                                failure |-> {}]]
  /\ registry = [p \in Pids |-> None]
  /\ unregistered = {}
  /\ signalled = {} /\ landed = {} /\ denied = {}
  /\ up = TRUE

-----------------------------------------------------------------------------
(* The operating system.  A group id is taken while its leader is not      *)
(* reaped or a member lives.                                               *)
Lives(c) == proc[c].leader = "alive" \/ proc[c].kin
Taken(p) == \E c \in Captures : proc[c].pid = p /\ (proc[c].leader \in {"alive", "dead"} \/ proc[c].kin)

(* What a SIGKILL to the group does to a leaf's processes. *)
Killed(q) == [q EXCEPT !.leader = IF @ = "alive" THEN "dead" ELSE @, !.kin = FALSE]

(* The leaf forks a child that stays in its group, or one that leaves it   *)
(* and keeps the pipes.                                                    *)
Fork(c) ==
  /\ proc[c].leader = "alive"
  /\ \/ proc' = [proc EXCEPT ![c].kin = TRUE]
     \/ proc' = [proc EXCEPT ![c].holder = TRUE]
  /\ signalled' = {}
  /\ UNCHANGED <<pipe, cap, tracker, landed, denied, up>>

Exit(c) ==
  /\ \/ proc[c].leader = "alive" /\ proc' = [proc EXCEPT ![c].leader = "dead"]
     \/ proc[c].kin /\ proc' = [proc EXCEPT ![c].kin = FALSE]
     \/ proc[c].holder /\ proc' = [proc EXCEPT ![c].holder = FALSE]
  /\ signalled' = {}
  /\ UNCHANGED <<pipe, cap, tracker, landed, denied, up>>

WriteOutput(c) ==
  /\ Lives(c) /\ pipe[c].open /\ pipe[c].output > 0 /\ pipe[c].kernel = 0
  /\ pipe' = [pipe EXCEPT ![c].output = @ - 1, ![c].kernel = 1]
  /\ signalled' = {}
  /\ UNCHANGED <<proc, cap, tracker, landed, denied, up>>

-----------------------------------------------------------------------------
(* trackProcessGroup and killProcessGroup. *)
Owns(c) == proc[c].pid # None /\ registry[proc[c].pid] = c

(* Mutant: unregister deletes whatever tracker holds the number. *)
Unregister_any(c) ==
  /\ unregistered' = unregistered \cup {c}
  /\ registry' = [p \in Pids |-> IF p = proc[c].pid THEN None ELSE registry[p]]

Unregister(c) ==
  /\ unregistered' = unregistered \cup {c}
  /\ registry' = [p \in Pids |-> IF p = proc[c].pid /\ registry[p] = c THEN None ELSE registry[p]]

NoSignal ==
  /\ signalled' = {}
  /\ UNCHANGED <<proc, landed, denied>>

(* process.kill(-pid): every member of the group with that number dies, or *)
(* there is none (ESRCH).                                                  *)
SignalLands(c) ==
  /\ proc' = [d \in Captures |-> IF proc[d].pid = proc[c].pid THEN Killed(proc[d]) ELSE proc[d]]
  /\ signalled' = {c}
  /\ landed' = landed \cup {c}
  /\ UNCHANGED denied

(* Any other error: the direct child is killed instead. *)
SignalDenied(c) ==
  /\ proc' = [proc EXCEPT ![c].leader = IF @ = "alive" THEN "dead" ELSE @]
  /\ signalled' = {c}
  /\ denied' = denied \cup {c}
  /\ UNCHANGED landed

(* Mutant: the group is signalled whoever owns its number. *)
Kill_unowned(c) ==
  \/ /\ c \notin unregistered /\ proc[c].pid # None
     /\ SignalLands(c) /\ Unregister(c)
  \/ /\ c \in unregistered \/ proc[c].pid = None
     /\ NoSignal /\ UNCHANGED tracker

(* Mutant: a landed kill keeps its registration. *)
Kill_keeps(c) ==
  \/ /\ c \notin unregistered /\ Owns(c)
     /\ SignalLands(c) \/ SignalDenied(c)
     /\ UNCHANGED tracker
  \/ /\ c \in unregistered \/ ~Owns(c)
     /\ NoSignal /\ UNCHANGED tracker

Kill(c) ==
  \/ /\ c \notin unregistered /\ Owns(c)
     /\ \/ SignalLands(c) /\ Unregister(c)
        \/ SignalDenied(c) /\ UNCHANGED tracker
  \/ /\ c \notin unregistered /\ ~Owns(c)
     /\ NoSignal /\ Unregister(c)
  \/ /\ c \in unregistered
     /\ NoSignal /\ UNCHANGED tracker

Release(c) ==
  \/ /\ c \notin unregistered
     /\ \/ Owns(c) /\ (SignalLands(c) \/ SignalDenied(c))
        \/ ~Owns(c) /\ NoSignal
     /\ Unregister(c)
  \/ /\ c \in unregistered
     /\ NoSignal /\ UNCHANGED tracker

-----------------------------------------------------------------------------
(* What a callback does to the capture's own variables. *)
Finish(j, outcome) ==
  [j EXCEPT !.settled = outcome, !.ticker = FALSE, !.deadline = FALSE, !.exitSettle = "none",
            !.killSettle = IF @ = "unset" THEN @ ELSE "spent"]

(* captureFailure decides the outcome. *)
Outcome(j) == IF j.failure = {} THEN "resolved" ELSE "rejected"

(* killForFailure and settleFailureAfterKill, the signal left to Kill. *)
Failing(j, why) ==
  [j EXCEPT !.failure = @ \cup {why}, !.killSettle = IF @ = "unset" THEN "armed" ELSE @]

(* Mutant: the leaf deadline is disarmed before the drain. *)
Settling_undated(j) ==
  [j EXCEPT !.settling = TRUE, !.ticker = FALSE, !.exitSettle = "none", !.deadline = FALSE]

Settling(j) == [j EXCEPT !.settling = TRUE, !.ticker = FALSE, !.exitSettle = "none"]

(* destroyChildPipes: whatever is unread is gone. *)
Destroyed(d) ==
  [d EXCEPT !.open = FALSE, !.lost = @ \/ d.kernel + d.buffered > 0, !.kernel = 0, !.buffered = 0]

(* append: the pipe is paused until the record is in the transcript. *)
Appended(d) == [d EXCEPT !.pending = @ + 1, !.paused = TRUE]

(* A record leaves the write chain. *)
Written(d) == [d EXCEPT !.pending = @ - 1]

(* resume: a chunk that waits in the stream flows at once. *)
Resumed(d) ==
  IF d.buffered > 0 THEN Appended([d EXCEPT !.buffered = 0]) ELSE [d EXCEPT !.paused = FALSE]

(* capture: spawn, register, arm the deadline and the ticker. *)
Start(c, p) ==
  /\ up /\ proc[c].leader = "unborn" /\ ~Taken(p)
  /\ proc' = [proc EXCEPT ![c].pid = p, ![c].leader = "alive"]
  /\ pipe' = [pipe EXCEPT ![c].open = TRUE]
  /\ cap' = [cap EXCEPT ![c].ticker = TRUE, ![c].deadline = TRUE]
  /\ registry' = [registry EXCEPT ![p] = c]
  /\ signalled' = {}
  /\ UNCHANGED <<unregistered, landed, denied, up>>

(* spawn fails: the error event releases, and rejects the promise. *)
StartFails(c) ==
  /\ up /\ proc[c].leader = "unborn"
  /\ proc' = [proc EXCEPT ![c].leader = "failed"]
  /\ cap' = [cap EXCEPT ![c] = Finish([@ EXCEPT !.failure = {"spawn"}], "rejected")]
  /\ unregistered' = unregistered \cup {c}
  /\ signalled' = {}
  /\ UNCHANGED <<pipe, registry, landed, denied, up>>

(* The loop reads the pipe: a flowing stream hands the chunk to append, a  *)
(* paused one keeps up to its high-water mark.                             *)
ReadChunk(c) ==
  /\ up /\ pipe[c].open /\ pipe[c].kernel = 1
  /\ \/ ~pipe[c].paused
        /\ pipe' = [pipe EXCEPT ![c] = Appended([@ EXCEPT !.kernel = 0])]
     \/ pipe[c].paused /\ pipe[c].buffered = 0
        /\ pipe' = [pipe EXCEPT ![c].kernel = 0, ![c].buffered = 1]
  /\ signalled' = {}
  /\ UNCHANGED <<proc, cap, tracker, landed, denied, up>>

(* The end of settleFromExit, once the write chain is empty. *)
Drained(c) == cap[c].settling /\ cap[c].settled = "no" /\ pipe[c].pending = 1

(* A record is in the transcript (or, after a failure, is skipped). *)
WriteDone(c) ==
  /\ up /\ pipe[c].pending > 0
  /\ pipe' = [pipe EXCEPT ![c] =
                IF "write" \in cap[c].failure THEN Written(@) ELSE Resumed(Written(@))]
  /\ \/ Drained(c) /\ cap' = [cap EXCEPT ![c] = Finish(@, Outcome(@))] /\ Release(c)
     \/ ~Drained(c) /\ NoSignal /\ UNCHANGED <<cap, tracker>>
  /\ UNCHANGED up

(* transcript.write rejects: killForFailure. *)
WriteFails(c) ==
  /\ up /\ pipe[c].pending > 0 /\ "write" \notin cap[c].failure
  /\ pipe' = [pipe EXCEPT ![c] = Destroyed(Written(@))]
  /\ \/ Drained(c) /\ cap' = [cap EXCEPT ![c] = Finish(Failing(@, "write"), "rejected")] /\ Release(c)
     \/ ~Drained(c) /\ cap' = [cap EXCEPT ![c] = Failing(@, "write")] /\ Kill(c)
  /\ UNCHANGED up

(* The ticker finds the leaf silent for LEAF_STALL_BUDGET_MS. *)
Stall(c) ==
  /\ up /\ cap[c].ticker
  /\ cap' = [cap EXCEPT ![c] = Failing([@ EXCEPT !.ticker = FALSE], "stall")]
  /\ pipe' = [pipe EXCEPT ![c] = Destroyed(@)]
  /\ Kill(c)
  /\ UNCHANGED up

(* killForDeadline *)
Deadline(c) ==
  /\ up /\ cap[c].deadline
  /\ cap' = [cap EXCEPT ![c] = Failing([@ EXCEPT !.deadline = FALSE], "deadline")]
  /\ pipe' = [pipe EXCEPT ![c] = Destroyed(@)]
  /\ Kill(c)
  /\ UNCHANGED up

(* KILL_SETTLE_GRACE_MS after a kill the capture is rejected regardless. *)
KillSettle(c) ==
  /\ up /\ cap[c].killSettle = "armed"
  /\ pipe' = [pipe EXCEPT ![c] = Destroyed(@)]
  /\ cap' = [cap EXCEPT ![c] = Finish(@, "rejected")]
  /\ Release(c)
  /\ UNCHANGED up

(* settleFromExit, j being the capture's variables at the call. *)
SettleFromExit(c, j) ==
  \/ /\ j.settled # "no" \/ j.settling
     /\ cap' = [cap EXCEPT ![c] = j]
     /\ NoSignal /\ UNCHANGED tracker
  \/ /\ j.settled = "no" /\ ~j.settling
     /\ \/ pipe[c].pending > 0 /\ cap' = [cap EXCEPT ![c] = Settling(j)] /\ Kill(c)
        \/ pipe[c].pending = 0 /\ cap' = [cap EXCEPT ![c] = Finish(Settling(j), Outcome(j))] /\ Release(c)

(* The exit event: node reaps the leader and resumes its pipes. *)
ExitEvent(c) ==
  /\ up /\ proc[c].leader = "dead"
  /\ proc' = [proc EXCEPT ![c].leader = "reaped"]
  /\ cap' = [cap EXCEPT ![c].ticker = FALSE, ![c].exitSettle = "kill"]
  /\ pipe' = [pipe EXCEPT ![c] = IF @.open THEN Resumed(@) ELSE @]
  /\ signalled' = {}
  /\ UNCHANGED <<tracker, landed, denied, up>>

(* First grace after the exit: leftover members of the group are killed. *)
ExitKill(c) ==
  /\ up /\ cap[c].exitSettle = "kill"
  /\ cap' = [cap EXCEPT ![c].exitSettle = "drain"]
  /\ Kill(c)
  /\ UNCHANGED <<pipe, up>>

(* Mutant: the pipes are destroyed whatever is still draining. *)
Idle_assumed(c) == TRUE

(* settleWhenDrained: nothing buffered and no write pending. *)
Idle(c) == pipe[c].pending = 0 /\ pipe[c].buffered = 0

(* The event loop polls between two timers: what the system holds by then  *)
(* has been read, unless the stream is at its high-water mark.             *)
Polled(c) == pipe[c].kernel = 1 => pipe[c].paused /\ pipe[c].buffered = 1

(* Second grace, repeated while something drains. *)
ExitDrain(c) ==
  /\ up /\ cap[c].exitSettle = "drain"
  /\ \/ cap[c].settled = "no" /\ ~cap[c].settling /\ Polled(c) /\ Idle(c)
        /\ pipe' = [pipe EXCEPT ![c] = Destroyed(@)]
     \/ (cap[c].settled # "no" \/ cap[c].settling) /\ UNCHANGED pipe
  /\ SettleFromExit(c, [cap[c] EXCEPT !.exitSettle = "none"])
  /\ UNCHANGED up

(* The close event: exited, and the pipes are at their end or destroyed. *)
CloseEvent(c) ==
  /\ up /\ ~pipe[c].closed /\ proc[c].leader \in {"reaped", "failed"}
  /\ \/ ~pipe[c].open
     \/ /\ pipe[c].kernel = 0 /\ pipe[c].buffered = 0 /\ ~pipe[c].paused
        /\ ~Lives(c) /\ ~proc[c].holder
  /\ pipe' = [pipe EXCEPT ![c].closed = TRUE, ![c].open = FALSE]
  /\ SettleFromExit(c, cap[c])
  /\ UNCHANGED up

(* signalProcessGroups on SIGINT, SIGTERM or exit. *)
Shutdown ==
  /\ up /\ up' = FALSE
  /\ LET held == {p \in Pids : registry[p] # None}
     IN \E hit \in SUBSET held :
          /\ proc' = [c \in Captures |-> IF proc[c].pid \in hit THEN Killed(proc[c]) ELSE proc[c]]
          /\ signalled' = {registry[p] : p \in held}
          /\ landed' = landed \cup {registry[p] : p \in hit}
          /\ denied' = denied \cup {registry[p] : p \in held \ hit}
  /\ UNCHANGED <<pipe, cap, tracker>>

Next ==
  \/ \E c \in Captures, p \in Pids : Start(c, p)
  \/ \E c \in Captures :
       \/ StartFails(c) \/ Fork(c) \/ Exit(c) \/ WriteOutput(c)
       \/ ReadChunk(c) \/ WriteDone(c) \/ WriteFails(c)
       \/ Stall(c) \/ Deadline(c) \/ KillSettle(c)
       \/ ExitEvent(c) \/ ExitKill(c) \/ ExitDrain(c) \/ CloseEvent(c)
  \/ Shutdown

Spec == Init /\ [][Next]_vars

(* Armed timers fire.  Nothing is assumed of the leaf or of the disk: a    *)
(* leaf may hang and a write may stay pending.                             *)
Fairness == \A c \in Captures : WF_vars(Deadline(c)) /\ WF_vars(KillSettle(c))

FairSpec == Spec /\ Fairness

-----------------------------------------------------------------------------
(* trackProcessGroup, "a tracker signals ... only while it still owns its  *)
(* PGID": although numbers are reused, no capture's tracker, and no        *)
(* shutdown, ever signals the live group of another capture.               *)
SignalsOwnGroup ==
  [][\A c \in signalled', d \in Captures : proc[d].pid = proc[c].pid /\ Lives(d) => d = c]_vars

(* "no later kill, release or shutdown path may signal it again": after a  *)
(* signal that landed, and after the capture settled, none is sent.        *)
NeverSignalledAgain ==
  [][signalled' \cap (landed \cup {c \in Captures : cap[c].settled # "no"}) = {}]_vars

(* trackProcessGroup and signalProcessGroups: no process of a leaf's group *)
(* outlives the capture, or the authority, unless the system refused a     *)
(* signal.                                                                 *)
NoOrphans ==
  \A c \in Captures : (~up \/ cap[c].settled # "no") /\ c \notin denied => ~Lives(c)

(* The exit handler, "so complete events are never discarded": a capture   *)
(* that resolves has read all its leaf's group wrote, has it in the        *)
(* transcript, and met no stall, deadline or write failure.                *)
NothingDiscarded ==
  \A c \in Captures :
    cap[c].settled = "resolved" =>
      ~pipe[c].lost /\ pipe[c].buffered + pipe[c].pending = 0 /\ cap[c].failure = {}

(* "a wedged transcript write cannot outlive" the leaf deadline: every     *)
(* capture that starts settles, unless the authority is shut down.         *)
EverySettles ==
  \A c \in Captures : proc[c].leader # "unborn" ~> (cap[c].settled # "no" \/ ~up)
=============================================================================
