# TLA+ models of PDPP

This directory holds TLA+ models of the parts of the PDPP repository whose
correctness depends on the order in which things happen: TLC checks them on
small instances, and TLAPS proves the main safety properties for every value of
the constants. Paths below are relative to the repository root; the files named
most often get a short name:

| | |
|---|---|
| **L** | `scripts/test-accounting/with-local-full-suite-lock.mjs` |
| **T** | `scripts/test-accounting/authority.ts` |
| **R** | `packages/conformance-suite/src/targets/reference-server.ts` |
| **A** | `packages/conformance-suite/src/targets/reference-adapter.ts` |
| **O** | `scripts/test-scratch/ownership.ts` |
| **C** | `scripts/test-scratch/run-command.ts` |
| **SP** | `apps/site/src/lib/signing/providers.ts` |
| **E** | `packages/operator-ui/src/explore/explore-data-assembler.ts` |
| **SA** | `scripts/stream-health-audit/authority.ts` |
| **RC** | `scripts/stream-health-audit/receipt.ts` |

`PROJECT.json` is the machine-readable index: components, runs, the source lines
every definition stands for, hazards, findings, and, for every property, a
mutated definition under which the property fails.

To repeat a run: `tlc -config SuiteLock_lock.cfg SuiteLock`. To repeat a proof:
`tlapm GateProofs.tla`.

## 1. Inventory

PDPP is a protocol by which a person (the *owner*) lets a *client* read chosen
streams of personal data under a *grant*. The repository holds the protocol's
text, a conformance suite with an in-process reference target, a site and
operator UI, and the machinery with which the repository's own test suites are
run and accounted for and a live instance is audited.

### Components

| component | state | operations | interacts with | model |
|---|---|---|---|---|
| Reference resource server, sync (R) | live records, `versionClock`, `recordVersions`, `changedFields`, tombstones, expired tokens | `writeField`, `deleteRecord`, `expireSyncCursor`, the records handler | grants (projection), clients over HTTP | `SyncServer` |
| Reference target, grants (R, A) | grants, principals, refresh-token families, views, staged approvals | stage, approve, issue, revoke, expire, rotate, widen a view, introspect, read | sync handler, conformance cases | `GrantServer` |
| Declarations and selections (A) | declared client, streams, purposes | `submitDeclaration`, `submitSelection` | issuance | no |
| AS adapter, HTTP target | none of its own | calls a remote authorization server | a server outside the repository | no |
| Conformance harness, cases, report | verdicts | run cases, aggregate | the two targets | no |
| Full-suite lock (L) | a directory in the Git common directory, `owner.json` | acquire, reclaim, record the child, release | other wrapper processes, the kernel | `SuiteLock` |
| Accounting authority, scheduler (T) | lanes, `unsealed`, `suspect`, `stopped`, receipts on disk | `schedulePhases`, `runPool`, `finishRun`, `settle`, `sealRun` | the shared checkout, captures | `RunAuthority` |
| Accounting authority, capture (T) | a leaf process group, its pipes, a transcript, five timers | `capture`, `trackProcessGroup`, `settleFromExit`, shutdown | the kernel, the scheduler | `LeafCapture` |
| Inventory, packet, receipts | files | digest, parse, verify | the scheduler | no |
| Scratch ownership (O, C, `sandbox-child.ts`) | marker, intent and group files, journals, directories, a recovery cursor | allocate, launch, stop, journal, rename, remove, recover | other processes, the kernel, the sandbox | `ScratchOwnership`, `RecoveryScan` |
| Hermetic guards | patched entry points of node | deny | the tests | no |
| Stream-health audit (SA, RC, `live.ts`) | what has been read of a live instance | follow pages, render, evaluate, settle | the instance, a browser | `HealthReceipt` |
| Owner session, page following | a cookie, a set of followed continuations | log in, follow cursors | a server | in `HealthReceipt` |
| Site signing | pending submissions, register files, `withdrawn.log`, a counter per address | submit, confirm, withdraw | mail, key-value store, GitHub contents API | `Signing` |
| Operator UI, explore assembler (E) | the URL's trail of cursors | dispatch a lens, fan in, load more | the API | `Explore` |
| Reference operations sandbox | injected stores | list, search, page | the site | no |
| Reference contract, evidence | none | validate | all | no |
| List envelope | none | validate | page following | in `HealthReceipt` |
| Display, brand | none | format | UI | no |
| Site demo sandbox | static fixtures | render | — | no |
| Fast test selection, CI mode, test migration | file lists | select, rewrite | — | no |

### What is hard, and what makes each part correct

* **Full-suite lock.** Several processes race for one directory with separate
  system calls and any of them may be killed between two calls. Correct: one
  full gate at a time; whoever holds the lock is the one `owner.json` names; no
  dead owner blocks the rest for ever.
* **Sync.** The server keeps no session: the list a page is cut from is computed
  anew for every page while the owner writes and deletes. Correct: a session
  delivers only changes the grant may see, only up to the moment it was opened,
  each record once; a client that finishes has everything up to its token.
* **Grants.** Long legal sequences: a view widened between staging and approval,
  a refresh token replayed after further rotations, tokens minted after
  revocation. Correct: data is served only while the grant is in force and only
  inside the scope frozen at issuance; a replayed refresh token ends its grant.
* **Scheduler.** Lanes share one checkout, and a run that ends while others
  execute cannot tell its own leftovers from their transient files. Correct: no
  run starts over leftovers, nothing dirty gets a receipt, runs with a prepare
  step run alone, a green gate has every receipt, nobody waits for ever.
* **Capture.** Five timers, two process events and asynchronous writes race to
  settle one promise while process-group numbers are reused. Correct: no output
  of a successful leaf is lost, no foreign group is signalled, no process of a
  leaf survives, and every capture settles.
* **Scratch ownership.** A directory's owner may be killed between any two of its
  calls: while it launches a command whose process group nobody has recorded
  yet, while it stops it, while it removes the directory with the marker half
  deleted. Recovery passes of other processes, perhaps in another PID namespace
  or after a reboot, then decide from what lies on disk. Correct: no directory
  in use is moved, no live owner is robbed, what is interrupted stays
  recoverable, and nothing that is provably dead is kept for ever, although a
  pass looks at a bounded number of entries.
* **Signing.** One submission is parked in a key-value store and ends as a file in
  a Git repository; confirmation and withdrawal links may be used several times
  and at once; every remote call may fail before or after it took effect.
  Correct: no signature is accepted and dropped, a withdrawal that reports done
  leaves no file it could have found, the log counts the deletions, the limit on
  mail holds.
* **Explore.** Every render fetches all the pages of its trail afresh while
  connectors ingest. Correct: what is shown is a gapless prefix of one snapshot,
  "Load more" only adds, and a lens that shows less than it was asked for says so.
* **Audit.** One receipt is composed of several reads of an instance that changes,
  is redeployed and fails meanwhile. Correct: a pass is never the result of
  having overlooked trouble that lasted, nor of answers of two revisions; and an
  unattended audit ends.

The full list of hazards, each at its line, is in `PROJECT.json`. It leaves out
four, of which no model here reaches three: a process id reused by a process the
authority did not start (T:201); `transcript.close()` waiting for a wedged write
after a capture was rejected (T:1047); a wildcard selection whose time range is
not checked against the streams it stands for (A:958). The fourth is reached and
no property is about it: when the call that gives the rate counter its expiry
fails (SP:102), the address stays limited.

## 2. Modules

| module | what it is |
|---|---|
| `SuiteLock` | L: one action per system call of the wrapper |
| `SyncServer`, `MCSyncServer` | R: sync sessions of one mutable-state stream; instances |
| `SyncServerProofs` | `Typed`, `OnlyVisibleChanges`, `Horizon`, `NothingElseMissed`, `DeliveredOnce` |
| `ConsentedAccess` | abstract: what an owner is promised by a grant |
| `GrantServer`, `MCGrantServer` | R and A: grants, tokens, families, views, approvals, read gates; instances |
| `GrantServerProofs` | `Typed`, `Reuse`, `ExchangedOnce`, `Approvals`, `Refinement` |
| `RunAuthority`, `MCRunAuthority` | T: the pool of lanes over one checkout; instance |
| `GateProofs` | of `SuiteLock`: `LockTyped`, `Exclusion`, `Ownership`; of `RunAuthority`: `Typed`, `CleanReceipts`, `PreparedAlone`, `CleanStart`, `Unstranded`, `Green` |
| `LeafCapture`, `MCLeafCapture` | T: one leaf from spawn to settlement; instance |
| `LeafCaptureProofs` | `Typed`, `OwnGroup`, `SignalledOnce`, `Orphans`, `Complete` |
| `ScratchOwnership` | O, C: the life of a scratch directory, its owner, its command, and recovery by several passes |
| `ScratchOwnershipProofs` | `Typed`, `Capability`, `OnlyOwnerMoves`, `NobodyInside` |
| `RecoveryScan`, `MCRecoveryScan` | O: which entries a bounded recovery pass looks at, and where the next one resumes |
| `Signing`, `MCSigning` | signing routes over a key-value store and a repository, call by call |
| `SigningProofs` | `Typed`, `Durable`, `Withdrawn`, `LogIsTrue`, `LimitHolds` |
| `ExploreTimeline` | E: the recent lens and its two accumulating trails |
| `ExploreFanIn` | E: the time-range lens, one bounded read per stream |
| `Explore` | E: `dispatchFeed`, the two lenses as one page |
| `ExploreProofs` | `Typed`, `FeedPrefix`, `UpcomingPrefix`, `OnlyAdds`, `Disclosed` |
| `HealthReceipt` | SA, RC, `live.ts`, page following: one audit of a changing instance |
| `HealthReceiptProofs` | `Typed`, `Earned`, `Rendered`, `SettledRead`, `Bounded` |

A definition whose name has a suffix (`Abandoned_noGrace`) is a *mutant*: what
the definition without the suffix would be with a plausible mistake in the code.
No specification uses it.

### SuiteLock

A wrapper is a program counter; the name of a point is the call that comes next
(`mkdir`, `reclaim`, `rename`, `wait`, `write`, `spawn`, `setChildPid`, `await`,
`release`, `rmdir`). The lock is a record: whether the directory exists, whom
`owner.json` names, whether it names the child, and whether the directory is older
than the grace. Reading the owner and renaming the directory are two actions, as
they are two system calls in `reclaimAbandonedLock`. A wrapper is killed at any of
the points in `CrashPoints`; its command survives it, because it is not in a
process group of its own. A spawn that fails may still record a missing child
before its error event ends the wrapper (`SpawnFails`).

Assumption: a live wrapper that has created the directory writes `owner.json`
within the ten seconds of grace (`Age`). A pid is not reused while it matters.

### SyncServer

A value is the version that wrote it, so "changed since" is a comparison of
versions. The rows of a response are a set with the order `Before`; `Window` is
the slice of it at an offset. The client is the one the protocol text
describes: it sends `changes_since` first, follows `next_cursor`, keeps
`next_changes_since`, and starts over after 410. `seen`, `anchor` and `missed`
are history variables: `missed` collects the records of the two gaps described
in section 4, so that `CaughtUp` can say that there is no third.

Not in the model: time constraints on a grant, several instances of a stream,
sorting, the faults the conformance suite injects, append-only streams.

### GrantServer and ConsentedAccess

Ids drawn from the server's counter are unused members of finite sets; a request
is a wildcard, a view, or a stream with fields. `Status` is the sequence of gates
of `handle`, in the order of the code, and `Read` what passes them.
`ConsentedAccess` has three actions: a grant is issued, ends, serves. The
mapping reads `status` off the revoked and expired flags, `scope` off the frozen
fields, and `access` off the last response.

Not in the model: owner tokens, single-use grants (refused by the target), the
client registry, time windows.

### RunAuthority

The authority is one event loop. A lane whose promise is settled runs until it
awaits again before the loop turns to the next I/O event: that is `Quiet`, the
guard of every action that stands for an I/O event. The checkout is the set of
runs that have files in it, split into files of executing runs (`transient`) and
of ended ones (`leftovers`); `git status` sees both, which is the difficulty the
scheduler deals with. `EndRun` and `LastRunEnds` are `finishRun` with and without
siblings in flight, `Settle` is `settle` up to its first await, `SealRun`,
`SealFails` and `Settled` are what follows it.

### LeafCapture

An action is one callback of the event loop or one step of the operating system
(fork, exit, write to the pipe). stdout and stderr are one pipe with three stages:
the kernel's buffer, the stream's buffer and the chain of transcript writes. A
leaf has its leader, perhaps other members of the group (`kin`) and perhaps a
descendant outside the group that holds the pipes open (`holder`). Timers may fire
at any time once armed. `settleWhenDrained` looks at pending writes and at the
stream's buffer (`Idle`), not at the kernel's; that the latter holds nothing by
then is a fact about node and a guard of its own (`Polled`): the loop polls
between two timers, so what was in the kernel has been read unless the stream is
at its high-water mark. Node resumes the pipes of an exited child (`ExitEvent`).

Not in the model: SIGKILL of the authority itself; processes the authority did
not start that reuse a group number; `prepareSuite`; the parsing of structured
output.

### ScratchOwnership

A *root* stands for an owner process, its directory, the quarantine the directory
is renamed to and the journal beside it: the code identifies them all by device,
inode and nonce. The owner goes through allocation, the `launching` marker, the
launch intent, `spawn` and the `running` marker (`markScratchLaunching` to
`markScratchRunning`),
and through one or two shutdowns, one started by a signal and one after the
child's `close`; cleanup is the sequence verify, open the journal, write it,
rename, remove, remove the journal. Owner and passes run the *same* cleanup steps
(`job`), as they call the same functions, and a pass joins it from the marker, a
journal, or a quarantine. `files` is the set of lifecycle files in the directory,
because what recovery concludes depends on which of them an interrupted removal
has left.

A process is its process group; `published` and `command` are the states of the
sidecar after it wrote its group file. A pass in `Foreign` is in another PID
namespace: its probes find nobody, dead or alive.

Abstractions: reuse of a process id is left out (a probe would answer "live",
which only retains); the sandbox's group is one process; the branch for a sidecar
that shares its group, and markers of older versions, are left out; the reads of
`sandboxGroupReason` are one step; `RECOVERY_GRACE_MS` is a flag that becomes
true. Nothing is assumed of bubblewrap's `--die-with-parent`: a sidecar may
outlive its sandbox. A crash of the owner, a failed call and a kill from outside
are counted by `MaxFaults`; a signal may come at any time and counts as nothing.
`misread` is a history variable: it becomes true when the shutdown of a signal
meets a sandbox that was killed from outside and takes it for one that never
started a command (`NothingPublished`, section 4).

### RecoveryScan

The bounded directory scan of `recoverStaleScratch`: sorted names, a cursor file
that says where the last pass stopped, three budgets. What a pass does to one
entry is `ScratchOwnership`; here an entry is removed, fails to be removed, or is
retained, and each name has a fixed cost in state transitions. Passes of several
processes overwrite one another's cursor. The split is that of the code: the
scan treats every entry alike, whatever its state.

### Signing

Every remote call of the three routes is an action, and it may fail before or
after it took effect; handlers keep nothing but local variables (`req`). A
register file is a serial number, which stands for GitHub's blob sha, so that a
delete or a write with a stale sha fails as it does there. The year of the clock
is state, because the path of a file contains it. One address is modelled, with
its counter, the counter's expiry and the windows. `admitted` is a history
variable: the window in which the limiter let a submission through. A mail may be
delivered although the answer is lost (`unheard`): the form reports a failure, and
the links work.

Abstractions: the concurrent probes of a withdrawal are one read, in which any of
them may fail; schema validation is the choice `Reject`; the text of records,
mails and pages, and the choice of the branch, change no state.

### Explore, ExploreTimeline and ExploreFanIn

The endpoints are outside the repository. The recent lens uses them so: a first
page captures a snapshot, a cursor carries it, and a rewound cursor serves page 1
of it. `FetchPlan` is the plan of requests a URL stands for, `FetchPage` answers
one of them, in any order and with other actions in between, and `Concat` joins
them without rows that are there already. What a page holds is a set, a feed is a
sequence of pages: the assembler keeps the pages in the order of the trail and
leaves the order within a page as the endpoint gave it. In the time-range lens
each stream is read once, with a limit, and may fail or omit its count; `Collect`
filters, merges, cuts at the cap and decides what the page may claim.
`dispatchFeed` composes the two: a URL leads to one of them, every render starts
from its URL, and no render keeps anything of another, so a behaviour of `Explore`
stays in the lens it begins in.

Abstractions: one record per semantic time; records are not deleted or emitted
again; direction and scopes are left out, as are the display-only anchor and the
"N new" count; a new navigation supersedes the load in flight; a failed read of
the stream list only adds a warning. The search lens is left out: its pages are
ranked by the server.

### HealthReceipt

The steps are the requests of one receipt in their order: log in, walk the
summary pages, read the manifests, walk the rendered pages in a browser, evaluate,
log in again, read the banner, walk the summary pages a second time. Between any
two of them the fleet changes (`Change`) or the instance is redeployed; any of
them may fail or answer with a wrong envelope, counted by `MaxFaults`. The
continuation of a page is chosen by the instance, and may lead back
(`looping`), which `Repeats` detects. `had`, `listed` and `rendered` in
`evidence` are history.

Abstractions: the fleet and its pages are modelled from how the audit uses them
(keyset pages, each a function from its connections to their states; the console's
page size is a constant of its own); a connection has one class (`green`,
`unsettled`, `failed`, `working`, `revoked`) and one stream; an unsettled
projection shows only in the settlement facet; manifests are read in one step,
which may record the revision of an answer that failed, as `fetchCatalogManifests`
does before it throws; the console selects the first row or none, and may hide a
later row as a fault. At most one of the two lists loops, and that uses up a
fault.

## 3. Runs

| run | checks | instance | result |
|---|---|---|---|
| `lock` | `OneGateWhileHoldersLive`, `HolderOwnsDirectory`, `EveryWrapperEnds` | three wrappers and one under CI, killed at every call | hold |
| `lock_two_waiters` | `OneGateAtATime` | three wrappers, a holder is killed | violated |
| `sync_sessions` | `NoHiddenChange`, `AnchoredToFirstPage`, `CaughtUp`, `OncePerSession`, `SessionEnds` | three records, two fields of which one is visible, limits 1 and 2 | hold |
| `grant_consent` | `ReuseEndsGrant`, `ExchangedAtMostOnce`, `ApprovalOnlyWidens`, `KeepsConsent` | two grants, three access and three refresh tokens, one view | hold |
| `authority_pool` | `SealedLeftNothing`, `PreparedRunsAlone`, `NeverStranded`, `GreenIsComplete`, `NoStartOverLeftovers`, `PoolEnds` | six runs, two with a prepare step, three lanes | hold |
| `capture_output` | `NothingDiscarded`, `EverySettles` | one leaf, four chunks of output | hold |
| `capture_groups` | `NoOrphans`, `SignalsOwnGroup`, `NeverSignalledAgain` | two leaves that share one group number | hold |
| `scratch_recovery` | `LiveRemovalOnlyMisread`, `CapabilityKept`, `NoTheft`, `StaleRootsRecovered` | one root, two local passes and a foreign one, two faults, one reboot | hold |
| `recovery_scan` | `StaleEntriesRemoved` | three names, two passes, budgets 2, 1 and 2 | holds |
| `signing` | `NothingDropped`, `DoneMeansGone`, `LogCounts`, `MailBounded` | four submissions and a limit of two in two windows, four uses of the links of two submissions, two years, one failed call | hold |
| `explore` | `FeedIsPrefix`, `UpcomingIsPrefix`, `LoadMoreOnlyAdds`, `MissingIsDisclosed` | five records, pages of two, four navigations; two streams of three records | hold |
| `receipt` | `PassIsEarned`, `AgreeMeansRendered`, `ReadMeansSettled`, `AuditEnds` | two connections, pages of one, one change, one fault, a redeployment | hold |

What they show, where the property's name does not say it:

* `lock`: until a wrapper is killed *while it holds the lock*, one gate runs at a
  time; and whoever is killed, every other wrapper ends. The second half needs no
  such condition.
* `scratch_recovery`: `StaleRootsRecovered` names the five reasons for which a
  directory may stay (`Retained`) and shows that there is no sixth. Two of them
  are deliberate (an unknown launch, a live group), three are the price of
  failing closed: no marker was ever written, a torn journal, and a launch intent
  whose group file was removed first, until the next boot.
* `scratch_recovery`: `LiveRemovalOnlyMisread` says that the misreading of C:255
  (section 4) is the only way into a directory that was moved. The stronger
  `NoLiveRemoval` is false of the code and is not checked by a run.
* `signing`: `MailBounded` counts what each window let through, whether it was
  stored and sent or failed at any later call, so a lost answer frees no place.
  `DoneMeansGone` likewise names the reasons for which a file may
  survive a withdrawal that reported done.
* `receipt`: the properties speak of connections whose state lasted from the
  first request to the verdict (`had`); a change in between is nobody's fault.

### Finding

**Two waiters, one dead owner** (`lock_two_waiters`, L:75). `renameSync` moves
away whatever is at `lockPath`, not the lock whose owner was judged dead. A
waiter that read the dead owner before another waiter reclaimed the lock renames
the other's fresh lock away, and two gates run at once.
`docs/reference/testing-policy.md:122` promises one at a time. The same promise
is broken by a wrapper killed between `spawn` and `setChildPid` (L:132): its
command runs on under a lock that looks abandoned.

### Bounds, and why they are enough

* `SuiteLock`: a conflict over the directory takes an owner and two waiters, and
  nothing in the code counts wrappers. `Exclusion` and `Ownership` are proved for
  any number; only `EveryWrapperEnds` rests on the bound.
* `SyncServer`: clients never change the server and do not see each other, so one
  client per run is general. Three records with pages of one or two give first,
  middle and last pages; `MaxVersion = 5` leaves the owner two writes or
  deletions at any points, enough for a shifted offset, a masked change, a
  deletion between pages and an expired token. The run also passes with
  `MaxVersion = 6`, in about three minutes. The safety properties are proved
  without the bounds.
* `GrantServer`: a family must rotate twice before an old token can come back
  with a successor in use, hence three refresh tokens; the second grant is there
  to be the wrong one. Ids are symmetric. Everything but the bound itself is
  proved in general.
* `RunAuthority`: three lanes are the first number at which one lane can wait
  for rest while two others execute, and six runs keep them busy in both phases.
* `LeafCapture`: four chunks fill the kernel's buffer, the stream's buffer and
  the write chain and leave one to be written late; one group number shared by
  two captures makes every start a reuse. The safety properties are proved for
  any captures, numbers and chunks; `EverySettles` rests on the bounds.
* `ScratchOwnership`: roots do not share files, so one root is general. Three
  cleaners besides the owner give two recoveries that interfere and one that
  cannot see; two faults give a killed owner and a killed recovery; a second
  reboot changes nothing that the first has not (`rebooted` is a flag). The
  safety properties are proved without these bounds; `StaleRootsRecovered` rests
  on them.
* `RecoveryScan`: the entry budget is smaller than the directory, one removal
  attempt per pass makes every failure cost a pass, and the largest cost equals
  the transition budget.
* `Signing`: a race needs two requests for one submission; four allow two
  confirmations and two withdrawals of one, or one of each of two. Two years and
  one candidate year put a file within and outside the probes. Four submissions
  against a limit of two make a breach possible in the second window as in the
  first. The two halves meet in the links only: a request neither reads nor writes
  the limiter, so `MCSigning` explores the links of two submissions (`Signers`)
  once the forms are at rest in the first window (`Bound`), and every submission
  and window while no link is used. The proofs drop every bound.
* `ExploreTimeline`: four navigations reach a trail of two cursors and a "Load
  more" after it, or one cursor on each of the two trails; five records fill two
  pages and leave an ingestion for each side. `ExploreFanIn`: two streams of up to
  three records against a page of two and a cap of three, so both cuts happen;
  `ExploreProofs` drops every bound of both lenses.
* `HealthReceipt`: pages of one row make two connections two pages; the two lists
  have different page sizes. The safety properties are proved without the bounds,
  and `HealthReceipt_larger.cfg` repeats them with three connections; `AuditEnds`
  rests on the bounds.

### Fairness

* `SuiteLock`: a wrapper that is not killed goes on (weak fairness of its steps:
  there is no lock in the kernel that could starve it), commands end, time
  passes.
* `SyncServer`: a client follows the cursor of a session it has opened. Nothing
  is assumed of the owner.
* `RunAuthority`: each run ends, which the leaf and prepare deadlines enforce;
  writes of receipts complete; the event loop goes on.
* `LeafCapture`: the deadline and kill-grace timers fire once armed. Nothing is
  assumed of the leaf or of the disk: a leaf may hang and a write may never
  complete.
* `ScratchOwnership`: time passes, a cleanup that was begun goes on unless it is
  killed, and passes inspect an entry again and again. The last is strong
  fairness, since another pass may keep the entry busy at the moment one looks;
  `RecoveryScan` shows that the scan does come back to every entry. Nothing is
  assumed of owners and commands.
* `RecoveryScan`: each pass goes on unless it is killed; new entries stop arriving.
* `HealthReceipt`: the audit goes on, and every request is answered or fails. Of
  the instance it is assumed that its continuations are drawn from finitely many
  cursors; they may lead back. The rendered walk has a page budget, the walk over
  list envelopes (`ref-connectors-page-follow.ts:67`) has none, and an instance
  that invented a new cursor for every page would keep it going.
* `Signing`, `Explore`: none; their properties are safety.

Deadlock is checked in the runs of `SuiteLock`, `SyncServer`, `grant_consent` and
`recovery_scan`. In the others the system really stops (a pool, a capture, an
audit end; links, faults and navigations are used up), so they do not check it;
where something must happen before it stops, a liveness property says so.

### Further configurations

Each of these shows a property that is *false* of the code, as a trace to read;
they are kept to be run by hand.

| configuration | property | what it shows |
|---|---|---|
| `SyncServer_skipped_row.cfg` (`MCSyncServer`) | `NoGap` | the first gap of section 4, under "Divergences" |
| `ScratchOwnership_killed_sandbox.cfg` | `NoLiveRemoval` | a sandbox killed from outside while its owner shuts down by signal |
| `ExploreTimeline_stale_trail.cfg` | `RevealedStaysVisible` | an Upcoming row that falls between head and trail |
| `ExploreFanIn_exact.cfg` | `ExactMeansExact` | a set called exact whose total counts other records |
| `HealthReceipt_listed.cfg` | `PassMeansListed` | a pass over a rendered source the inventory does not list |
| `HealthReceipt_settled.cfg` | `OkMeansSettled` | a receipt that is ok because its second walk failed |

## 4. Divergences between the code and what is said of it

Met while modelling; none of them changes what the runs above check, and where a
property would be false because of one, its statement names the exception.

* **Sync: a skipped row** (R:1954). The page is cut at a numeric offset out of
  rows that are computed anew; a deletion, or a write past the horizon, of a row
  of an earlier page moves the later rows up by one, and the terminal token passes
  over the skipped row. `spec/spec-core.md:245` promises each changed record.
* **Sync: a masked change** (R:848). `writeField` replaces `changedFields`; a
  visible change followed by an invisible one, both after the client's token, is
  never delivered. The same holds of a first session, which omits a record whose
  last write was invisible to the grant. `NothingElseMissed` proves that these
  two gaps are the only ones.
* **Grants: an artifact that is out of date** (A:790). `approve` resolves the view
  again, so a view widened after `stageApproval` gives the grant a field the owner
  was not shown, although A:660 says that the reviewed artifact describes exactly
  the fields the grant will carry. `ApprovalOnlyWidens` is what remains true.
* **Scratch: a killed sandbox** (C:255). The shutdown a signal starts passes
  "not killed" to the poll for the published group; if the sandbox is then killed
  from outside, an absent group file is taken for "no command exists", although
  the comment at C:85 gives a killed sandbox as a case of "unknown". The main run
  has this coincidence in it and records it (`misread`); the property excuses what
  follows from it and nothing else.
* **Scratch: a half-removed quarantine** (O:651). Removal that deleted the group
  file before the launch intent leaves a quarantine that is retained until the
  next boot; the scenario "Cleanup crashes after journal persistence or quarantine
  rename" of the `test-scratch-lifecycle` specification says recovery removes it.
* **Signing: two files of one signatory.** A confirmation that failed after its
  write and is repeated in the next year writes a second file;
  `apps/site/src/lib/signing/index.ts:244` says one file per signatory, and a
  withdrawal deletes the newer only.
* **Signing: when a link is burnt.** `apps/site/src/lib/signing/index.ts:211-213`
  says that the routes burn the token before they act on it; they burn it after
  the record is durable, as `confirmation.ts:10` and `providers.ts:186-191` say.
  The model, and `NothingDropped`, follow the code.
* **Signing: six years** (SP:308). A withdrawal looks for six years;
  `api/sign/withdraw/route.ts:29` says that a link kept for years still works.
* **Explore: a stale Upcoming trail** (E:1265). Without a feed trail page 1 is
  fetched afresh and joined to an Upcoming trail of an older snapshot; the comment
  above the walk says that revealed records stay visible.
* **Explore: an exact set that is not** (E:1582). The total of `filtered_exact` adds
  up counts of whole streams, and a stream that failed does not make the set
  partial; `set-descriptor.ts:79` says "exact and complete for the active filter".
* **Explore: search paths.** A search that is answered by recency does not pass
  the recall gate that the comment at E:1754 requires of a pageable result.
* **Audit: an extra rendered source** (SA:2209, SA:2240). If the inventory is empty,
  or the extra source is the selected one, `compareDom` finds it and does not
  fail on it; `authority.test.ts:1491` and `:1746` say that it is a disagreement.
* **Audit: an empty second walk** (RC:312). A failed walk returns no rows, and no
  rows are settled; RC:56 says "never inferred from an empty row set".
* **Audit: one revision.** The settlement and banner reads do not look at the
  revision of their answers, although RC:22-24 says the receipt gives the revision
  that produced every fact; the second walk also asks for another inventory than
  the one RC:238 calls the same.

## 5. Proofs

Each proof module has the same shape: an inductive invariant, a theorem that
`Init` implies it, one that every step preserves it (one case per action), and the
theorems that follow. TLC checked each invariant on the instances above before it
was proved. In each the type invariant is a theorem of its own (`Typed`, and
`LockTyped` of the lock); in `ExploreProofs` it is that of the recent lens, and
what the other lens needs of its types is part of the invariant.

* **`GateProofs`** is about a gate: the lock it runs under and the pool it runs,
  which share no state.

  The lock's part needs no assumption on who is killed. `LockInv` is: either a
  holder has been killed, or (`Held`) at most one wrapper is at a holding point, it
  is the owner of an existing directory, the directory exists only while held, a
  live command has a wrapper that awaits it, and nobody is about to rename. The
  last is what makes it work: a waiter renames only after it judged the owner
  dead, and no holder is. `HolderKilled` is stable, so the disjunction is
  inductive.

  The pool's part needs `RunAssumption`: any number of runs and lanes, any set of
  prepared runs, any manifest order. Its `IInv` says that leftovers make the pool
  suspect unless an error was met, that a suspect pool has a waiting lane and no
  ready one (`Suspected`), that a lane which settles is the only one at work and
  found no leftovers (`OneJudge`), that transient files belong to executing runs
  (`OnlyRunning`), that what awaits judgement or sealing has somebody who will do
  it (`Judged`, `BeingSealed`), that until something goes wrong every started run
  is executing, awaiting or sealed (`Accounted`), and which lanes work in which
  phase (`Phased`). `OnlyRunning` is why the last run to leave may take whatever
  `git status` shows for leftovers.
* **`SyncServerProofs`** needs only `SyncAssumption` (finitely many records with
  distinct positions, non-empty projections, positive limits). `IInv` says that
  versions are distinct stamps no larger than the clock (`Stamped`), that an open
  session's window is fixed (`Anchored`), that every record already delivered and
  still in the window lies before the offset (`DeliveredBehind`), that an
  invisible last write leaves the record exact or missed (`HiddenWrite`), and
  that a record in the window which is neither exact nor missed is still to come
  (`Pending`). `DeliveredBehind` is why a record is never delivered twice
  although offsets shift: rows only leave a session's window, never enter it.
* **`GrantServerProofs`** needs `GrantAssumption`. `IInv` adds to the types that
  tokens and families are bound to issued grants, that a redeemed refresh token
  is superseded in its family, and that a grant whose token was reused is
  revoked. `Approvals` needs an invariant of its own: a view only ever gains
  fields, so what a staged approval recorded is still contained in it.
  `Refinement` maps every step to a step or a stutter of `ConsentedAccess`.
* **`LeafCaptureProofs`** needs `CaptureAssumption`: any captures, any group
  numbers and any amount of output. `IInv` has two halves that share only the
  captures which let go of their group. `GroupInv` says that a leaf has a number
  from its start on (`Grouped`), that whoever is registered under a number has it
  and nobody else lives under it (`Registered`), and that a group which lives is
  registered or its kill was refused (`Tracked`). The second holds although
  numbers are reused because a number is only given out when no group has it, and
  `unregister` only deletes its own entry. The third is what a shutdown and a
  settlement rest on. One lemma (`KillHandled`) says what a tracker may do when it
  is asked to kill or to release (`Handled`), and one more (`HandledGroup`) that
  this preserves `GroupInv`; every callback of a capture goes through the two.
  `CaptureInv` says of one capture that a pipe which is destroyed or closed holds
  nothing (`PipeFits`), that whatever was lost is recorded as a failure, that a
  capture settles after its pipes, and resolves with an empty write chain
  (`CaptureFits`).
* **`SigningProofs`** needs `SigningAssumption`: any finite sets of submissions and
  requests, any years, limits and numbers of faults. One invariant per property:
  a request past its write implies that a file of it exists or a withdrawal found
  one (`Durable`); what a withdrawal found, and what its serial was, stays older
  than every file written after the probe (`Withdrawn`); the lines of the log and
  the requests still to write one are bounded by the deletions, a sum over
  requests that uses the library's cardinality facts (`LogIsTrue`). For
  `LimitHolds`, `MailInv` says that whatever was stored or sent was let through by
  some window (`Admitted`), that at most one submission is about to set the
  expiry, and only of a counter that has none (`OneExpires`), and that the
  submissions which the current window let through or still may (`Seats`) are no
  more than the counter or the limit, whichever is smaller (`SeatsBounded`). A
  window that ended lets nobody through any more, so its bound stays.

* **`ScratchOwnershipProofs`** needs `ScratchAssumption`: any roots, passes, PID
  namespaces, faults and reboots. `Inv` says whose a directory is and who works on
  it: an owner has its directory from mkdtemp on, only a dead owner's marker is of
  an earlier boot (`Directories`), an owner cleans up its own directory and a pass
  only one whose owner is dead, and a cleanup about to rename a directory that is
  still in place finds its journal complete (`Jobs`). The last survives every race
  because a journal is created exclusively and unlinked only when the directory is
  nowhere; `Capability` and `OnlyOwnerMoves` follow. `NobodyInside` proves
  `LiveRemovalOnlyMisread` and assumes nothing beyond that: kills and signals come
  in any combination. Its invariant `LiveInv` adds what the files say of the
  processes (`LaunchRecord`: nothing runs before the marker says "launching", a
  sidecar that has not published its group is covered by the intent, a published
  one by the group file), how the two shutdowns of an owner exclude each other
  (`StopRecord`), and that a directory with a journal, out of its path or past its
  verification is `Settled`: no command runs in it and nothing could start one
  (`Dead`), or its shutdown has misread. `misread` also excuses the one thing a
  misreading breaks, the intent that covers a sidecar which may still start;
  `ScratchOwnership_killed_sandbox.cfg` shows it. `Settled` is stable
  (`SettledForEver`), so only `Verify` has to establish it (`VerifiedIsSettled`).
* **`ExploreProofs`** is about the composed `DispatchSpec` and needs
  `TimelineAssumption` and `FanInAssumption`: any horizon, streams, page sizes,
  caps and number of navigations. Of the recent lens, `IInv` says that each cursor
  of a trail names the last row of its page, all of one snapshot that the store
  knows (`Trail`, `UrlFits`); that a page already fetched is the one its cursor
  stands for (`RenderFits`); and that what the reader sees is what the trails of
  the URL have shown, with the handle they left (`TimelineFits`, `Shows`).
  Arrivals disturb none of it, because a record that arrives gets a number larger
  than that of any snapshot (`SnapshotsLast`). From `Shows` follow the prefixes
  (`ShownIsPrefix`) and, a lengthened trail having shown the same pages and one
  more, the action property (`MoreOnlyAdds`). What would be inductions along a
  trail are arguments from a least counterexample, which the library's theorem on
  well-founded sets gives. Of the time-range lens: streams only grow at their
  ends, so the records that stood in the window when the page was asked for stand
  where they did (`HadStands`), and an answer holds every one of them or admits to
  more (`Covered`); the page is cut from the answers, and every cut leaves a link
  or a notice. A step of one lens changes nothing of the other.

* **`HealthReceiptProofs`** needs `ReceiptAssumption`: any number of connections,
  page sizes, budgets, changes and faults. A page holds the first rows after its
  cursor (`PageFacts`), and no continuation, even one that goes back, lies beyond
  the last of them; there is none only when the page holds all that is left
  (`ContinuationFacts`); a wrong envelope does not pass (`BadNever`). So `WalkInv`
  says that a connection which lasted has been listed once the cursor is past it,
  and at the end of the walk (`Listed`), in the state it has had all the while
  (`AsRead`). The verdict cannot overlook its trouble (`TroubleFound`), an
  agreement vouches for it (`AgreementHolds`), and a settlement that came to its
  end has read it. `Counted`, one page per continuation and the first, bounds the
  walk although the instance decides how it goes on (`Bounded`), from finitely
  many cursors.

Only model-checked: all liveness (`EveryWrapperEnds`, `SessionEnds`, `PoolEnds`,
`EverySettles`, `StaleRootsRecovered`, `StaleEntriesRemoved`, `AuditEnds`), which
is out of the proof system's reach. Every safety property the runs check is a
theorem. The type invariant of `RecoveryScan`, whose run checks liveness only,
holds in the instance of that run (it is stated as `TypeOK`; add it to the
configuration as an invariant to repeat that).

## 6. Not modelled, and why

The models stand for the state machines of the repository. Most of its lines
have none: schemas and contracts (`packages/reference-contract`), pages, styles
and fixtures of the site and the operator UI, tables of requirements and
stateless conformance cases, formatting, command-line tools over file lists, and
the hermetic patches of node. They compute one value from another or render, and
a model of them would repeat them. The share of the implementation the models
cover is small for that reason, not because the operations of the modelled parts
were left aside; what was, is listed with each module above.

* The AS adapter's state is that of a server outside the repository.
* `submitDeclaration` and `submitSelection` are ordered checks of one document;
  their result is what `GrantServer` takes as a request.
* The inventory, packet and receipt files of the accounting authority are digests
  and parsers; the order in which they are written is in `RunAuthority`.
* Of the audit, the classification of one connection's streams is a table of
  cases over a page's contents, reduced to one class; the comparison of two
  receipts around a restart is a pure function of them.
* The reference operations sandbox pages over a store that does not change while
  it is paged.

## 7. Plan

1. The search lens as a third lens of `Explore` (E:1874). What to ask of it: in
   most-recent order each request decides anew, on one bounded page in relevance
   order, whether all matches lie in one stream (E:1973), and then pages that
   stream or all of them with the cursor of the request before; and a hybrid
   search that fails on one page and answers on the next (E:1932) replaces a
   lexical page that had a cursor by one that has none.
2. `prepareSuite` and `executeRun`, composing `LeafCapture` with `RunAuthority`:
   the scheduler's assumption that each run ends becomes a property of the
   captures, except where `transcript.close()` waits for a wedged write.
