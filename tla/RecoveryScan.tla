---------------------------- MODULE RecoveryScan ----------------------------
(* The bounded scan of recoverStaleScratch (scripts/test-scratch/ownership.ts):*)
(* which entries of the scratch parent a recovery pass inspects, in which     *)
(* order, within which budgets, and where the next pass resumes.  What a pass *)
(* does to one entry is ScratchOwnership; here an entry is removed, fails to  *)
(* be removed, or is retained.  Passes of several processes run at once and   *)
(* share only the directory and the cursor file, which they overwrite.        *)
EXTENDS Naturals, FiniteSets, FiniteSetsExt

CONSTANTS Names,          \* entry names, ordered as the code sorts them: 1..n
          Cost,           \* state transitions (journal, rename) an entry's removal needs
          Passes,         \* processes that run recoverStaleScratch, again and again
          maxInspectedEntries, maxRemovalAttempts, maxStateTransitions,
          MaxArrivals,    \* bound: roots allocated while the passes go on
          MaxFaults       \* bound: killed passes, failed cursor writes, failed removals

ASSUME ScanAssumption == /\ Names \subseteq Nat \ {0}
                         /\ Cost \in [Names -> Nat]
                         /\ {maxInspectedEntries, maxRemovalAttempts} \subseteq Nat \ {0}
                         /\ maxStateTransitions \in Nat
                         /\ \A n \in Names : Cost[n] <= maxStateTransitions
                         /\ MaxArrivals \in Nat /\ MaxFaults \in Nat

VARIABLES
    entry,    \* "absent", "kept" (no proof that it may go) or "stale" (verified dead)
    cursor,   \* the durable cursor: the last name a pass inspected, 0 when there is none
    scan,     \* per pass: is it running, what it read, what it has left, what it spent
    arrivals, faults

vars == <<entry, cursor, scan, arrivals, faults>>

NotScanning == [on |-> FALSE, after |-> 0, todo |-> {}, inspected |-> 0, removals |-> 0,
                transitions |-> 0, exhausted |-> FALSE, last |-> 0]

TypeOK ==
    /\ entry \in [Names -> {"absent", "kept", "stale"}]
    /\ cursor \in Names \cup {0}
    /\ scan \in [Passes -> [on : BOOLEAN, after : Names \cup {0}, todo : SUBSET Names,
                            inspected : 0..maxInspectedEntries,
                            removals : 0..maxRemovalAttempts,
                            transitions : 0..maxStateTransitions,
                            exhausted : BOOLEAN, last : Names \cup {0}]]
    /\ arrivals \in 0..MaxArrivals /\ faults \in 0..MaxFaults

Init == /\ entry \in [Names -> {"absent", "kept", "stale"}]
        /\ cursor = 0
        /\ scan = [p \in Passes |-> NotScanning]
        /\ arrivals = 0 /\ faults = 0

Fault == faults < MaxFaults /\ faults' = faults + 1

(* Mutant: every pass starts at the lexical head.                             *)
nextCandidate_head(after, todo) == Min(todo)

(* The names strictly after the cursor come first, then the names from the    *)
(* lexical head: rotateRecoveryEntries, read one name at a time.              *)
nextCandidate(after, todo) ==
    LET later == {n \in todo : n > after}
    IN  Min(IF later # {} THEN later ELSE todo)

(* readRecoveryCursor, then recoveryEntryNames: a snapshot of the directory.  *)
StartPass(p) ==
    /\ ~scan[p].on
    /\ scan' = [scan EXCEPT ![p] = [NotScanning EXCEPT
                  !.on = TRUE, !.after = cursor, !.todo = {n \in Names : entry[n] # "absent"}]]
    /\ UNCHANGED <<entry, cursor, arrivals, faults>>

MayInspect(s) == s.on /\ s.todo # {} /\ ~s.exhausted /\ s.inspected < maxInspectedEntries

(* The pass s after it looked at n, having spent t transitions and d removal  *)
(* attempts on it.                                                            *)
Looked(s, n, t, d, out) ==
    [s EXCEPT !.todo = @ \ {n}, !.inspected = @ + 1, !.last = n,
              !.transitions = @ + t, !.removals = @ + d, !.exhausted = out]

(* One turn of the loop.  A stale entry needs Cost[n] transitions and then    *)
(* one removal attempt; the budget that runs out defers the entry and ends    *)
(* the loop, and the transitions already made stay spent.                     *)
InspectEntry(p) ==
    LET s == scan[p]
        n == nextCandidate(s.after, s.todo)
        left == maxStateTransitions - s.transitions
    IN
    /\ MayInspect(s)
    /\ \/ /\ entry[n] # "stale"
          /\ scan' = [scan EXCEPT ![p] = Looked(s, n, 0, 0, FALSE)]
          /\ UNCHANGED <<entry, faults>>
       \/ /\ entry[n] = "stale" /\ left < Cost[n]
          /\ scan' = [scan EXCEPT ![p] = Looked(s, n, left, 0, TRUE)]
          /\ UNCHANGED <<entry, faults>>
       \/ /\ entry[n] = "stale" /\ left >= Cost[n] /\ s.removals = maxRemovalAttempts
          /\ scan' = [scan EXCEPT ![p] = Looked(s, n, Cost[n], 0, TRUE)]
          /\ UNCHANGED <<entry, faults>>
       \/ /\ entry[n] = "stale" /\ left >= Cost[n] /\ s.removals < maxRemovalAttempts
          /\ scan' = [scan EXCEPT ![p] = Looked(s, n, Cost[n], 1, FALSE)]
          /\ \/ entry' = [entry EXCEPT ![n] = "absent"] /\ UNCHANGED faults
             \/ Fault /\ UNCHANGED entry
    /\ UNCHANGED <<cursor, arrivals>>

(* The loop is over: advanceRecoveryCursor after the last name inspected.     *)
(* The invocation then allocates at most one root of its own, under a name    *)
(* nobody chooses.                                                            *)
FinishPass(p) ==
    /\ scan[p].on /\ ~MayInspect(scan[p])
    /\ cursor' = IF scan[p].last # 0 THEN scan[p].last ELSE cursor
    /\ scan' = [scan EXCEPT ![p] = NotScanning]
    /\ \/ UNCHANGED <<entry, arrivals>>
       \/ /\ arrivals < MaxArrivals /\ arrivals' = arrivals + 1
          /\ \E n \in Names : entry[n] = "absent" /\ entry' = [entry EXCEPT ![n] = "kept"]
    /\ UNCHANGED faults

(* The pass is killed, or its cursor write fails: the cursor stays.           *)
LosePass(p) ==
    /\ scan[p].on
    /\ Fault
    /\ scan' = [scan EXCEPT ![p] = NotScanning]
    /\ UNCHANGED <<entry, cursor, arrivals>>

(* An owner dies, or cleans up after itself.                                  *)
EntryDies(n) == /\ entry[n] = "kept"
                /\ entry' = [entry EXCEPT ![n] = "stale"]
                /\ UNCHANGED <<cursor, scan, arrivals, faults>>

EntryRemoved(n) == /\ entry[n] = "kept"
                   /\ entry' = [entry EXCEPT ![n] = "absent"]
                   /\ UNCHANGED <<cursor, scan, arrivals, faults>>

PassStep(p) == StartPass(p) \/ InspectEntry(p) \/ FinishPass(p)

Next == \/ \E p \in Passes : PassStep(p) \/ LosePass(p)
        \/ \E n \in Names : EntryDies(n) \/ EntryRemoved(n)

(* Every canonical test command starts with a pass, and passes end.           *)
Spec == Init /\ [][Next]_vars /\ \A p \in Passes : WF_vars(PassStep(p))

-----------------------------------------------------------------------------
(* No stale entry is starved: it is inspected and removed in the end, although*)
(* a pass looks at a bounded number of names, the budgets are spent on others *)
(* first, a deferred entry is skipped by the next pass, concurrent passes set *)
(* the cursor back and some never record theirs; provided that new entries    *)
(* stop arriving (MaxArrivals).                                               *)
StaleEntriesRemoved == \A n \in Names : entry[n] = "stale" ~> entry[n] = "absent"

=============================================================================
