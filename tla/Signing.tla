------------------------------ MODULE Signing ------------------------------
(* Signing the Principles on the site: apps/site/src/lib/signing and          *)
(* apps/site/src/app/api/sign.  A submission is parked in a key-value store   *)
(* with a time to live, one email carries a confirmation and a withdrawal     *)
(* link, confirming writes one file to a private repository (the register),   *)
(* withdrawing deletes it and appends a line to a log.                        *)
(*                                                                            *)
(* Every remote call is a step of its own, of a request handler that keeps    *)
(* nothing but local variables; a call may fail before or after it took       *)
(* effect.  A file is its serial number, which stands for GitHub's blob sha;  *)
(* what a record says is fixed by its id, so only its year is kept.           *)
EXTENDS Naturals, FiniteSets

CONSTANTS Ids,              \* submissions, one per use of the form
          Requests,         \* uses of a confirmation or withdrawal link
          LastYear,         \* bound: the years are 0 .. LastYear
          CandidateYears,   \* how many years a withdrawal probes (6)
          RATE_LIMIT_MAX,   \* submissions of one address per window
          MaxWindows,       \* bound: rate limit windows
          MaxFaults         \* bound: failed remote calls

ASSUME SigningAssumption == /\ IsFiniteSet(Ids) /\ IsFiniteSet(Requests)
                            /\ LastYear \in Nat
                            /\ CandidateYears \in Nat \ {0}
                            /\ RATE_LIMIT_MAX \in Nat \ {0}
                            /\ MaxWindows \in Nat \ {0}
                            /\ MaxFaults \in Nat

Years == 0..LastYear
None == LastYear + 1        \* no such year

VARIABLES
    form,       \* where POST /api/sign stands for each submission
    pending,    \* "none", "stored", "burnt" by a confirmation, "expired" after 48 hours
    register,   \* register[i][y]: the serial of signatories/<y>/<i>.json, 0 if absent
    serial,     \* files written so far
    log,        \* lines of withdrawn.log
    deleted,    \* files deleted so far (history)
    year,       \* the clock, as far as paths depend on it
    rate, rateTtl, windows,   \* the counter of one address, its expiry, windows begun
    admitted,   \* the window in which the limiter let a submission through, 0: in none
    req,        \* the requests: what they are, where they stand, what they read
    faults

storeVars == <<pending, register, serial, log, deleted>>
rateVars == <<rate, rateTtl, windows, admitted>>
vars == <<form, storeVars, year, rateVars, req, faults>>

Steps == {"idle", "read", "write", "check", "burn",
          "branch", "probe", "delete", "readlog", "append",
          "invalid", "unavailable", "confirmed", "done"}

(* kind, id and at: what and where; year: of the record, or of the probe;     *)
(* found and sha: what the probe chose, and its answer; unread: probes that   *)
(* failed; mark: the newest file at the probe; seen: the length of the log.   *)
Request == [kind : {"none", "confirm", "withdraw"}, id : Ids, at : Steps,
            year : Years, found : Years \cup {None}, sha : Nat, unread : SUBSET Years,
            mark : Nat, seen : Nat, logged : BOOLEAN]

TypeOK ==
    /\ form \in [Ids -> {"new", "expire", "put", "mail", "sent", "unheard", "limited", "failed"}]
    /\ pending \in [Ids -> {"none", "stored", "burnt", "expired"}]
    /\ register \in [Ids -> [Years -> Nat]]
    /\ serial \in Nat /\ log \in Nat /\ deleted \in Nat
    /\ year \in Years
    /\ rate \in Nat /\ rateTtl \in BOOLEAN /\ windows \in 0..MaxWindows
    /\ admitted \in [Ids -> 0..MaxWindows]
    /\ req \in [Requests -> Request]
    /\ faults \in 0..MaxFaults

Init ==
    /\ form = [i \in Ids |-> "new"]
    /\ pending = [i \in Ids |-> "none"]
    /\ register = [i \in Ids |-> [y \in Years |-> 0]]
    /\ serial = 0 /\ log = 0 /\ deleted = 0
    /\ year = 0
    /\ rate = 0 /\ rateTtl = FALSE /\ windows = 0
    /\ admitted = [i \in Ids |-> 0]
    /\ \E i \in Ids : req = [q \in Requests |->
            [kind |-> "none", id |-> i, at |-> "idle", year |-> 0, found |-> None, sha |-> 0,
             unread |-> {}, mark |-> 0, seen |-> 0, logged |-> FALSE]]
    /\ faults = 0

(* A remote call fails: the answer is an error, or it never arrives. *)
Fault == faults < MaxFaults /\ faults' = faults + 1

-----------------------------------------------------------------------------
(* POST /api/sign: count, limit, store, send.                                 *)

FormTo(i, state) == form' = [form EXCEPT ![i] = state]
SameRegister == UNCHANGED <<register, serial, log, deleted, year, req>>

(* The limiter answers, or throws.                                            *)
Pass(i) == FormTo(i, "put") /\ admitted' = [admitted EXCEPT ![i] = windows]
Stop(i, state) == FormTo(i, state) /\ UNCHANGED admitted

NewWindow == windows < MaxWindows /\ windows' = windows + 1

(* Mutant: the submission after the last allowed one still passes.            *)
Count_oneMore(i) ==
    /\ form[i] = "new"
    /\ rate' = rate + 1
    /\ \/ rate = 0 /\ NewWindow /\ Stop(i, "expire")
       \/ rate \in 1..RATE_LIMIT_MAX /\ Pass(i) /\ UNCHANGED windows
       \/ rate > RATE_LIMIT_MAX /\ Stop(i, "limited") /\ UNCHANGED windows
    /\ UNCHANGED <<pending, rateTtl, faults>> /\ SameRegister

(* withinRateLimit: INCR; the first of a window sets its expiry.              *)
Count(i) ==
    /\ form[i] = "new"
    /\ rate' = rate + 1
    /\ \/ rate = 0 /\ NewWindow /\ Stop(i, "expire")
       \/ rate \in 1..(RATE_LIMIT_MAX - 1) /\ Pass(i) /\ UNCHANGED windows
       \/ rate >= RATE_LIMIT_MAX /\ Stop(i, "limited") /\ UNCHANGED windows
    /\ UNCHANGED <<pending, rateTtl, faults>> /\ SameRegister

(* The answer to INCR is lost: nothing is sent, the submission may count.     *)
CountThrows(i) ==
    /\ form[i] = "new"
    /\ Fault /\ Stop(i, "failed")
    /\ \/ UNCHANGED <<rate, windows>>
       \/ rate' = rate + 1 /\ IF rate = 0 THEN NewWindow ELSE UNCHANGED windows
    /\ UNCHANGED <<pending, rateTtl>> /\ SameRegister

(* EXPIRE is a call of its own: when it fails, the counter has no expiry.     *)
SetExpiry(i) ==
    /\ form[i] = "expire"
    /\ \/ rateTtl' = (rate > 0) /\ Pass(i) /\ UNCHANGED faults
       \/ Fault /\ Stop(i, "failed") /\ rateTtl' \in {rateTtl, rate > 0}
    /\ UNCHANGED <<pending, rate, windows>> /\ SameRegister

(* submissionSchema or organisationDomainMatches refuses what was counted.    *)
Reject(i) ==
    /\ form[i] = "put"
    /\ FormTo(i, "failed")
    /\ UNCHANGED <<pending, rateVars, faults>> /\ SameRegister

putPending(i) ==
    /\ form[i] = "put"
    /\ \/ /\ pending' = [pending EXCEPT ![i] = "stored"]
          /\ FormTo(i, "mail") /\ UNCHANGED faults
       \/ /\ Fault /\ FormTo(i, "failed")
          /\ pending' \in {pending, [pending EXCEPT ![i] = "stored"]}
    /\ UNCHANGED rateVars /\ SameRegister

(* The links reach the signatory only if the mail provider took the message,  *)
(* which it may have done although its answer is lost ("unheard").            *)
sendConfirmationEmail(i) ==
    /\ form[i] = "mail"
    /\ \/ FormTo(i, "sent") /\ UNCHANGED faults
       \/ Fault /\ (FormTo(i, "failed") \/ FormTo(i, "unheard"))
    /\ UNCHANGED <<pending, rateVars>> /\ SameRegister

(* The window of a counter that has an expiry ends.                           *)
WindowEnds ==
    /\ rateTtl
    /\ rate' = 0 /\ rateTtl' = FALSE
    /\ UNCHANGED <<form, pending, windows, admitted, faults>> /\ SameRegister

(* 48 hours pass: the pending record and the confirmation link expire.        *)
PendingExpires(i) ==
    /\ pending[i] = "stored"
    /\ pending' = [pending EXCEPT ![i] = "expired"]
    /\ UNCHANGED <<form, rateVars, faults>> /\ SameRegister

NewYear == /\ year < LastYear
           /\ year' = year + 1
           /\ UNCHANGED <<form, storeVars, rateVars, req, faults>>

-----------------------------------------------------------------------------
(* The requests.                                                              *)

Become(q, r) == req' = [req EXCEPT ![q] = r]

Goto(q, step) == Become(q, [req[q] EXCEPT !.at = step])

(* A handler that answers an error or "confirmed" forgets what it read.       *)
Reply(q, answer) == Become(q, [req[q] EXCEPT !.at = answer, !.year = 0, !.sha = 0,
                                             !.unread = {}, !.mark = 0, !.seen = 0])
At(q, kind, step) == req[q].kind = kind /\ req[q].at = step
SameForm == UNCHANGED <<form, year, rateVars>>

(* Anyone who holds the mail may use a link at any time, and again.  A        *)
(* confirmation link whose 48 hours are over is refused before any call.      *)
Open(q, i, kind) ==
    /\ req[q].kind = "none" /\ form[i] \in {"sent", "unheard"}
    /\ kind = "confirm" => pending[i] # "expired"
    /\ Become(q, [req[q] EXCEPT !.kind = kind, !.id = i,
                                !.at = IF kind = "confirm" THEN "read" ELSE "branch"])
    /\ UNCHANGED <<storeVars, faults>> /\ SameForm

(* Mutant: reading the pending record consumes it (GETDEL).                   *)
readPending_consumes(q) ==
    /\ At(q, "confirm", "read")
    /\ \/ /\ pending[req[q].id] = "stored"
          /\ Become(q, [req[q] EXCEPT !.at = "write", !.year = year])
          /\ pending' = [pending EXCEPT ![req[q].id] = "burnt"]
       \/ /\ pending[req[q].id] # "stored"
          /\ Reply(q, "invalid") /\ UNCHANGED pending
    /\ UNCHANGED <<register, serial, log, deleted, faults>> /\ SameForm

(* POST /api/sign/confirm: readPending, then the record of this moment.       *)
readPending(q) ==
    /\ At(q, "confirm", "read")
    /\ \/ /\ pending[req[q].id] = "stored"
          /\ Become(q, [req[q] EXCEPT !.at = "write", !.year = year])
          /\ UNCHANGED faults
       \/ /\ pending[req[q].id] # "stored"
          /\ Reply(q, "invalid") /\ UNCHANGED faults
       \/ Fault /\ Reply(q, "unavailable")
    /\ UNCHANGED storeVars /\ SameForm

CreateFile(i, y) ==
    /\ register[i][y] = 0
    /\ register' = [register EXCEPT ![i][y] = serial + 1]
    /\ serial' = serial + 1

(* PUT without a sha creates or conflicts; any error leads to the check.      *)
writeSignatory(q) ==
    LET i == req[q].id
        y == req[q].year
    IN
    /\ At(q, "confirm", "write")
    /\ \/ CreateFile(i, y) /\ Goto(q, "burn") /\ UNCHANGED faults
       \/ CreateFile(i, y) /\ Goto(q, "check") /\ Fault
       \/ /\ UNCHANGED <<register, serial>> /\ Goto(q, "check")
          /\ IF register[i][y] # 0 THEN UNCHANGED faults ELSE Fault
    /\ UNCHANGED <<pending, log, deleted>> /\ SameForm

(* readSignatory and hasSameImmutableFields: the file at this path was        *)
(* written from the same submission.                                          *)
readSignatory(q) ==
    /\ At(q, "confirm", "check")
    /\ \/ register[req[q].id][req[q].year] # 0 /\ Goto(q, "burn") /\ UNCHANGED faults
       \/ register[req[q].id][req[q].year] = 0 /\ Reply(q, "unavailable") /\ UNCHANGED faults
       \/ Fault /\ Reply(q, "unavailable")
    /\ UNCHANGED storeVars /\ SameForm

Burn(i) == pending' = [pending EXCEPT ![i] = IF @ = "stored" THEN "burnt" ELSE @]

deletePending(q) ==
    /\ At(q, "confirm", "burn")
    /\ \/ Burn(req[q].id) /\ Reply(q, "confirmed") /\ UNCHANGED faults
       \/ /\ Fault /\ Reply(q, "unavailable")
          /\ Burn(req[q].id) \/ UNCHANGED pending
    /\ UNCHANGED <<register, serial, log, deleted>> /\ SameForm

(* GET /api/sign/withdraw: ensureRepoBranch.                                  *)
ensureRepoBranch(q) ==
    /\ At(q, "withdraw", "branch")
    /\ \/ Goto(q, "probe") /\ UNCHANGED faults
       \/ Fault /\ Reply(q, "unavailable")
    /\ UNCHANGED storeVars /\ SameForm

(* The years a withdrawal looks at: this one and the five before it.          *)
Candidates(y) == {c \in Years : c <= y /\ c + CandidateYears > y}

(* The candidate years are probed; an answer that is not ok counts as no      *)
(* file.  The latest year with a file is the target; none means done.         *)
Hits(q, unread) == {y \in Candidates(year) \ unread : register[req[q].id][y] # 0}

Unfound(q, unread) == [req[q] EXCEPT !.at = "done", !.year = year,
                                     !.unread = unread, !.mark = serial]

Found(q, unread, y) == [req[q] EXCEPT !.at = "delete", !.year = year,
                                      !.unread = unread, !.mark = serial,
                                      !.found = y, !.sha = register[req[q].id][y]]

ProbeCandidates(q) ==
    /\ At(q, "withdraw", "probe")
    /\ \E unread \in SUBSET Candidates(year) :
         /\ IF unread = {} THEN UNCHANGED faults ELSE Fault
         /\ \/ Hits(q, unread) = {} /\ Become(q, Unfound(q, unread))
            \/ \E y \in Hits(q, unread) :
                 /\ \A z \in Hits(q, unread) : z <= y
                 /\ Become(q, Found(q, unread, y))
    /\ UNCHANGED storeVars /\ SameForm

(* Mutant: an error of the DELETE call is ignored.                            *)
DeleteFile_ignoresError(q) ==
    /\ At(q, "withdraw", "delete")
    /\ Goto(q, "done") /\ Fault
    /\ UNCHANGED storeVars /\ SameForm

(* DELETE with the sha read: any other file at that path is a conflict.       *)
DeleteFile(q) ==
    LET i == req[q].id
        y == req[q].found
        gone == register[i][y] = req[q].sha
    IN
    /\ At(q, "withdraw", "delete")
    /\ \/ /\ gone
          /\ register' = [register EXCEPT ![i][y] = 0] /\ deleted' = deleted + 1
          /\ \/ Goto(q, "readlog") /\ UNCHANGED faults
             \/ Reply(q, "unavailable") /\ Fault
       \/ /\ UNCHANGED <<register, deleted>> /\ Reply(q, "unavailable")
          /\ IF gone THEN Fault ELSE UNCHANGED faults
    /\ UNCHANGED <<pending, serial, log>> /\ SameForm

(* appendWithdrawal: the log is read; a failed read counts as no log.         *)
ReadLog(q) ==
    /\ At(q, "withdraw", "readlog")
    /\ \/ Become(q, [req[q] EXCEPT !.at = "append", !.seen = log]) /\ UNCHANGED faults
       \/ Fault /\ Become(q, [req[q] EXCEPT !.at = "append", !.seen = 0])
    /\ UNCHANGED storeVars /\ SameForm

(* Mutant: the log is overwritten with what was read and one line more.       *)
AppendLog_blind(q) ==
    /\ At(q, "withdraw", "append")
    /\ log' = req[q].seen + 1
    /\ Become(q, [req[q] EXCEPT !.at = "done", !.logged = TRUE])
    /\ UNCHANGED <<pending, register, serial, deleted, faults>> /\ SameForm

(* PUT with the sha read, or without one: accepted only if the log is still   *)
(* the one that was read, or still absent.                                    *)
AppendLog(q) ==
    /\ At(q, "withdraw", "append")
    /\ \/ /\ log = req[q].seen
          /\ log' = req[q].seen + 1
          /\ \E answer \in {"done", "unavailable"} :
               /\ Become(q, [req[q] EXCEPT !.at = answer, !.logged = TRUE,
                                           !.sha = 0, !.seen = 0])
               /\ IF answer = "done" THEN UNCHANGED faults ELSE Fault
       \/ /\ UNCHANGED log /\ Reply(q, "unavailable")
          /\ IF log = req[q].seen THEN Fault ELSE UNCHANGED faults
    /\ UNCHANGED <<pending, register, serial, deleted>> /\ SameForm

(* No answer arrives to a probe or to the read of the log, although the file  *)
(* may be deleted by then.                                                    *)
ReadThrows(q) ==
    /\ req[q].kind = "withdraw" /\ req[q].at \in {"probe", "readlog"}
    /\ Fault /\ Reply(q, "unavailable")
    /\ UNCHANGED storeVars /\ SameForm

ConfirmStep(q) == readPending(q) \/ writeSignatory(q) \/ readSignatory(q) \/ deletePending(q)

WithdrawStep(q) == \/ ensureRepoBranch(q) \/ ProbeCandidates(q) \/ DeleteFile(q)
                   \/ ReadLog(q) \/ AppendLog(q) \/ ReadThrows(q)

FormStep(i) == \/ Count(i) \/ CountThrows(i) \/ SetExpiry(i) \/ Reject(i)
               \/ putPending(i) \/ sendConfirmationEmail(i)

Next ==
    \/ \E i \in Ids : FormStep(i) \/ PendingExpires(i)
    \/ WindowEnds \/ NewYear
    \/ \E q \in Requests : \/ ConfirmStep(q) \/ WithdrawStep(q)
                           \/ \E i \in Ids, kind \in {"confirm", "withdraw"} : Open(q, i, kind)

Spec == Init /\ [][Next]_vars

-----------------------------------------------------------------------------
(* providers.ts: no signature is accepted and then dropped.  A pending        *)
(* submission is consumed, and a signatory is told "confirmed", only after a  *)
(* file of that signatory was durable, whatever calls failed, whoever lost a  *)
(* race, and whether or not a withdrawal has deleted the file since.          *)
Ever(i) == \/ \E y \in Years : register[i][y] # 0
           \/ \E q \in Requests : req[q].kind = "withdraw" /\ req[q].id = i /\ req[q].found # None

NothingDropped ==
    /\ \A i \in Ids : pending[i] = "burnt" => Ever(i)
    /\ \A q \in Requests : At(q, "confirm", "confirmed") => Ever(req[q].id)

(* withdraw/route.ts reports done whether or not a file was found.  After     *)
(* that answer a file of the signatory is left only for one of these reasons: *)
(* it was written after the probe, its year is outside the years probed, its  *)
(* probe failed, or a later year's file was the one deleted.                  *)
DoneMeansGone ==
    \A q \in Requests : At(q, "withdraw", "done") =>
        \A y \in Years : register[req[q].id][y] # 0 =>
            \/ register[req[q].id][y] > req[q].mark
            \/ y \notin Candidates(req[q].year)
            \/ y \in req[q].unread
            \/ req[q].found # None /\ y < req[q].found

(* appendWithdrawal: concurrent withdrawals and failed reads of the log lose  *)
(* no line that was accepted, and a line stands for one deleted file.         *)
LogCounts ==
    /\ log = Cardinality({q \in Requests : req[q].logged})
    /\ log <= deleted

(* withinRateLimit, "one INCR and cannot drift": in each window of an         *)
(* address, the earlier ones included, at most RATE_LIMIT_MAX submissions are *)
(* let through, those counted that stored or sent and failed after it, and    *)
(* only what was let through is stored or sent, whatever calls fail.          *)
Through(i) == pending[i] # "none" \/ form[i] \in {"put", "mail", "sent", "unheard"}

MailBounded ==
    /\ \A i \in Ids : Through(i) => admitted[i] \in 1..windows
    /\ \A w \in 1..windows : Cardinality({i \in Ids : admitted[i] = w}) <= RATE_LIMIT_MAX

=============================================================================
