--------------------------- MODULE SigningProofs ---------------------------
(* Proofs about Signing, for any number of submissions, requests, years,      *)
(* failed calls and rate limits.                                              *)
EXTENDS Signing, FiniteSetTheorems, TLAPS

-----------------------------------------------------------------------------
(* What a step does to the request it belongs to.                             *)

Others(q) == \A k \in Requests : k # q => req'[k] = req[k]

SameWhat(q) == /\ req'[q].kind = req[q].kind
               /\ req'[q].id = req[q].id
               /\ req'[q].found = req[q].found
               /\ req'[q].logged = req[q].logged

(* Only one request becomes something else.                                   *)
LEMMA OneMoves ==
  ASSUME TypeOK, NEW q \in Requests, NEW r \in Request, Become(q, r)
  PROVE  req' \in [Requests -> Request] /\ Others(q) /\ req'[q] = r
  BY DEF TypeOK, Become, Others

LEMMA YearZero == 0 \in Years
  BY SigningAssumption DEF Years

(* A call that may fail uses up a fault of the budget or none.                *)
LEMMA FaultType == TypeOK /\ (faults' = faults \/ Fault) => faults' \in 0..MaxFaults
  BY SigningAssumption DEF TypeOK, Fault

(* A step that touches neither the store nor the form keeps their types.      *)
LEMMA RequestType ==
  ASSUME TypeOK, UNCHANGED storeVars, SameForm, faults' \in 0..MaxFaults,
         req' \in [Requests -> Request]
  PROVE  TypeOK'
  BY DEF TypeOK, SameForm, storeVars, rateVars

(* A jump keeps everything the handler has read.                              *)
LEMMA GotoRecord ==
  ASSUME NEW r \in Request, NEW step \in Steps
  PROVE  LET n == [r EXCEPT !.at = step]
         IN  /\ n \in Request
             /\ n.at = step
             /\ n.kind = r.kind /\ n.id = r.id /\ n.found = r.found /\ n.logged = r.logged
             /\ n.year = r.year /\ n.sha = r.sha /\ n.unread = r.unread /\ n.mark = r.mark
             /\ n.seen = r.seen
  BY DEF Request

LEMMA GotoStep ==
  ASSUME TypeOK, NEW q \in Requests, NEW step \in Steps, Goto(q, step)
  PROVE  /\ req' \in [Requests -> Request]
         /\ Others(q) /\ SameWhat(q)
         /\ req'[q].at = step
         /\ req'[q].year = req[q].year
         /\ req'[q].sha = req[q].sha
         /\ req'[q].unread = req[q].unread
         /\ req'[q].mark = req[q].mark
         /\ req'[q].seen = req[q].seen
<1> DEFINE n == [req[q] EXCEPT !.at = step]
<1>1. req[q] \in Request
  BY DEF TypeOK
<1>2. /\ n \in Request
      /\ n.at = step
      /\ n.kind = req[q].kind /\ n.id = req[q].id /\ n.found = req[q].found
      /\ n.logged = req[q].logged
      /\ n.year = req[q].year /\ n.sha = req[q].sha /\ n.unread = req[q].unread
      /\ n.mark = req[q].mark /\ n.seen = req[q].seen
  BY <1>1, GotoRecord
<1>3. Become(q, n)
  BY DEF Goto
<1> HIDE DEF n
<1> QED BY <1>2, <1>3, OneMoves DEF SameWhat

(* An answer keeps what the request is, what its probe chose, what it logged. *)
LEMMA ReplyRecord ==
  ASSUME NEW r \in Request, NEW step \in Steps
  PROVE  LET n == [r EXCEPT !.at = step, !.year = 0, !.sha = 0,
                            !.unread = {}, !.mark = 0, !.seen = 0]
         IN  /\ n \in Request
             /\ n.at = step
             /\ n.kind = r.kind /\ n.id = r.id /\ n.found = r.found /\ n.logged = r.logged
  BY YearZero DEF Request

LEMMA ReplyStep ==
  ASSUME TypeOK, NEW q \in Requests, NEW step \in Steps, Reply(q, step)
  PROVE  /\ req' \in [Requests -> Request]
         /\ Others(q) /\ SameWhat(q)
         /\ req'[q].at = step
<1> DEFINE n == [req[q] EXCEPT !.at = step, !.year = 0, !.sha = 0,
                               !.unread = {}, !.mark = 0, !.seen = 0]
<1>1. req[q] \in Request
  BY DEF TypeOK
<1>2. /\ n \in Request
      /\ n.at = step
      /\ n.kind = req[q].kind /\ n.id = req[q].id /\ n.found = req[q].found
      /\ n.logged = req[q].logged
  BY <1>1, ReplyRecord
<1>3. Become(q, n)
  BY DEF Reply
<1> HIDE DEF n
<1> QED BY <1>2, <1>3, OneMoves DEF SameWhat

-----------------------------------------------------------------------------
(* What each action of a request changes.                                     *)

(* q is of this kind, stays what it is, and ends up at one of these steps.    *)
Moved(q, kind, steps) ==
  /\ req' \in [Requests -> Request]
  /\ Others(q) /\ SameWhat(q)
  /\ req[q].kind = kind /\ req'[q].at \in steps

LEMMA OpenEffect ==
  ASSUME TypeOK, NEW q \in Requests, NEW i \in Ids, NEW kind \in {"confirm", "withdraw"},
         Open(q, i, kind)
  PROVE  /\ TypeOK' /\ UNCHANGED <<form, storeVars, rateVars>> /\ Others(q)
         /\ req[q].kind = "none"
         /\ req'[q].at \in {"read", "branch"}
         /\ req'[q].logged = req[q].logged
<1> DEFINE step == IF kind = "confirm" THEN "read" ELSE "branch"
           n(r) == [r EXCEPT !.kind = kind, !.id = i, !.at = step]
<1>1. ASSUME NEW r \in Request
      PROVE  n(r) \in Request /\ n(r).at = step /\ n(r).logged = r.logged
  BY DEF Request, Steps
<1>2. req[q] \in Request
  BY DEF TypeOK
<1>3. Become(q, n(req[q])) /\ req[q].kind = "none" /\ UNCHANGED <<storeVars, faults>> /\ SameForm
  BY DEF Open
<1> HIDE DEF n
<1>4. /\ req' \in [Requests -> Request] /\ Others(q)
      /\ req'[q].at = step /\ req'[q].logged = req[q].logged
  BY <1>1, <1>2, <1>3, OneMoves
<1> QED BY <1>3, <1>4 DEF TypeOK, SameForm, storeVars, rateVars

LEMMA readPendingEffect ==
  ASSUME TypeOK, NEW q \in Requests, readPending(q)
  PROVE  /\ TypeOK' /\ UNCHANGED <<form, storeVars, rateVars>>
         /\ Moved(q, "confirm", {"write", "invalid", "unavailable"})
<1> DEFINE n(r) == [r EXCEPT !.at = "write", !.year = year]
<1>1. ASSUME NEW r \in Request
      PROVE  /\ n(r) \in Request /\ n(r).at = "write"
             /\ n(r).kind = r.kind /\ n(r).id = r.id /\ n(r).found = r.found
             /\ n(r).logged = r.logged
  BY DEF Request, Steps, TypeOK
<1>2. req[q] \in Request
  BY DEF TypeOK
<1>3. \/ Become(q, n(req[q])) /\ UNCHANGED faults
      \/ Reply(q, "invalid") /\ UNCHANGED faults
      \/ Reply(q, "unavailable") /\ Fault
  BY DEF readPending
<1>4. req[q].kind = "confirm" /\ UNCHANGED storeVars /\ SameForm
  BY DEF readPending, At
<1>5. faults' \in 0..MaxFaults
  BY <1>3, SigningAssumption DEF Fault, TypeOK
<1>6. CASE Become(q, n(req[q]))
  <2> HIDE DEF n
  <2>1. n(req[q]) \in Request
    BY <1>1, <1>2
  <2>2. req' \in [Requests -> Request] /\ Others(q) /\ req'[q] = n(req[q])
    BY <1>6, <2>1, OneMoves
  <2> QED BY <1>1, <1>2, <1>4, <1>5, <2>2
          DEF TypeOK, Moved, SameWhat, SameForm, storeVars, rateVars
<1>7. CASE Reply(q, "invalid") \/ Reply(q, "unavailable")
  <2>1. /\ req' \in [Requests -> Request] /\ Others(q) /\ SameWhat(q)
        /\ req'[q].at \in {"invalid", "unavailable"}
    BY <1>7, ReplyStep DEF Steps
  <2> QED BY <1>4, <1>5, <2>1 DEF TypeOK, Moved, SameForm, storeVars, rateVars
<1> QED BY <1>3, <1>6, <1>7

LEMMA writeSignatoryEffect ==
  ASSUME TypeOK, NEW q \in Requests, writeSignatory(q)
  PROVE  /\ TypeOK' /\ UNCHANGED <<form, pending, log, deleted, rateVars>>
         /\ Moved(q, "confirm", {"burn", "check"})
         /\ \/ /\ UNCHANGED <<register, serial>> /\ req'[q].at = "check"
            \/ /\ serial' = serial + 1
               /\ register[req[q].id][req[q].year] = 0
               /\ register' = [register EXCEPT ![req[q].id][req[q].year] = serial + 1]
<1>1. /\ req[q].kind = "confirm"
      /\ UNCHANGED <<pending, log, deleted>> /\ SameForm
      /\ Goto(q, "burn") \/ Goto(q, "check")
      /\ faults' = faults \/ Fault
      /\ \/ CreateFile(req[q].id, req[q].year)
         \/ UNCHANGED <<register, serial>> /\ Goto(q, "check")
  BY DEF writeSignatory, At
<1>2. Moved(q, "confirm", {"burn", "check"}) /\ (Goto(q, "check") => req'[q].at = "check")
  BY <1>1, GotoStep DEF Moved, Steps
<1>3. faults' \in 0..MaxFaults
  BY <1>1, FaultType
<1>4. req[q].id \in Ids /\ req[q].year \in Years
  BY DEF TypeOK, Request
<1>5. register' \in [Ids -> [Years -> Nat]] /\ serial' \in Nat
  <2>1. register \in [Ids -> [Years -> Nat]] /\ serial \in Nat
    BY DEF TypeOK
  <2>2. CASE CreateFile(req[q].id, req[q].year)
    <3> DEFINE i == req[q].id
               y == req[q].year
    <3>1. serial' = serial + 1 /\ register' = [register EXCEPT ![i][y] = serial + 1]
      BY <2>2 DEF CreateFile
    <3> HIDE DEF i, y
    <3> QED BY <1>4, <2>1, <3>1 DEF i, y
  <2> QED BY <1>1, <2>1, <2>2
<1> QED BY <1>1, <1>2, <1>3, <1>5 DEF TypeOK, Moved, CreateFile, SameForm, rateVars

LEMMA readSignatoryEffect ==
  ASSUME TypeOK, NEW q \in Requests, readSignatory(q)
  PROVE  /\ TypeOK' /\ UNCHANGED <<form, storeVars, rateVars>>
         /\ Moved(q, "confirm", {"burn", "unavailable"})
         /\ req'[q].at = "burn" => register[req[q].id][req[q].year] # 0
<1>1. /\ req[q].kind = "confirm"
      /\ UNCHANGED storeVars /\ SameForm
      /\ \/ Goto(q, "burn") /\ register[req[q].id][req[q].year] # 0
         \/ Reply(q, "unavailable")
      /\ faults' = faults \/ Fault
  BY DEF readSignatory, At
<1>2. /\ Moved(q, "confirm", {"burn", "unavailable"})
      /\ req'[q].at = "burn" => register[req[q].id][req[q].year] # 0
  BY <1>1, GotoStep, ReplyStep DEF Moved, Steps
<1>3. faults' \in 0..MaxFaults
  BY <1>1, FaultType
<1> QED BY <1>1, <1>2, <1>3 DEF TypeOK, Moved, SameForm, storeVars, rateVars

LEMMA deletePendingEffect ==
  ASSUME TypeOK, NEW q \in Requests, deletePending(q)
  PROVE  /\ TypeOK' /\ UNCHANGED <<form, register, serial, log, deleted, rateVars>>
         /\ Moved(q, "confirm", {"confirmed", "unavailable"})
         /\ req[q].at = "burn"
         /\ \A i \in Ids : pending'[i] # pending[i] => i = req[q].id
<1>1. /\ req[q].kind = "confirm" /\ req[q].at = "burn"
      /\ UNCHANGED <<register, serial, log, deleted>> /\ SameForm
      /\ Burn(req[q].id) \/ UNCHANGED pending
      /\ Reply(q, "confirmed") \/ Reply(q, "unavailable")
      /\ faults' = faults \/ Fault
  BY DEF deletePending, At
<1>2. Moved(q, "confirm", {"confirmed", "unavailable"})
  BY <1>1, ReplyStep DEF Moved, Steps
<1>3. faults' \in 0..MaxFaults
  BY <1>1, FaultType
<1>4. /\ pending' \in [Ids -> {"none", "stored", "burnt", "expired"}]
      /\ \A i \in Ids : pending'[i] # pending[i] => i = req[q].id
  BY <1>1 DEF TypeOK, Burn
<1> QED BY <1>1, <1>2, <1>3, <1>4 DEF TypeOK, Moved, SameForm, rateVars

(* q keeps what its probe read.                                               *)
SameRead(q) == /\ req'[q].year = req[q].year
               /\ req'[q].unread = req[q].unread
               /\ req'[q].mark = req[q].mark

LEMMA ensureRepoBranchEffect ==
  ASSUME TypeOK, NEW q \in Requests, ensureRepoBranch(q)
  PROVE  /\ TypeOK' /\ UNCHANGED <<form, storeVars, rateVars>>
         /\ Moved(q, "withdraw", {"probe", "unavailable"})
<1>1. /\ req[q].kind = "withdraw"
      /\ UNCHANGED storeVars /\ SameForm
      /\ Goto(q, "probe") \/ Reply(q, "unavailable")
      /\ faults' = faults \/ Fault
  BY DEF ensureRepoBranch, At
<1>2. Moved(q, "withdraw", {"probe", "unavailable"})
  BY <1>1, GotoStep, ReplyStep DEF Moved, Steps
<1>3. faults' \in 0..MaxFaults
  BY <1>1, FaultType
<1> QED BY <1>1, <1>2, <1>3 DEF TypeOK, Moved, SameForm, storeVars, rateVars

(* A withdrawal that gets no answer forgets what it read.                     *)
LEMMA ReadThrowsEffect ==
  ASSUME TypeOK, NEW q \in Requests, ReadThrows(q)
  PROVE  /\ TypeOK' /\ UNCHANGED <<form, storeVars, rateVars>>
         /\ Moved(q, "withdraw", {"unavailable"})
<1>1. /\ req[q].kind = "withdraw"
      /\ UNCHANGED storeVars /\ SameForm
      /\ Reply(q, "unavailable") /\ Fault
  BY DEF ReadThrows
<1>2. Moved(q, "withdraw", {"unavailable"})
  BY <1>1, ReplyStep DEF Moved, Steps
<1>3. faults' \in 0..MaxFaults
  BY <1>1, FaultType
<1> QED BY <1>1, <1>2, <1>3 DEF TypeOK, Moved, SameForm, storeVars, rateVars

(* Why a file of the signatory may be there although q probed for it.         *)
Excused(q, y) == \/ register[req[q].id][y] > req[q].mark
                 \/ y \notin Candidates(req[q].year)
                 \/ y \in req[q].unread
                 \/ req[q].found # None /\ y < req[q].found
                 \/ req[q].at = "delete" /\ y = req[q].found

Probed(q) == \A y \in Years : register[req[q].id][y] # 0 => Excused(q, y)

(* A probe of the candidate years ends the withdrawal or chooses a file.      *)
LEMMA UnfoundRecord ==
  ASSUME TypeOK, NEW q \in Requests, NEW unread \in SUBSET Candidates(year)
  PROVE  LET n == Unfound(q, unread)
         IN  /\ n \in Request /\ n.at = "done"
             /\ n.kind = req[q].kind /\ n.id = req[q].id /\ n.logged = req[q].logged
             /\ n.found = req[q].found
             /\ n.year = year /\ n.unread = unread /\ n.mark = serial
<1> DEFINE N(r) == [r EXCEPT !.at = "done", !.year = year, !.unread = unread, !.mark = serial]
<1>1. req[q] \in Request /\ unread \in SUBSET Years /\ year \in Years /\ serial \in Nat
  BY DEF TypeOK, Candidates
<1>2. ASSUME NEW r \in Request
      PROVE  /\ N(r) \in Request /\ N(r).at = "done"
             /\ N(r).kind = r.kind /\ N(r).id = r.id /\ N(r).logged = r.logged
             /\ N(r).found = r.found
             /\ N(r).year = year /\ N(r).unread = unread /\ N(r).mark = serial
  BY <1>1 DEF Request, Steps
<1>3. Unfound(q, unread) = N(req[q])
  BY DEF Unfound
<1> HIDE DEF N
<1> QED BY <1>1, <1>2, <1>3

LEMMA FoundRecord ==
  ASSUME TypeOK, NEW q \in Requests, NEW unread \in SUBSET Candidates(year), NEW y \in Years
  PROVE  LET n == Found(q, unread, y)
         IN  /\ n \in Request /\ n.at = "delete"
             /\ n.kind = req[q].kind /\ n.id = req[q].id /\ n.logged = req[q].logged
             /\ n.found = y
             /\ n.year = year /\ n.unread = unread /\ n.mark = serial
<1> DEFINE sha == register[req[q].id][y]
           N(r) == [r EXCEPT !.at = "delete", !.year = year, !.unread = unread,
                             !.mark = serial, !.found = y, !.sha = sha]
<1>1. /\ req[q] \in Request /\ unread \in SUBSET Years /\ year \in Years /\ serial \in Nat
      /\ sha \in Nat
  BY DEF TypeOK, Candidates, Request
<1>2. Found(q, unread, y) = N(req[q])
  BY DEF Found
<1> HIDE DEF sha
<1>3. ASSUME NEW r \in Request
      PROVE  /\ N(r) \in Request /\ N(r).at = "delete"
             /\ N(r).kind = r.kind /\ N(r).id = r.id /\ N(r).logged = r.logged
             /\ N(r).found = y
             /\ N(r).year = year /\ N(r).unread = unread /\ N(r).mark = serial
  BY <1>1 DEF Request, Steps
<1> HIDE DEF N
<1> QED BY <1>1, <1>2, <1>3

LEMMA ProbeCandidatesEffect ==
  ASSUME TypeOK, NEW q \in Requests, ProbeCandidates(q)
  PROVE  /\ TypeOK' /\ UNCHANGED <<form, storeVars, rateVars>> /\ Others(q)
         /\ req[q].kind = "withdraw" /\ req'[q].kind = "withdraw"
         /\ req'[q].id = req[q].id /\ req'[q].logged = req[q].logged
         /\ req'[q].at \in {"done", "delete"}
         /\ req[q].found # None => req'[q].found # None
         /\ req'[q].mark = serial
         /\ Probed(q)'
<1>1. PICK unread \in SUBSET Candidates(year) :
        /\ IF unread = {} THEN UNCHANGED faults ELSE Fault
        /\ \/ Hits(q, unread) = {} /\ Become(q, Unfound(q, unread))
           \/ \E y \in Hits(q, unread) :
                /\ \A z \in Hits(q, unread) : z <= y
                /\ Become(q, Found(q, unread, y))
  BY DEF ProbeCandidates
<1>2. req[q].kind = "withdraw" /\ UNCHANGED storeVars /\ SameForm
  BY DEF ProbeCandidates, At
<1>3. faults' \in 0..MaxFaults
  BY <1>1, FaultType
<1>4. Hits(q, unread) \subseteq Years /\ year \in Years
  BY DEF Hits, Candidates, TypeOK
<1>5. UNCHANGED <<form, storeVars, rateVars>>
  BY <1>2 DEF SameForm, rateVars
<1>6. CASE Hits(q, unread) = {} /\ Become(q, Unfound(q, unread))
  <2> DEFINE n == Unfound(q, unread)
  <2>1. /\ n \in Request /\ n.at = "done"
        /\ n.kind = req[q].kind /\ n.id = req[q].id /\ n.logged = req[q].logged
        /\ n.found = req[q].found
        /\ n.year = year /\ n.unread = unread /\ n.mark = serial
    BY UnfoundRecord
  <2>2. Become(q, n)
    BY <1>6
  <2> HIDE DEF n
  <2>3. req' \in [Requests -> Request] /\ Others(q) /\ req'[q] = n
    BY <2>1, <2>2, OneMoves
  <2>4. ASSUME NEW z \in Years, register'[req'[q].id][z] # 0
        PROVE  Excused(q, z)'
    <3>1. z \notin Candidates(year) \/ z \in unread
      BY <1>2, <1>6, <2>1, <2>3, <2>4 DEF storeVars, Hits
    <3> QED BY <2>1, <2>3, <3>1 DEF Excused, Candidates
  <2>5. Probed(q)'
    BY <2>4 DEF Probed
  <2>6. TypeOK'
    BY <1>2, <1>3, <2>3, RequestType
  <2> QED BY <1>2, <1>5, <2>1, <2>3, <2>5, <2>6
<1>7. ASSUME NEW y \in Hits(q, unread), \A z \in Hits(q, unread) : z <= y,
             Become(q, Found(q, unread, y))
      PROVE  /\ TypeOK' /\ Others(q)
             /\ req'[q].kind = req[q].kind
             /\ req'[q].id = req[q].id /\ req'[q].logged = req[q].logged
             /\ req'[q].at = "delete" /\ req'[q].found # None
             /\ req'[q].mark = serial
             /\ Probed(q)'
  <2> DEFINE n == Found(q, unread, y)
  <2>1. y \in Years
    BY <1>4
  <2>2. /\ n \in Request /\ n.at = "delete"
        /\ n.kind = req[q].kind /\ n.id = req[q].id /\ n.logged = req[q].logged
        /\ n.found = y
        /\ n.year = year /\ n.unread = unread /\ n.mark = serial
    BY <2>1, FoundRecord
  <2>3. Become(q, n)
    BY <1>7
  <2> HIDE DEF n
  <2>4. req' \in [Requests -> Request] /\ Others(q) /\ req'[q] = n
    BY <2>2, <2>3, OneMoves
  <2>5. y # None
    BY <2>1, SigningAssumption DEF Years, None
  <2>6. ASSUME NEW z \in Years, register'[req'[q].id][z] # 0
        PROVE  Excused(q, z)'
    <3>1. CASE z \in Hits(q, unread)
      <4>1. z <= y /\ z \in Nat /\ y \in Nat
        BY <1>7, <2>1, <3>1, SigningAssumption DEF Years
      <4> QED BY <2>2, <2>4, <2>5, <4>1 DEF Excused
    <3>2. CASE z \notin Hits(q, unread)
      <4>1. z \notin Candidates(year) \/ z \in unread
        BY <1>2, <2>2, <2>4, <2>6, <3>2 DEF storeVars, Hits
      <4> QED BY <2>2, <2>4, <4>1 DEF Excused, Candidates
    <3> QED BY <3>1, <3>2
  <2>7. Probed(q)'
    BY <2>6 DEF Probed
  <2>8. TypeOK'
    BY <1>2, <1>3, <2>4, RequestType
  <2> QED BY <2>2, <2>4, <2>5, <2>7, <2>8
<1>8. CASE \E y \in Hits(q, unread) :
             /\ \A z \in Hits(q, unread) : z <= y
             /\ Become(q, Found(q, unread, y))
  <2>1. PICK y \in Hits(q, unread) :
          /\ \A z \in Hits(q, unread) : z <= y
          /\ Become(q, Found(q, unread, y))
    BY <1>8
  <2>2. /\ TypeOK' /\ Others(q)
        /\ req'[q].kind = req[q].kind
        /\ req'[q].id = req[q].id /\ req'[q].logged = req[q].logged
        /\ req'[q].at = "delete" /\ req'[q].found # None
        /\ req'[q].mark = serial
        /\ Probed(q)'
    BY <1>7, <2>1
  <2> QED BY <1>2, <1>5, <2>2
<1> QED BY <1>1, <1>6, <1>8

LEMMA DeleteFileEffect ==
  ASSUME TypeOK, NEW q \in Requests, DeleteFile(q)
  PROVE  /\ TypeOK' /\ UNCHANGED <<form, pending, serial, log, rateVars>>
         /\ Moved(q, "withdraw", {"readlog", "unavailable"})
         /\ req[q].at = "delete"
         /\ \/ /\ UNCHANGED <<register, deleted>> /\ req'[q].at = "unavailable"
            \/ /\ register' = [register EXCEPT ![req[q].id][req[q].found] = 0]
               /\ deleted' = deleted + 1
         /\ req'[q].at = "readlog" => SameRead(q)
<1>1. /\ req[q].kind = "withdraw" /\ req[q].at = "delete"
      /\ UNCHANGED <<pending, serial, log>> /\ SameForm
      /\ \/ /\ register' = [register EXCEPT ![req[q].id][req[q].found] = 0]
            /\ deleted' = deleted + 1
            /\ Goto(q, "readlog") \/ Reply(q, "unavailable")
         \/ UNCHANGED <<register, deleted>> /\ Reply(q, "unavailable")
      /\ faults' = faults \/ Fault
  BY DEF DeleteFile, At
<1>2. /\ Moved(q, "withdraw", {"readlog", "unavailable"})
      /\ Goto(q, "readlog") => SameRead(q)
      /\ Reply(q, "unavailable") => req'[q].at = "unavailable"
  BY <1>1, GotoStep, ReplyStep DEF Moved, Steps, SameRead
<1>3. faults' \in 0..MaxFaults
  BY <1>1, FaultType
<1>4. register' \in [Ids -> [Years -> Nat]] /\ deleted' \in Nat
  <2> DEFINE i == req[q].id
             y == req[q].found
  <2>1. register \in [Ids -> [Years -> Nat]] /\ deleted \in Nat
    BY DEF TypeOK
  <2>2. \/ register' = [register EXCEPT ![i][y] = 0] /\ deleted' = deleted + 1
        \/ UNCHANGED <<register, deleted>>
    BY <1>1
  <2> HIDE DEF i, y
  <2> QED BY <2>1, <2>2
<1>5. TypeOK'
  BY <1>1, <1>2, <1>3, <1>4 DEF TypeOK, Moved, SameForm, rateVars
<1>6. UNCHANGED <<form, rateVars>>
  BY <1>1 DEF SameForm, rateVars
<1> QED BY <1>1, <1>2, <1>5, <1>6

LEMMA ReadLogEffect ==
  ASSUME TypeOK, NEW q \in Requests, ReadLog(q)
  PROVE  /\ TypeOK' /\ UNCHANGED <<form, storeVars, rateVars>>
         /\ Moved(q, "withdraw", {"append"})
         /\ req[q].at = "readlog"
         /\ SameRead(q)
<1> DEFINE N(r, n) == [r EXCEPT !.at = "append", !.seen = n]
<1>1. ASSUME NEW r \in Request, NEW n \in Nat
      PROVE  /\ N(r, n) \in Request /\ N(r, n).at = "append"
             /\ N(r, n).kind = r.kind /\ N(r, n).id = r.id /\ N(r, n).logged = r.logged
             /\ N(r, n).found = r.found
             /\ N(r, n).year = r.year /\ N(r, n).unread = r.unread /\ N(r, n).mark = r.mark
  BY DEF Request, Steps
<1>2. /\ req[q].kind = "withdraw" /\ req[q].at = "readlog"
      /\ UNCHANGED storeVars /\ SameForm
      /\ Become(q, N(req[q], log)) \/ Become(q, N(req[q], 0))
      /\ faults' = faults \/ Fault
  BY DEF ReadLog, At
<1> HIDE DEF N
<1>3. PICK n \in Nat : Become(q, N(req[q], n))
  BY <1>2 DEF TypeOK
<1>4. req[q] \in Request
  BY DEF TypeOK
<1>5. req' \in [Requests -> Request] /\ Others(q) /\ req'[q] = N(req[q], n)
  BY <1>1, <1>3, <1>4, OneMoves
<1>6. Moved(q, "withdraw", {"append"}) /\ SameRead(q)
  BY <1>1, <1>2, <1>4, <1>5 DEF Moved, SameWhat, SameRead
<1>7. faults' \in 0..MaxFaults
  BY <1>2, FaultType
<1>8. TypeOK'
  BY <1>2, <1>5, <1>7, RequestType
<1> QED BY <1>2, <1>6, <1>8 DEF SameForm, rateVars

LEMMA AppendLogEffect ==
  ASSUME TypeOK, NEW q \in Requests, AppendLog(q)
  PROVE  /\ TypeOK' /\ UNCHANGED <<form, pending, register, serial, deleted, rateVars>>
         /\ req' \in [Requests -> Request] /\ Others(q)
         /\ req[q].kind = "withdraw" /\ req[q].at = "append"
         /\ req'[q].kind = req[q].kind /\ req'[q].id = req[q].id
         /\ req'[q].found = req[q].found
         /\ req'[q].at \in {"done", "unavailable"}
         /\ \/ log' = log /\ req'[q].logged = req[q].logged /\ req'[q].at = "unavailable"
            \/ log' = log + 1 /\ req'[q].logged = TRUE /\ SameRead(q)
<1> DEFINE N(r, a) == [r EXCEPT !.at = a, !.logged = TRUE, !.sha = 0, !.seen = 0]
<1>1. ASSUME NEW r \in Request, NEW a \in {"done", "unavailable"}
      PROVE  /\ N(r, a) \in Request /\ N(r, a).at = a
             /\ N(r, a).kind = r.kind /\ N(r, a).id = r.id /\ N(r, a).logged = TRUE
             /\ N(r, a).found = r.found
             /\ N(r, a).year = r.year /\ N(r, a).unread = r.unread /\ N(r, a).mark = r.mark
  BY DEF Request, Steps
<1>2. /\ req[q].kind = "withdraw" /\ req[q].at = "append"
      /\ UNCHANGED <<pending, register, serial, deleted>> /\ SameForm
      /\ \/ /\ log' = log + 1
            /\ \E a \in {"done", "unavailable"} : Become(q, N(req[q], a))
         \/ log' = log /\ Reply(q, "unavailable")
      /\ faults' = faults \/ Fault
  BY DEF AppendLog, At
<1> HIDE DEF N
<1>3. req[q] \in Request /\ log \in Nat
  BY DEF TypeOK
<1>4. faults' \in 0..MaxFaults /\ log' \in Nat
  BY <1>2, <1>3, SigningAssumption DEF Fault, TypeOK
<1>5. ASSUME NEW a \in {"done", "unavailable"}, Become(q, N(req[q], a))
      PROVE  /\ req' \in [Requests -> Request] /\ Others(q) /\ SameRead(q)
             /\ req'[q].kind = req[q].kind /\ req'[q].id = req[q].id
             /\ req'[q].found = req[q].found /\ req'[q].logged = TRUE
             /\ req'[q].at \in {"done", "unavailable"}
  <2>1. req' \in [Requests -> Request] /\ Others(q) /\ req'[q] = N(req[q], a)
    BY <1>1, <1>3, <1>5, OneMoves
  <2> DEFINE n == N(req[q], a)
  <2>a. /\ n.at = a /\ n.kind = req[q].kind /\ n.id = req[q].id /\ n.found = req[q].found
        /\ n.year = req[q].year /\ n.unread = req[q].unread /\ n.mark = req[q].mark
    BY <1>1, <1>3
  <2> HIDE DEF n
  <2>b. req'[q] = n
    BY <2>1 DEF n
  <2>2. /\ req'[q].at = a /\ req'[q].kind = req[q].kind /\ req'[q].id = req[q].id
        /\ req'[q].found = req[q].found
        /\ req'[q].year = req[q].year /\ req'[q].unread = req[q].unread
        /\ req'[q].mark = req[q].mark
    BY <2>a, <2>b
  <2>3. req'[q].logged = TRUE
    BY <1>1, <1>3, <2>1, Zenon
  <2> QED BY <2>1, <2>2, <2>3, Zenon DEF SameRead
<1>6. ASSUME Reply(q, "unavailable")
      PROVE  /\ req' \in [Requests -> Request] /\ Others(q) /\ SameWhat(q)
             /\ req'[q].at = "unavailable"
  BY <1>6, ReplyStep DEF Steps
<1>7. req' \in [Requests -> Request]
  BY <1>2, <1>5, <1>6
<1>8. TypeOK'
  BY <1>2, <1>4, <1>7 DEF TypeOK, SameForm, rateVars
<1>9. UNCHANGED <<form, rateVars>>
  BY <1>2 DEF SameForm, rateVars
<1>10. CASE log' = log + 1 /\ \E a \in {"done", "unavailable"} : Become(q, N(req[q], a))
  BY <1>2, <1>5, <1>8, <1>9, <1>10
<1>11. CASE log' = log /\ Reply(q, "unavailable")
  BY <1>2, <1>6, <1>8, <1>9, <1>11 DEF SameWhat
<1> QED BY <1>2, <1>10, <1>11

-----------------------------------------------------------------------------
(* What the other steps change.                                               *)

(* A step of the form, of the clock or of an expiry leaves the requests and   *)
(* the register alone, and consumes no pending submission.                    *)
LEMMA OtherEffect ==
  ASSUME TypeOK, \/ \E i \in Ids : FormStep(i) \/ PendingExpires(i)
                 \/ WindowEnds \/ NewYear
  PROVE  /\ TypeOK' /\ UNCHANGED <<register, serial, log, deleted, req>>
         /\ \A i \in Ids : pending'[i] = "burnt" => pending[i] = "burnt"
<1> USE SigningAssumption DEF TypeOK, FormTo, Pass, Stop, NewWindow, SameRegister, rateVars, storeVars
<1>1. ASSUME NEW i \in Ids, Count(i)
      PROVE  TypeOK' /\ UNCHANGED <<pending, register, serial, log, deleted, req>>
  BY <1>1 DEF Count
<1>2. ASSUME NEW i \in Ids, SetExpiry(i)
      PROVE  TypeOK' /\ UNCHANGED <<pending, register, serial, log, deleted, req>>
  <2>1. (rate > 0) \in BOOLEAN
    OBVIOUS
  <2>2. rateTtl' \in BOOLEAN
    BY <1>2, <2>1, Zenon DEF SetExpiry
  <2>3. faults' \in 0..MaxFaults
    BY <1>2 DEF SetExpiry, Fault
  <2>4. form' \in [Ids -> {"new", "expire", "put", "mail", "sent", "unheard", "limited", "failed"}]
    BY <1>2 DEF SetExpiry
  <2>5. UNCHANGED <<pending, rate, windows>> /\ SameRegister
    BY <1>2 DEF SetExpiry
  <2>6. admitted' \in [Ids -> 0..MaxWindows]
    BY <1>2 DEF SetExpiry
  <2> QED BY <2>2, <2>3, <2>4, <2>5, <2>6
<1>3. ASSUME NEW i \in Ids, putPending(i)
      PROVE  /\ TypeOK' /\ UNCHANGED <<register, serial, log, deleted, req>>
             /\ \A j \in Ids : pending'[j] = "burnt" => pending[j] = "burnt"
  <2>1. /\ pending' \in [Ids -> {"none", "stored", "burnt", "expired"}]
        /\ \A j \in Ids : pending'[j] = "burnt" => pending[j] = "burnt"
    BY <1>3 DEF putPending
  <2>2. faults' \in 0..MaxFaults
    BY <1>3 DEF putPending, Fault
  <2>3. form' \in [Ids -> {"new", "expire", "put", "mail", "sent", "unheard", "limited", "failed"}]
    BY <1>3 DEF putPending
  <2>4. UNCHANGED rateVars /\ SameRegister
    BY <1>3 DEF putPending
  <2> QED BY <2>1, <2>2, <2>3, <2>4
<1>4. ASSUME NEW i \in Ids, sendConfirmationEmail(i)
      PROVE  TypeOK' /\ UNCHANGED <<pending, register, serial, log, deleted, req>>
  BY <1>4 DEF sendConfirmationEmail, Fault
<1>5. ASSUME NEW i \in Ids, PendingExpires(i)
      PROVE  /\ TypeOK' /\ UNCHANGED <<register, serial, log, deleted, req>>
             /\ \A j \in Ids : pending'[j] = "burnt" => pending[j] = "burnt"
  BY <1>5 DEF PendingExpires
<1>6. ASSUME WindowEnds
      PROVE  TypeOK' /\ UNCHANGED <<pending, register, serial, log, deleted, req>>
  BY <1>6 DEF WindowEnds
<1>7. ASSUME NewYear
      PROVE  TypeOK' /\ UNCHANGED <<pending, register, serial, log, deleted, req>>
  BY <1>7 DEF NewYear, Years
<1>8. ASSUME NEW i \in Ids, CountThrows(i) \/ Reject(i)
      PROVE  TypeOK' /\ UNCHANGED <<pending, register, serial, log, deleted, req>>
  BY <1>8 DEF CountThrows, Reject, Fault
<1> QED BY <1>1, <1>2, <1>3, <1>4, <1>5, <1>6, <1>7, <1>8 DEF FormStep

(* A step of a request, of a new one, or of something else.                   *)
LEMMA NextCases ==
  ASSUME Next
  PROVE  \/ \E q \in Requests : ConfirmStep(q) \/ WithdrawStep(q)
         \/ \E q \in Requests, i \in Ids, kind \in {"confirm", "withdraw"} : Open(q, i, kind)
         \/ \E i \in Ids : FormStep(i) \/ PendingExpires(i)
         \/ WindowEnds \/ NewYear
  BY DEF Next

-----------------------------------------------------------------------------
(* The empty site is well typed.                                              *)
LEMMA InitType == Init => TypeOK
<1> SUFFICES ASSUME Init PROVE TypeOK
  OBVIOUS
<1>1. req \in [Requests -> Request]
  <2>1. PICK i \in Ids : req = [q \in Requests |->
            [kind |-> "none", id |-> i, at |-> "idle", year |-> 0, found |-> None, sha |-> 0,
             unread |-> {}, mark |-> 0, seen |-> 0, logged |-> FALSE]]
    BY DEF Init
  <2> QED BY <2>1, YearZero DEF Request, Steps
<1>2. /\ form \in [Ids -> {"new", "expire", "put", "mail", "sent", "unheard", "limited", "failed"}]
      /\ pending \in [Ids -> {"none", "stored", "burnt", "expired"}]
      /\ register \in [Ids -> [Years -> Nat]]
  BY DEF Init
<1>3. /\ serial \in Nat /\ log \in Nat /\ deleted \in Nat /\ year \in Years
      /\ rate \in Nat /\ windows \in 0..MaxWindows /\ faults \in 0..MaxFaults
      /\ admitted \in [Ids -> 0..MaxWindows]
  BY YearZero, SigningAssumption DEF Init
<1>4. rateTtl \in BOOLEAN
  BY Zenon DEF Init
<1> QED BY <1>1, <1>2, <1>3, <1>4 DEF TypeOK

(* Every step keeps the types.                                                *)
LEMMA StepType == TypeOK /\ [Next]_vars => TypeOK'
<1> SUFFICES ASSUME TypeOK, [Next]_vars PROVE TypeOK'
  OBVIOUS
<1>1. CASE UNCHANGED vars
  BY <1>1 DEF vars, TypeOK, storeVars, rateVars
<1>2. ASSUME NEW q \in Requests, ConfirmStep(q) PROVE TypeOK'
  BY <1>2, readPendingEffect, writeSignatoryEffect, readSignatoryEffect, deletePendingEffect
     DEF ConfirmStep
<1>3. ASSUME NEW q \in Requests, WithdrawStep(q) PROVE TypeOK'
  BY <1>3, ensureRepoBranchEffect, ProbeCandidatesEffect, DeleteFileEffect, ReadLogEffect,
     AppendLogEffect, ReadThrowsEffect DEF WithdrawStep
<1> QED BY <1>1, <1>2, <1>3, NextCases, OpenEffect, OtherEffect

(* The stores, the counters and the requests stay inside their types.         *)
THEOREM Typed == Spec => []TypeOK
  BY InitType, StepType, PTL DEF Spec

-----------------------------------------------------------------------------
(* Nothing is dropped: a handler is about to consume a pending submission, or *)
(* has answered "confirmed", only when a file of it has been durable.         *)
DropInv ==
  /\ \A i \in Ids : pending[i] = "burnt" => Ever(i)
  /\ \A q \in Requests : req[q].kind = "confirm" /\ req[q].at \in {"burn", "confirmed"} =>
        Ever(req[q].id)

(* What has been durable once has been durable ever after: a step that empties*)
(* no path and takes no choice back from a withdrawal keeps it.               *)
LEMMA EverFrame ==
  ASSUME NEW i \in Ids, NEW q \in Requests, Ever(i), Others(q),
         \A y \in Years : register[i][y] # 0 => register'[i][y] # 0,
         req[q].kind = "withdraw" => /\ req'[q].kind = "withdraw" /\ req'[q].id = req[q].id
                                     /\ req[q].found # None => req'[q].found # None
  PROVE  Ever(i)'
  BY DEF Ever, Others

(* Deleting a file leaves the withdrawal that chose it.                       *)
LEMMA EverKept ==
  ASSUME TypeOK, Next, NEW i \in Ids, Ever(i)
  PROVE  Ever(i)'
<1>1. ASSUME NEW q \in Requests, ConfirmStep(q)
      PROVE  Ever(i)'
  <2>1. Others(q) /\ req[q].kind = "confirm"
    <3>1. CASE readPending(q) \/ readSignatory(q)
      BY <3>1, readPendingEffect, readSignatoryEffect DEF Moved
    <3>2. CASE writeSignatory(q) \/ deletePending(q)
      BY <3>2, writeSignatoryEffect, deletePendingEffect DEF Moved
    <3> QED BY <1>1, <3>1, <3>2 DEF ConfirmStep
  <2>2. ASSUME NEW y \in Years, register[i][y] # 0 PROVE register'[i][y] # 0
    <3>1. CASE register' = register
      BY <2>2, <3>1
    <3>2. CASE register' # register
      <4>1. writeSignatory(q)
        <5>1. CASE readPending(q) \/ readSignatory(q)
          BY <3>2, <5>1, readPendingEffect, readSignatoryEffect DEF storeVars
        <5>2. CASE deletePending(q)
          BY <3>2, <5>2, deletePendingEffect
        <5> QED BY <1>1, <5>1, <5>2 DEF ConfirmStep
      <4>2. /\ register' = [register EXCEPT ![req[q].id][req[q].year] = serial + 1]
            /\ register \in [Ids -> [Years -> Nat]] /\ serial \in Nat
            /\ req[q].id \in Ids /\ req[q].year \in Years
        BY <3>2, <4>1, writeSignatoryEffect DEF TypeOK, Request
      <4> QED BY <2>2, <4>2
    <3> QED BY <3>1, <3>2
  <2> QED BY <2>1, <2>2, EverFrame
<1>2. ASSUME NEW q \in Requests, WithdrawStep(q), ~DeleteFile(q)
      PROVE  Ever(i)'
  <2>1. /\ Others(q) /\ register' = register
        /\ req'[q].kind = req[q].kind /\ req'[q].id = req[q].id
        /\ req[q].found # None => req'[q].found # None
    <3>1. CASE ensureRepoBranch(q)
      BY <3>1, ensureRepoBranchEffect DEF Moved, SameWhat, storeVars
    <3>2. CASE ProbeCandidates(q)
      BY <3>2, ProbeCandidatesEffect DEF storeVars
    <3>3. CASE ReadLog(q)
      BY <3>3, ReadLogEffect DEF Moved, SameWhat, storeVars
    <3>4. CASE AppendLog(q)
      BY <3>4, AppendLogEffect DEF Moved, SameWhat, storeVars
    <3>5. CASE ReadThrows(q)
      BY <3>5, ReadThrowsEffect DEF Moved, SameWhat, storeVars
    <3> QED BY <1>2, <3>1, <3>2, <3>3, <3>4, <3>5 DEF WithdrawStep
  <2> QED BY <2>1, EverFrame
<1>3. ASSUME NEW q \in Requests, DeleteFile(q)
      PROVE  Ever(i)'
  <2>1. /\ Others(q) /\ req[q].kind = "withdraw" /\ req'[q].kind = "withdraw"
        /\ req'[q].id = req[q].id /\ req'[q].found = req[q].found
        /\ register' = register \/ register' = [register EXCEPT ![req[q].id][req[q].found] = 0]
    BY <1>3, DeleteFileEffect DEF Moved, SameWhat
  <2>2. CASE \E y \in Years : register[i][y] # 0 /\ register'[i][y] = 0
    <3>1. i = req[q].id /\ req[q].found \in Years
      BY <2>1, <2>2 DEF TypeOK
    <3>2. req[q].found # None
      BY <3>1, SigningAssumption DEF Years, None
    <3> QED BY <2>1, <3>1, <3>2 DEF Ever
  <2>3. CASE \A y \in Years : register[i][y] # 0 => register'[i][y] # 0
    BY <2>1, <2>3, EverFrame
  <2> QED BY <2>2, <2>3
<1>4. ASSUME NEW q \in Requests, NEW j \in Ids, NEW kind \in {"confirm", "withdraw"},
             Open(q, j, kind)
      PROVE  Ever(i)'
  <2>1. Others(q) /\ req[q].kind = "none" /\ register' = register
    BY <1>4, OpenEffect DEF storeVars
  <2> QED BY <2>1, EverFrame
<1>5. ASSUME UNCHANGED <<register, req>>
      PROVE  Ever(i)'
  BY <1>5 DEF Ever
<1> QED BY <1>1, <1>2, <1>3, <1>4, <1>5, NextCases, OtherEffect

LEMMA DropStep == TypeOK /\ DropInv /\ [Next]_vars => DropInv'
<1> SUFFICES ASSUME TypeOK, DropInv, [Next]_vars PROVE DropInv'
  OBVIOUS
<1>1. CASE UNCHANGED vars
  BY <1>1 DEF vars, storeVars, DropInv, Ever
<1>2. CASE Next
  <2>1. \A i \in Ids : Ever(i) => Ever(i)'
    BY <1>2, EverKept
  <2>2. \A k \in Requests : req[k].id \in Ids
    BY DEF TypeOK, Request
  <2>3. ASSUME NEW q \in Requests, Others(q), req'[q].id = req[q].id,
               req'[q].kind = "confirm" /\ req'[q].at \in {"burn", "confirmed"} => Ever(req[q].id)',
               \A i \in Ids : pending'[i] = "burnt" => Ever(i)'
        PROVE  DropInv'
    <3>1. ASSUME NEW k \in Requests, req'[k].kind = "confirm", req'[k].at \in {"burn", "confirmed"}
          PROVE  Ever(req[k].id)' /\ req'[k].id = req[k].id
      <4>1. CASE k = q
        BY <2>3, <3>1, <4>1
      <4>2. CASE k # q
        <5>1. req'[k] = req[k]
          BY <2>3, <4>2 DEF Others
        <5>2. Ever(req[k].id)
          BY <3>1, <5>1 DEF DropInv
        <5> QED BY <2>1, <2>2, <5>1, <5>2
      <4> QED BY <4>1, <4>2
    <3> QED BY <2>3, <3>1 DEF DropInv, Ever
  <2>4. ASSUME NEW q \in Requests, ConfirmStep(q)
        PROVE  DropInv'
    <3>1. Others(q) /\ req'[q].id = req[q].id /\ req'[q].kind = "confirm"
      <4>1. CASE readPending(q) \/ readSignatory(q)
        BY <4>1, readPendingEffect, readSignatoryEffect DEF Moved, SameWhat
      <4>2. CASE writeSignatory(q) \/ deletePending(q)
        BY <4>2, writeSignatoryEffect, deletePendingEffect DEF Moved, SameWhat
      <4> QED BY <2>4, <4>1, <4>2 DEF ConfirmStep
    <3>2. req'[q].at \in {"burn", "confirmed"} => Ever(req[q].id)'
      <4>1. CASE readPending(q)
        BY <4>1, readPendingEffect DEF Moved
      <4>2. CASE writeSignatory(q)
        <5>1. CASE req'[q].at = "burn"
          <6>1. /\ register' = [register EXCEPT ![req[q].id][req[q].year] = serial + 1]
                /\ register \in [Ids -> [Years -> Nat]] /\ serial \in Nat
                /\ req[q].id \in Ids /\ req[q].year \in Years
            BY <4>2, <5>1, writeSignatoryEffect DEF TypeOK, Request
          <6>2. register'[req[q].id][req[q].year] # 0
            BY <6>1
          <6> QED BY <3>1, <6>1, <6>2 DEF Ever
        <5> QED BY <4>2, <5>1, writeSignatoryEffect DEF Moved
      <4>3. CASE readSignatory(q)
        <5>1. CASE req'[q].at = "burn"
          <6>1. req[q].year \in Years /\ register[req[q].id][req[q].year] # 0
            BY <4>3, <5>1, readSignatoryEffect DEF TypeOK, Request
          <6>2. Ever(req[q].id)
            BY <6>1 DEF Ever
          <6>3. req[q].id \in Ids
            BY <2>2
          <6>4. register' = register
            BY <4>3, readSignatoryEffect DEF storeVars
          <6> QED BY <3>1, <6>1, <6>4 DEF Ever
        <5> QED BY <4>3, <5>1, readSignatoryEffect DEF Moved
      <4>4. CASE deletePending(q)
        <5>1. Ever(req[q].id)
          BY <4>4, deletePendingEffect DEF DropInv, Moved
        <5>2. PICK i \in Ids : i = req[q].id
          BY <2>2
        <5>3. Ever(i)'
          BY <2>1, <5>1, <5>2
        <5> QED BY <3>1, <5>2, <5>3 DEF Ever
      <4> QED BY <2>4, <4>1, <4>2, <4>3, <4>4 DEF ConfirmStep
    <3>3. ASSUME NEW i \in Ids, pending'[i] = "burnt" PROVE Ever(i)'
      <4>1. CASE pending'[i] = pending[i]
        BY <2>1, <3>3, <4>1 DEF DropInv
      <4>2. CASE pending'[i] # pending[i]
        <5>1. deletePending(q)
          BY <2>4, <4>2, readPendingEffect, writeSignatoryEffect, readSignatoryEffect
             DEF ConfirmStep, storeVars
        <5>2. i = req[q].id /\ Ever(req[q].id)
          BY <4>2, <5>1, deletePendingEffect DEF DropInv, Moved
        <5> QED BY <2>1, <5>2
      <4> QED BY <4>1, <4>2
    <3> QED BY <2>3, <3>1, <3>2, <3>3
  <2>5. ASSUME NEW q \in Requests, WithdrawStep(q)
        PROVE  DropInv'
    <3>1. Others(q) /\ req'[q].id = req[q].id /\ req'[q].kind = "withdraw" /\ pending' = pending
      <4>1. CASE ensureRepoBranch(q) \/ ReadLog(q) \/ ReadThrows(q)
        BY <4>1, ensureRepoBranchEffect, ReadLogEffect, ReadThrowsEffect DEF Moved, SameWhat, storeVars
      <4>2. CASE ProbeCandidates(q)
        BY <4>2, ProbeCandidatesEffect DEF storeVars
      <4>3. CASE DeleteFile(q)
        BY <4>3, DeleteFileEffect DEF Moved, SameWhat
      <4>4. CASE AppendLog(q)
        BY <4>4, AppendLogEffect
      <4> QED BY <2>5, <4>1, <4>2, <4>3, <4>4 DEF WithdrawStep
    <3> QED BY <2>1, <2>3, <3>1 DEF DropInv
  <2>6. ASSUME NEW q \in Requests, NEW j \in Ids, NEW kind \in {"confirm", "withdraw"},
               Open(q, j, kind)
        PROVE  DropInv'
    <3>1. Others(q) /\ req'[q].at \in {"read", "branch"} /\ pending' = pending
      BY <2>6, OpenEffect DEF storeVars
    <3>2. ASSUME NEW k \in Requests, req'[k].kind = "confirm", req'[k].at \in {"burn", "confirmed"}
          PROVE  Ever(req[k].id)'
      <4>1. k # q /\ req'[k] = req[k]
        BY <3>1, <3>2 DEF Others
      <4>2. Ever(req[k].id)
        BY <3>2, <4>1 DEF DropInv
      <4>3. PICK i \in Ids : i = req[k].id
        BY <2>2
      <4> QED BY <2>1, <4>1, <4>2, <4>3 DEF Ever
    <3> QED BY <2>1, <3>1, <3>2 DEF DropInv
  <2>7. ASSUME UNCHANGED req, \A i \in Ids : pending'[i] = "burnt" => pending[i] = "burnt"
        PROVE  DropInv'
    <3>1. ASSUME NEW k \in Requests, req[k].kind = "confirm", req[k].at \in {"burn", "confirmed"}
          PROVE  Ever(req[k].id)'
      <4>1. PICK i \in Ids : i = req[k].id
        BY <2>2
      <4>2. Ever(i)'
        BY <2>1, <3>1, <4>1 DEF DropInv
      <4> QED BY <2>7, <4>1, <4>2 DEF Ever
    <3> QED BY <2>1, <2>7, <3>1 DEF DropInv
  <2> QED BY <1>2, <2>4, <2>5, <2>6, <2>7, NextCases, OtherEffect
<1> QED BY <1>1, <1>2

(* confirm/route.ts: a submission is consumed, and a signatory told           *)
(* "confirmed", only after a file was durable, whatever fails and whoever     *)
(* races.                                                                     *)
THEOREM Durable == Spec => []NothingDropped
<1>1. Init => DropInv
  BY DEF Init, DropInv
<1>2. TypeOK /\ DropInv /\ [Next]_vars => DropInv'
  BY DropStep
<1>3. DropInv => NothingDropped
  BY DEF DropInv, NothingDropped, At
<1> QED BY <1>1, <1>2, <1>3, Typed, PTL DEF Spec

-----------------------------------------------------------------------------
(* A withdrawal that has probed knows why each file it left behind is there.  *)
GoneInv ==
  \A q \in Requests :
    req[q].kind = "withdraw" /\ req[q].at \in {"delete", "readlog", "append", "done"} =>
      req[q].mark <= serial /\ Probed(q)

(* No step of somebody else gives a file to a withdrawal that has probed: the *)
(* files that appear are newer than its probe.                                *)
LEMMA ProbedKept ==
  ASSUME TypeOK, TypeOK', NEW k \in Requests, req'[k] = req[k],
         req[k].mark <= serial, Probed(k), serial' >= serial,
         \A i \in Ids, y \in Years : register'[i][y] \in {register[i][y], 0, serial + 1}
  PROVE  req'[k].mark <= serial' /\ Probed(k)'
<1>1. /\ req[k].mark \in Nat /\ serial \in Nat /\ serial' \in Nat /\ req[k].id \in Ids
      /\ req[k].mark < serial + 1 /\ req[k].mark <= serial'
  BY DEF TypeOK, Request
<1>2. ASSUME NEW y \in Years, register'[req[k].id][y] # 0
      PROVE  Excused(k, y)'
  <2>1. CASE register'[req[k].id][y] = register[req[k].id][y]
    <3>1. Excused(k, y)
      BY <1>2, <2>1 DEF Probed
    <3> QED BY <2>1, <3>1 DEF Excused, Candidates
  <2>2. CASE register'[req[k].id][y] = serial + 1
    BY <1>1, <2>2 DEF Excused
  <2> QED BY <1>1, <1>2, <2>1, <2>2
<1> QED BY <1>1, <1>2 DEF Probed

(* The register after any step of a request.                                  *)
LEMMA RegisterStep ==
  ASSUME TypeOK, NEW q \in Requests, ConfirmStep(q) \/ WithdrawStep(q)
  PROVE  /\ serial' \in {serial, serial + 1} /\ Others(q)
         /\ \A i \in Ids, y \in Years : register'[i][y] \in {register[i][y], 0, serial + 1}
<1>1. CASE readPending(q) \/ readSignatory(q) \/ deletePending(q)
  BY <1>1, readPendingEffect, readSignatoryEffect, deletePendingEffect DEF Moved, storeVars
<1>2. CASE writeSignatory(q)
  <2>1. register \in [Ids -> [Years -> Nat]]
    BY DEF TypeOK
  <2>2. /\ serial' \in {serial, serial + 1} /\ Others(q)
        /\ \/ register' = register
           \/ register' = [register EXCEPT ![req[q].id][req[q].year] = serial + 1]
    BY <1>2, writeSignatoryEffect DEF Moved
  <2> QED BY <2>1, <2>2
<1>3. CASE ensureRepoBranch(q) \/ ProbeCandidates(q) \/ ReadThrows(q)
  BY <1>3, ensureRepoBranchEffect, ProbeCandidatesEffect, ReadThrowsEffect DEF Moved, storeVars
<1>4. CASE ReadLog(q) \/ AppendLog(q)
  BY <1>4, ReadLogEffect, AppendLogEffect DEF Moved, storeVars
<1>5. CASE DeleteFile(q)
  <2>1. register \in [Ids -> [Years -> Nat]]
    BY DEF TypeOK
  <2>2. /\ serial' = serial /\ Others(q)
        /\ \/ register' = register
           \/ register' = [register EXCEPT ![req[q].id][req[q].found] = 0]
    BY <1>5, DeleteFileEffect DEF Moved
  <2> QED BY <2>1, <2>2
<1> QED BY <1>1, <1>2, <1>3, <1>4, <1>5 DEF ConfirmStep, WithdrawStep

(* The withdrawal that moves knows it too.                                    *)
LEMMA OwnProbe ==
  ASSUME TypeOK, GoneInv, NEW q \in Requests, WithdrawStep(q),
         req'[q].at \in {"delete", "readlog", "append", "done"}
  PROVE  req'[q].mark <= serial' /\ Probed(q)'
<1>1. CASE ensureRepoBranch(q) \/ ReadThrows(q)
  BY <1>1, ensureRepoBranchEffect, ReadThrowsEffect DEF Moved
<1>2. CASE ProbeCandidates(q)
  <2>1. /\ req'[q].mark = serial /\ serial' = serial /\ Probed(q)'
    BY <1>2, ProbeCandidatesEffect DEF storeVars
  <2> QED BY <2>1 DEF TypeOK
<1>3. CASE DeleteFile(q)
  <2> DEFINE i == req[q].id
             f == req[q].found
  <2>1. /\ req[q].at = "delete" /\ req[q].kind = "withdraw" /\ req'[q].at = "readlog"
        /\ SameRead(q) /\ SameWhat(q) /\ serial' = serial
        /\ register' = [register EXCEPT ![i][f] = 0]
    BY <1>3, DeleteFileEffect DEF Moved
  <2>2. /\ register \in [Ids -> [Years -> Nat]] /\ i \in Ids
        /\ req[q].mark <= serial /\ Probed(q)
    BY <2>1 DEF TypeOK, Request, GoneInv
  <2> HIDE DEF i, f
  <2>3. ASSUME NEW y \in Years, register'[i][y] # 0
        PROVE  y # f /\ register'[i][y] = register[i][y]
    BY <2>1, <2>2, <2>3
  <2>4. ASSUME NEW y \in Years, register'[i][y] # 0
        PROVE  Excused(q, y)'
    <3>1. Excused(q, y) /\ y # f /\ register'[i][y] = register[i][y]
      BY <2>2, <2>3, <2>4 DEF Probed, i
    <3> QED BY <2>1, <3>1 DEF Excused, SameRead, SameWhat, Candidates, i, f
  <2> QED BY <2>1, <2>2, <2>4 DEF Probed, SameRead, SameWhat, i
<1>4. CASE ReadLog(q) \/ AppendLog(q)
  <2>1. /\ req[q].at \in {"readlog", "append"} /\ req[q].kind = "withdraw"
        /\ req'[q].at \in {"append", "done"}
        /\ SameRead(q) /\ req'[q].id = req[q].id /\ req'[q].found = req[q].found
        /\ UNCHANGED <<register, serial>>
    <3>1. CASE ReadLog(q)
      BY <3>1, ReadLogEffect DEF Moved, SameWhat, storeVars
    <3>2. CASE AppendLog(q)
      BY <3>2, AppendLogEffect
    <3> QED BY <1>4, <3>1, <3>2
  <2>2. req[q].mark <= serial /\ Probed(q)
    BY <2>1 DEF GoneInv
  <2> QED BY <2>1, <2>2 DEF Probed, Excused, SameRead, Candidates
<1> QED BY <1>1, <1>2, <1>3, <1>4 DEF WithdrawStep

LEMMA GoneStep == TypeOK /\ GoneInv /\ [Next]_vars => GoneInv'
<1> SUFFICES ASSUME TypeOK, GoneInv, [Next]_vars PROVE GoneInv'
  OBVIOUS
<1>1. CASE UNCHANGED vars
  BY <1>1 DEF vars, storeVars, GoneInv, Probed, Excused, Candidates
<1>2. CASE Next
  <2>1. TypeOK'
    BY <1>2, StepType
  <2>2. serial \in Nat
    BY DEF TypeOK
  <2>3. ASSUME NEW q \in Requests, ConfirmStep(q) \/ WithdrawStep(q)
        PROVE  GoneInv'
    <3>1. ASSUME NEW k \in Requests, req'[k].kind = "withdraw",
                 req'[k].at \in {"delete", "readlog", "append", "done"}
          PROVE  req'[k].mark <= serial' /\ Probed(k)'
      <4>1. CASE k # q
        <5>1. req'[k] = req[k]
          BY <2>3, <4>1, RegisterStep DEF Others
        <5>2. req[k].mark <= serial /\ Probed(k)
          BY <3>1, <5>1 DEF GoneInv
        <5> QED BY <2>1, <2>2, <2>3, <5>1, <5>2, RegisterStep, ProbedKept
      <4>2. CASE k = q
        <5>1. WithdrawStep(q)
          BY <2>3, <3>1, <4>2, readPendingEffect, writeSignatoryEffect, readSignatoryEffect,
             deletePendingEffect DEF ConfirmStep, Moved, SameWhat
        <5> QED BY <3>1, <4>2, <5>1, OwnProbe
      <4> QED BY <4>1, <4>2
    <3> QED BY <3>1 DEF GoneInv
  <2>4. ASSUME NEW q \in Requests, NEW j \in Ids, NEW kind \in {"confirm", "withdraw"},
               Open(q, j, kind)
        PROVE  GoneInv'
    <3>1. Others(q) /\ req'[q].at \in {"read", "branch"} /\ UNCHANGED <<register, serial>>
      BY <2>4, OpenEffect DEF storeVars
    <3> QED BY <3>1 DEF GoneInv, Probed, Excused, Candidates, Others
  <2>5. ASSUME UNCHANGED <<register, serial, req>>
        PROVE  GoneInv'
    BY <2>5 DEF GoneInv, Probed, Excused, Candidates
  <2> QED BY <1>2, <2>3, <2>4, <2>5, NextCases, OtherEffect
<1> QED BY <1>1, <1>2

(* withdraw/route.ts: after "done" a file of the signatory is left only for   *)
(* one of the four reasons of DoneMeansGone.                                  *)
THEOREM Withdrawn == Spec => []DoneMeansGone
<1>1. Init => GoneInv
  BY DEF Init, GoneInv
<1>2. TypeOK /\ GoneInv /\ [Next]_vars => GoneInv'
  BY GoneStep
<1>3. GoneInv => DoneMeansGone
  BY DEF GoneInv, Probed, Excused, DoneMeansGone, At
<1> QED BY <1>1, <1>2, <1>3, Typed, PTL DEF Spec

-----------------------------------------------------------------------------
(* The log.  A withdrawal is due a line from the deletion of its file on; it  *)
(* gets one at most, as its last step.                                        *)
Logged == {q \in Requests : req[q].logged}

Waiting(q) == req[q].kind = "withdraw" /\ req[q].at \in {"readlog", "append"}

Due == {q \in Requests : req[q].logged \/ Waiting(q)}

LogInv ==
  /\ log = Cardinality(Logged)
  /\ Cardinality(Due) <= deleted
  /\ \A q \in Requests : req[q].logged =>
        req[q].kind = "withdraw" /\ req[q].at \in {"done", "unavailable"}

LEMMA DueFinite == IsFiniteSet(Logged) /\ IsFiniteSet(Due)
  BY SigningAssumption, FS_Subset DEF Logged, Due, Waiting

LEMMA LogStep == TypeOK /\ LogInv /\ [Next]_vars => LogInv'
<1> SUFFICES ASSUME TypeOK, LogInv, [Next]_vars PROVE LogInv'
  OBVIOUS
<1>0. /\ log \in Nat /\ deleted \in Nat
      /\ Cardinality(Due) \in Nat /\ IsFiniteSet(Due) /\ IsFiniteSet(Logged)
  BY DueFinite, FS_CardinalityType DEF TypeOK
<1>1. ASSUME UNCHANGED <<log, deleted>>, NEW q \in Requests, Others(q),
             req'[q].logged = req[q].logged, q \in Due' => q \in Due,
             ~req[q].logged
      PROVE  LogInv'
  <2>1. Logged' = Logged
    BY <1>1 DEF Logged, Others
  <2>2. Due' \subseteq Due
    BY <1>1 DEF Due, Waiting, Others
  <2>3. Cardinality(Due') <= Cardinality(Due) /\ Cardinality(Due') \in Nat
    BY <1>0, <2>2, FS_Subset, FS_CardinalityType
  <2>4. \A k \in Requests : req'[k].logged =>
          req'[k].kind = "withdraw" /\ req'[k].at \in {"done", "unavailable"}
    BY <1>1 DEF LogInv, Others
  <2> QED BY <1>0, <1>1, <2>1, <2>3, <2>4 DEF LogInv
<1>2. CASE UNCHANGED <<log, deleted, req>>
  BY <1>2 DEF LogInv, Logged, Due, Waiting
<1>3. ASSUME NEW q \in Requests, ConfirmStep(q)
      PROVE  LogInv'
  <2>1. /\ Others(q) /\ req'[q].logged = req[q].logged /\ UNCHANGED <<log, deleted>>
        /\ req'[q].kind = "confirm" /\ req[q].kind = "confirm"
    <3>1. CASE readPending(q) \/ readSignatory(q)
      BY <3>1, readPendingEffect, readSignatoryEffect DEF Moved, SameWhat, storeVars
    <3>2. CASE writeSignatory(q) \/ deletePending(q)
      BY <3>2, writeSignatoryEffect, deletePendingEffect DEF Moved, SameWhat
    <3> QED BY <1>3, <3>1, <3>2 DEF ConfirmStep
  <2>2. ~req[q].logged
    BY <2>1 DEF LogInv
  <2>3. q \notin Due'
    BY <2>1, <2>2 DEF Due, Waiting
  <2> QED BY <1>1, <2>1, <2>2, <2>3
<1>4. ASSUME NEW q \in Requests, WithdrawStep(q)
      PROVE  ~req[q].logged
  <2>1. req[q].at \notin {"done", "unavailable"}
    BY <1>4, Zenon DEF WithdrawStep, ensureRepoBranch, ProbeCandidates, DeleteFile, ReadLog,
       AppendLog, ReadThrows, At
  <2> QED BY <2>1 DEF LogInv
<1>5. ASSUME NEW q \in Requests, ensureRepoBranch(q) \/ ProbeCandidates(q) \/ ReadThrows(q)
      PROVE  LogInv'
  <2>1. /\ Others(q) /\ req'[q].logged = req[q].logged /\ UNCHANGED <<log, deleted>>
        /\ req'[q].at \notin {"readlog", "append"}
    BY <1>5, ensureRepoBranchEffect, ProbeCandidatesEffect, ReadThrowsEffect DEF Moved, SameWhat, storeVars
  <2>2. ~req[q].logged
    BY <1>4, <1>5 DEF WithdrawStep
  <2>3. q \notin Due'
    BY <2>1, <2>2 DEF Due, Waiting
  <2> QED BY <1>1, <2>1, <2>2, <2>3
<1>6. ASSUME NEW q \in Requests, ReadLog(q)
      PROVE  LogInv'
  <2>1. /\ Others(q) /\ req'[q].logged = req[q].logged /\ UNCHANGED <<log, deleted>>
        /\ q \in Due
    BY <1>6, ReadLogEffect DEF Moved, SameWhat, storeVars, Due, Waiting
  <2>2. ~req[q].logged
    BY <1>4, <1>6 DEF WithdrawStep
  <2> QED BY <1>1, <2>1, <2>2
<1>7. ASSUME NEW q \in Requests, DeleteFile(q)
      PROVE  LogInv'
  <2>1. /\ Others(q) /\ req'[q].logged = req[q].logged /\ log' = log
        /\ req'[q].kind = "withdraw" /\ req'[q].at \in {"readlog", "unavailable"}
        /\ \/ deleted' = deleted /\ req'[q].at = "unavailable"
           \/ deleted' = deleted + 1
    BY <1>7, DeleteFileEffect DEF Moved, SameWhat
  <2>2. ~req[q].logged
    BY <1>4, <1>7 DEF WithdrawStep
  <2>3. CASE deleted' = deleted /\ req'[q].at = "unavailable"
    <3>1. q \notin Due'
      BY <2>1, <2>2, <2>3 DEF Due, Waiting
    <3> QED BY <1>1, <2>1, <2>2, <2>3, <3>1
  <2>4. CASE deleted' = deleted + 1
    <3>1. Logged' = Logged
      BY <2>1 DEF Logged, Others
    <3>2. Due' \subseteq Due \cup {q}
      BY <2>1 DEF Due, Waiting, Others
    <3>3. /\ IsFiniteSet(Due \cup {q}) /\ Cardinality(Due \cup {q}) \in Nat
          /\ Cardinality(Due \cup {q}) <= Cardinality(Due) + 1
      <4>1. CASE q \in Due
        <5>1. Due \cup {q} = Due
          BY <4>1
        <5> QED BY <1>0, <5>1
      <4>2. CASE q \notin Due
        <5>1. /\ IsFiniteSet(Due \cup {q})
              /\ Cardinality(Due \cup {q}) = Cardinality(Due) + 1
          BY <1>0, <4>2, FS_AddElement, Zenon
        <5> QED BY <1>0, <5>1
      <4> QED BY <4>1, <4>2
    <3>4. Cardinality(Due') \in Nat /\ Cardinality(Due') <= Cardinality(Due \cup {q})
      BY <3>2, <3>3, FS_Subset, FS_CardinalityType
    <3>5. Cardinality(Due) <= deleted
      BY DEF LogInv
    <3>6. Cardinality(Due') <= deleted'
      BY <1>0, <2>4, <3>3, <3>4, <3>5
    <3>7. \A k \in Requests : req'[k].logged =>
            req'[k].kind = "withdraw" /\ req'[k].at \in {"done", "unavailable"}
      BY <2>1, <2>2 DEF LogInv, Others
    <3> QED BY <2>1, <3>1, <3>6, <3>7 DEF LogInv
  <2> QED BY <2>1, <2>3, <2>4
<1>8. ASSUME NEW q \in Requests, AppendLog(q)
      PROVE  LogInv'
  <2>1. ~req[q].logged
    BY <1>4, <1>8 DEF WithdrawStep
  <2>2. /\ Others(q) /\ deleted' = deleted /\ q \in Due
        /\ req'[q].kind = "withdraw" /\ req'[q].at \in {"done", "unavailable"}
    BY <1>8, AppendLogEffect DEF Due, Waiting
  <2>3. CASE log' = log /\ req'[q].logged = req[q].logged
    BY <1>1, <2>1, <2>2, <2>3
  <2>4. CASE log' = log + 1 /\ req'[q].logged = TRUE
    <3>1. Logged' = Logged \cup {q} /\ q \notin Logged
      BY <2>1, <2>2, <2>4, Zenon DEF Logged, Others
    <3>2. Cardinality(Logged') = Cardinality(Logged) + 1
      BY <1>0, <3>1, FS_AddElement
    <3>3. Due' \subseteq Due
      BY <2>2 DEF Due, Waiting, Others
    <3>4. Cardinality(Due') <= Cardinality(Due) /\ Cardinality(Due') \in Nat
      BY <1>0, <3>3, FS_Subset, FS_CardinalityType
    <3>5. \A k \in Requests : req'[k].logged =>
            req'[k].kind = "withdraw" /\ req'[k].at \in {"done", "unavailable"}
      BY <2>2 DEF LogInv, Others
    <3> QED BY <1>0, <2>2, <2>4, <3>2, <3>4, <3>5 DEF LogInv
  <2> QED BY <1>8, <2>3, <2>4, AppendLogEffect
<1>9. ASSUME NEW q \in Requests, NEW j \in Ids, NEW kind \in {"confirm", "withdraw"},
             Open(q, j, kind)
      PROVE  LogInv'
  <2>1. /\ Others(q) /\ req'[q].logged = req[q].logged /\ UNCHANGED <<log, deleted>>
        /\ req'[q].at \in {"read", "branch"} /\ req[q].kind = "none"
    BY <1>9, OpenEffect DEF storeVars
  <2>2. ~req[q].logged
    BY <2>1 DEF LogInv
  <2>3. q \notin Due'
    BY <2>1, <2>2 DEF Due, Waiting
  <2> QED BY <1>1, <2>1, <2>2, <2>3
<1>10. ASSUME NEW q \in Requests, WithdrawStep(q)
       PROVE  LogInv'
  BY <1>5, <1>6, <1>7, <1>8, <1>10 DEF WithdrawStep
<1>11. CASE UNCHANGED vars
  BY <1>2, <1>11 DEF vars, storeVars
<1> QED BY <1>2, <1>3, <1>9, <1>10, <1>11, NextCases, OtherEffect

(* appendWithdrawal: no accepted line is lost to a concurrent withdrawal or a *)
(* failed read, and there is no line without a deleted file.                  *)
THEOREM LogIsTrue == Spec => []LogCounts
<1>1. Init => LogInv
  <2> SUFFICES ASSUME Init PROVE LogInv
    OBVIOUS
  <2>1. \A q \in Requests : ~req[q].logged /\ req[q].kind = "none"
    <3>1. PICK i \in Ids : req = [q \in Requests |->
            [kind |-> "none", id |-> i, at |-> "idle", year |-> 0, found |-> None, sha |-> 0,
             unread |-> {}, mark |-> 0, seen |-> 0, logged |-> FALSE]]
      BY DEF Init
    <3>2. ASSUME NEW q \in Requests
          PROVE  req[q].logged = FALSE /\ req[q].kind = "none"
      BY <3>1
    <3> QED BY <3>2
  <2>2. Logged = {} /\ Due = {}
    BY <2>1 DEF Logged, Due, Waiting
  <2>3. log = 0 /\ deleted = 0
    BY DEF Init
  <2> QED BY <2>1, <2>2, <2>3, FS_EmptySet DEF LogInv
<1>2. TypeOK /\ LogInv /\ [Next]_vars => LogInv'
  BY LogStep
<1>3. TypeOK /\ LogInv => LogCounts
  <2> SUFFICES ASSUME TypeOK, LogInv PROVE LogCounts
    OBVIOUS
  <2>1. Logged \subseteq Due
    BY DEF Logged, Due, Waiting
  <2>2. /\ Cardinality(Logged) <= Cardinality(Due)
        /\ Cardinality(Logged) \in Nat /\ Cardinality(Due) \in Nat /\ deleted \in Nat
    BY <2>1, DueFinite, FS_Subset, FS_CardinalityType DEF TypeOK
  <2>3. log <= deleted
    BY <2>2 DEF LogInv
  <2> QED BY <2>3 DEF LogInv, LogCounts, Logged
<1> QED BY <1>1, <1>2, <1>3, Typed, PTL DEF Spec

-----------------------------------------------------------------------------
(* The rate limit.  A seat of the running window is taken by a submission let *)
(* through in it, and by the one whose INCR began it, until EXPIRE answers.   *)
In(w) == {i \in Ids : admitted[i] = w}

Expiring == {i \in Ids : form[i] = "expire"}

Seats == In(windows) \cup Expiring

Charged == IF rate < RATE_LIMIT_MAX THEN rate ELSE RATE_LIMIT_MAX

Admitted == /\ \A i \in Ids : Through(i) => admitted[i] \in 1..windows
            /\ \A i \in Ids : admitted[i] <= windows

(* Without an expiry the window cannot end, so no second INCR begins one.     *)
OneExpires == /\ Expiring # {} => rate > 0 /\ ~rateTtl
              /\ \A i, j \in Expiring : i = j
              /\ rateTtl => rate > 0

SeatsBounded == /\ \A w \in 1..windows : Cardinality(In(w)) <= RATE_LIMIT_MAX
                /\ rate > 0 => windows > 0 /\ Cardinality(Seats) <= Charged

MailInv == Admitted /\ OneExpires /\ SeatsBounded

(* There are finitely many submissions, so finitely many seats.               *)
LEMMA FiniteSeats ==
  /\ \A w \in Nat : IsFiniteSet(In(w)) /\ Cardinality(In(w)) \in Nat
  /\ IsFiniteSet(Expiring)
  /\ IsFiniteSet(Seats) /\ Cardinality(Seats) \in Nat
<1>1. \A w \in Nat : IsFiniteSet(In(w)) /\ Cardinality(In(w)) \in Nat
  BY SigningAssumption, FS_Subset, FS_CardinalityType DEF In
<1>2. IsFiniteSet(Expiring)
  BY SigningAssumption, FS_Subset DEF Expiring
<1>3. Seats \subseteq Ids
  BY DEF Seats, In, Expiring
<1> QED BY <1>1, <1>2, <1>3, SigningAssumption, FS_Subset, FS_CardinalityType

(* The counter as a number, before and after it is incremented.               *)
LEMMA ChargedType ==
  ASSUME TypeOK
  PROVE  /\ Charged \in Nat
         /\ rate \in 1..(RATE_LIMIT_MAX - 1) /\ rate' = rate + 1 => Charged' = Charged + 1
<1>1. Charged \in Nat
  BY SigningAssumption DEF TypeOK, Charged
<1>2. ASSUME rate \in 1..(RATE_LIMIT_MAX - 1), rate' = rate + 1
      PROVE  Charged' = Charged + 1
  BY <1>2, SigningAssumption DEF Charged
<1> QED BY <1>1, <1>2

(* No seat is taken, and the window stays what it is or ends.                 *)
LEMMA NoSeat ==
  ASSUME TypeOK, SeatsBounded, UNCHANGED <<windows, admitted>>, Expiring' \subseteq Expiring,
         rate' \in {0, rate, rate + 1}, rate' = rate + 1 => rate > 0
  PROVE  SeatsBounded'
<1>1. \A w : In(w)' = In(w)
  BY DEF In
<1>2. \A w \in 1..windows' : Cardinality(In(w)') <= RATE_LIMIT_MAX
  BY <1>1 DEF SeatsBounded
<1>3. ASSUME rate' > 0
      PROVE  windows' > 0 /\ Cardinality(Seats') <= Charged'
  <2>1. rate \in Nat /\ rate > 0 /\ rate' \in {rate, rate + 1}
    BY <1>3 DEF TypeOK
  <2>2. windows > 0 /\ Cardinality(Seats) <= Charged
    BY <2>1 DEF SeatsBounded
  <2>3. Seats' \subseteq Seats
    BY <1>1 DEF Seats, In
  <2>4. Cardinality(Seats') \in Nat /\ Cardinality(Seats') <= Cardinality(Seats)
    BY <2>3, FiniteSeats, FS_Subset, FS_CardinalityType
  <2>5. Charged \in Nat /\ Charged' \in Nat /\ Charged <= Charged'
    BY <2>1, SigningAssumption DEF Charged, TypeOK
  <2> QED BY <2>2, <2>4, <2>5, FiniteSeats
<1> QED BY <1>2, <1>3 DEF SeatsBounded

(* A seat of the running window is taken, within the limit.                   *)
LEMMA SeatTaken ==
  ASSUME TypeOK, SeatsBounded, windows' = windows, rate > 0, rate' > 0, rate' \in Nat,
         NEW i \in Ids, admitted' = [admitted EXCEPT ![i] = windows],
         Cardinality(Seats') <= Charged', IsFiniteSet(Seats')
  PROVE  SeatsBounded'
<1>1. windows > 0 /\ windows \in Nat
  BY DEF SeatsBounded, TypeOK
<1>2. ASSUME NEW w \in 1..windows
      PROVE  Cardinality(In(w)') <= RATE_LIMIT_MAX
  <2>1. CASE w = windows
    <3>1. In(w)' \subseteq Seats'
      BY <2>1 DEF Seats, In
    <3>2. Cardinality(In(w)') <= Cardinality(Seats')
      BY <3>1, FS_Subset
    <3>3. Cardinality(In(w)') \in Nat /\ Cardinality(Seats') \in Nat
      BY <3>1, FS_Subset, FS_CardinalityType
    <3>4. Charged' \in Nat /\ Charged' <= RATE_LIMIT_MAX
      BY SigningAssumption DEF Charged
    <3> QED BY <3>2, <3>3, <3>4, SigningAssumption
  <2>2. CASE w # windows
    <3>1. In(w)' \subseteq In(w)
      BY <2>2 DEF In, TypeOK
    <3>2. w \in Nat /\ Cardinality(In(w)) <= RATE_LIMIT_MAX
      BY <1>1 DEF SeatsBounded
    <3>3. IsFiniteSet(In(w)) /\ Cardinality(In(w)) \in Nat
      BY <3>2, FiniteSeats
    <3>4. Cardinality(In(w)') \in Nat /\ Cardinality(In(w)') <= Cardinality(In(w))
      BY <3>1, <3>3, FS_Subset, FS_CardinalityType
    <3> QED BY <3>2, <3>3, <3>4, SigningAssumption
  <2> QED BY <2>1, <2>2
<1> QED BY <1>1, <1>2 DEF SeatsBounded

(* A window begins: nobody was let through in it yet.                         *)
LEMMA FirstSeat ==
  ASSUME TypeOK, Admitted, SeatsBounded, windows' = windows + 1, rate' = 1,
         UNCHANGED admitted, NEW i \in Ids, Expiring' \subseteq {i}
  PROVE  SeatsBounded'
<1>1. windows \in Nat /\ \A w : In(w)' = In(w)
  BY DEF TypeOK, In
<1>2. In(windows + 1) = {}
  BY <1>1 DEF Admitted, In, TypeOK
<1>3. Cardinality({}) = 0 /\ IsFiniteSet({i}) /\ Cardinality({i}) = 1
  BY FS_EmptySet, FS_Singleton
<1>4. \A w \in 1..windows' : Cardinality(In(w)') <= RATE_LIMIT_MAX
  <2> TAKE w \in 1..windows'
  <2>1. CASE w = windows + 1
    BY <1>1, <1>2, <1>3, <2>1, SigningAssumption
  <2>2. CASE w # windows + 1
    BY <1>1, <2>2 DEF SeatsBounded
  <2> QED BY <2>1, <2>2
<1>5. Seats' \subseteq {i}
  BY <1>1, <1>2 DEF Seats, In
<1>6. Cardinality(Seats') <= 1
  BY <1>3, <1>5, FS_Subset
<1>7. Charged' = 1
  BY SigningAssumption DEF Charged
<1> QED BY <1>1, <1>4, <1>6, <1>7 DEF SeatsBounded

(* One seat more.                                                             *)
LEMMA SeatMore ==
  ASSUME NEW i, Seats' \subseteq Seats \cup {i}
  PROVE  /\ IsFiniteSet(Seats') /\ Cardinality(Seats') \in Nat
         /\ \A n \in Nat : Cardinality(Seats) <= n => Cardinality(Seats') <= n + 1
<1>1. IsFiniteSet(Seats) /\ Cardinality(Seats) \in Nat
  BY FiniteSeats
<1>2. /\ IsFiniteSet(Seats \cup {i}) /\ Cardinality(Seats \cup {i}) \in Nat
      /\ Cardinality(Seats \cup {i}) <= Cardinality(Seats) + 1
  BY <1>1, FS_AddElement, FS_CardinalityType
<1>3. /\ IsFiniteSet(Seats') /\ Cardinality(Seats') \in Nat
      /\ Cardinality(Seats') <= Cardinality(Seats \cup {i})
  BY <1>2, FS_Subset, FS_CardinalityType
<1> QED BY <1>1, <1>2, <1>3

(* A step that lets nobody through and begins no window.                      *)
LEMMA QuietMail ==
  ASSUME TypeOK, MailInv, UNCHANGED <<windows, admitted, rateTtl>>, Expiring' = Expiring,
         \A j \in Ids : Through(j)' => Through(j),
         rate' \in {rate, rate + 1}, rate' # rate => rate > 0
  PROVE  MailInv'
<1>1. Admitted'
  BY DEF MailInv, Admitted
<1>2. rate \in Nat /\ rate' \in {0, rate, rate + 1} /\ (rate' = rate + 1 => rate > 0)
  BY DEF TypeOK
<1>3. OneExpires'
  BY <1>2 DEF MailInv, OneExpires
<1>4. SeatsBounded'
  BY <1>2, NoSeat DEF MailInv
<1> QED BY <1>1, <1>3, <1>4 DEF MailInv

(* withinRateLimit counts a submission, and answers.                          *)
LEMMA CountMail ==
  ASSUME TypeOK, MailInv, NEW i \in Ids, Count(i)
  PROVE  MailInv'
<1>0. /\ rate' = rate + 1 /\ rate \in Nat /\ windows \in 0..MaxWindows /\ MaxWindows \in Nat
      /\ UNCHANGED <<pending, rateTtl>> /\ form[i] = "new" /\ i \notin Expiring
  BY SigningAssumption DEF Count, TypeOK, Expiring
<1>1. CASE rate = 0 /\ windows' = windows + 1 /\ Stop(i, "expire")
  <2>1. Expiring = {} /\ ~rateTtl
    BY <1>1 DEF MailInv, OneExpires
  <2>2. /\ Expiring' = {i} /\ UNCHANGED admitted
        /\ \A j \in Ids : Through(j)' => Through(j)
    BY <1>0, <1>1, <2>1 DEF Stop, FormTo, Expiring, Through, TypeOK
  <2>3. Admitted'
    BY <1>0, <1>1, <2>2 DEF Admitted, MailInv, TypeOK
  <2>4. OneExpires'
    BY <1>0, <1>1, <2>1, <2>2 DEF OneExpires
  <2>5. SeatsBounded'
    BY <1>0, <1>1, <2>2, FirstSeat DEF MailInv
  <2> QED BY <2>3, <2>4, <2>5 DEF MailInv
<1>2. CASE rate \in 1..(RATE_LIMIT_MAX - 1) /\ Pass(i) /\ windows' = windows
  <2>1. rate > 0 /\ windows > 0 /\ Cardinality(Seats) <= Charged
    BY <1>0, <1>2 DEF MailInv, SeatsBounded
  <2>2. /\ admitted' = [admitted EXCEPT ![i] = windows]
        /\ Expiring' = Expiring
        /\ \A j \in Ids : Through(j)' => Through(j) \/ j = i
    BY <1>0, <1>2 DEF Pass, FormTo, Expiring, Through, TypeOK
  <2>3. Admitted'
    BY <1>0, <1>2, <2>1, <2>2 DEF Admitted, MailInv, TypeOK
  <2>4. OneExpires'
    BY <1>0, <2>2 DEF OneExpires, MailInv
  <2>5. Seats' \subseteq Seats \cup {i}
    BY <1>2, <2>2 DEF Seats, In, TypeOK
  <2>6. Charged' = Charged + 1 /\ Charged \in Nat
    BY <1>0, <1>2, ChargedType, SigningAssumption
  <2>7. IsFiniteSet(Seats') /\ Cardinality(Seats') <= Charged'
    BY <2>1, <2>5, <2>6, SeatMore
  <2>8. SeatsBounded'
    <3>1. rate' > 0 /\ rate' \in Nat /\ windows' = windows
      BY <1>0, <1>2
    <3> QED BY <2>1, <2>2, <2>7, <3>1, SeatTaken DEF MailInv
  <2> QED BY <2>3, <2>4, <2>8 DEF MailInv
<1>3. CASE rate >= RATE_LIMIT_MAX /\ Stop(i, "limited") /\ windows' = windows
  <2>1. /\ Expiring' = Expiring /\ UNCHANGED admitted
        /\ \A j \in Ids : Through(j)' => Through(j)
    BY <1>0, <1>3 DEF Stop, FormTo, Expiring, Through, TypeOK
  <2>2. rate > 0
    BY <1>0, <1>3, SigningAssumption
  <2> QED BY <1>0, <1>3, <2>1, <2>2, QuietMail
<1> QED BY <1>1, <1>2, <1>3 DEF Count, NewWindow

(* EXPIRE answers, or its answer is lost.                                     *)
LEMMA SetExpiryMail ==
  ASSUME TypeOK, MailInv, NEW i \in Ids, SetExpiry(i)
  PROVE  MailInv'
<1>0. /\ rate \in Nat /\ windows \in 0..MaxWindows /\ MaxWindows \in Nat
      /\ UNCHANGED <<pending, rate, windows>> /\ i \in Expiring
  BY SigningAssumption DEF SetExpiry, TypeOK, Expiring
<1>1. Expiring = {i} /\ rate > 0 /\ windows > 0 /\ Cardinality(Seats) <= Charged
  BY <1>0 DEF MailInv, OneExpires, SeatsBounded
<1>2. Expiring' = {}
  BY <1>0, <1>1 DEF SetExpiry, Pass, Stop, FormTo, Expiring, TypeOK
<1>3. OneExpires'
  BY <1>0, <1>1, <1>2 DEF OneExpires
<1>4. CASE Pass(i)
  <2>1. /\ admitted' = [admitted EXCEPT ![i] = windows]
        /\ \A j \in Ids : Through(j)' => Through(j) \/ j = i
    BY <1>0, <1>4 DEF Pass, FormTo, Through, TypeOK
  <2>2. Admitted'
    BY <1>0, <1>1, <2>1 DEF Admitted, MailInv, TypeOK
  <2>3. Seats' \subseteq Seats
    BY <1>0, <1>1, <1>2, <2>1 DEF Seats, In, TypeOK
  <2>4. IsFiniteSet(Seats') /\ Cardinality(Seats') \in Nat
        /\ Cardinality(Seats') <= Cardinality(Seats)
    BY <2>3, FiniteSeats, FS_Subset, FS_CardinalityType
  <2>5. Charged' = Charged /\ Charged \in Nat
    BY <1>0, ChargedType, SigningAssumption DEF Charged
  <2>6. Cardinality(Seats') <= Charged'
    BY <1>1, <2>4, <2>5, FiniteSeats
  <2>7. SeatsBounded'
    BY <1>0, <1>1, <2>1, <2>4, <2>6, SeatTaken DEF MailInv
  <2> QED BY <1>3, <2>2, <2>7 DEF MailInv
<1>5. CASE Stop(i, "failed")
  <2>1. UNCHANGED admitted /\ \A j \in Ids : Through(j)' => Through(j)
    BY <1>0, <1>5 DEF Stop, FormTo, Through, TypeOK
  <2>2. Admitted'
    BY <1>0, <2>1 DEF Admitted, MailInv
  <2>3. SeatsBounded'
    <3>1. Expiring' \subseteq Expiring /\ rate' = rate /\ rate # rate + 1
      BY <1>0, <1>2
    <3> QED BY <1>0, <2>1, <3>1, NoSeat DEF MailInv
  <2> QED BY <1>3, <2>2, <2>3 DEF MailInv
<1> QED BY <1>4, <1>5 DEF SetExpiry

(* The answer to INCR is lost: a window may begin that lets nobody through.   *)
LEMMA CountThrowsMail ==
  ASSUME TypeOK, MailInv, NEW i \in Ids, CountThrows(i)
  PROVE  MailInv'
<1>0. /\ rate \in Nat /\ windows \in 0..MaxWindows /\ MaxWindows \in Nat
      /\ UNCHANGED <<pending, rateTtl, admitted>>
  BY SigningAssumption DEF CountThrows, Stop, TypeOK
<1>1. Expiring' = Expiring /\ \A j \in Ids : Through(j)' => Through(j)
  BY <1>0 DEF CountThrows, Stop, FormTo, Expiring, Through, TypeOK
<1>2. CASE rate = 0 /\ rate' = rate + 1 /\ windows' = windows + 1
  <2>1. Expiring = {} /\ ~rateTtl
    BY <1>2 DEF MailInv, OneExpires
  <2>2. Admitted'
    BY <1>0, <1>1, <1>2 DEF Admitted, MailInv, TypeOK
  <2>3. OneExpires'
    BY <1>0, <1>1, <1>2, <2>1 DEF OneExpires
  <2>4. SeatsBounded'
    BY <1>0, <1>1, <1>2, <2>1, FirstSeat DEF MailInv
  <2> QED BY <2>2, <2>3, <2>4 DEF MailInv
<1>3. CASE windows' = windows /\ rate' \in {rate, rate + 1} /\ (rate' # rate => rate > 0)
  BY <1>0, <1>1, <1>3, QuietMail
<1> QED BY <1>0, <1>2, <1>3 DEF CountThrows, NewWindow

(* Every step keeps the limit.                                               *)
LEMMA MailStep == TypeOK /\ MailInv /\ [Next]_vars => MailInv'
<1> SUFFICES ASSUME TypeOK, MailInv, [Next]_vars PROVE MailInv'
  OBVIOUS
<1>1. ASSUME NEW i \in Ids, Reject(i) \/ putPending(i) \/ sendConfirmationEmail(i)
      PROVE  MailInv'
  <2>1. UNCHANGED rateVars
    BY <1>1 DEF Reject, putPending, sendConfirmationEmail
  <2>2. Expiring' = Expiring /\ \A j \in Ids : Through(j)' => Through(j)
    BY <1>1 DEF Reject, putPending, sendConfirmationEmail, FormTo, Expiring, Through, TypeOK
  <2> QED BY <2>1, <2>2, QuietMail DEF rateVars
<1>2. CASE WindowEnds
  <2>1. Expiring = {} /\ rateTtl
    BY <1>2 DEF WindowEnds, MailInv, OneExpires
  <2>2. /\ Expiring' = {} /\ rate' = 0 /\ rateTtl' = FALSE
        /\ UNCHANGED <<windows, admitted>>
        /\ \A j \in Ids : Through(j)' => Through(j)
    BY <1>2, <2>1 DEF WindowEnds, Expiring, Through
  <2>3. Admitted'
    BY <2>2 DEF Admitted, MailInv
  <2>4. OneExpires'
    BY <2>2 DEF OneExpires
  <2>5. SeatsBounded'
    <3>1. Expiring' \subseteq Expiring /\ (rate' = rate + 1 => rate > 0)
      BY <2>2 DEF TypeOK
    <3> QED BY <2>2, <3>1, NoSeat DEF MailInv
  <2> QED BY <2>3, <2>4, <2>5 DEF MailInv
<1>3. ASSUME UNCHANGED <<form, rateVars>>, \A j \in Ids : pending'[j] # "none" => pending[j] # "none"
      PROVE  MailInv'
  <2>1. Expiring' = Expiring /\ \A j \in Ids : Through(j)' => Through(j)
    BY <1>3 DEF Expiring, Through
  <2> QED BY <1>3, <2>1, QuietMail DEF rateVars
<1>4. ASSUME NEW i \in Ids, PendingExpires(i)
      PROVE  MailInv'
  BY <1>3, <1>4 DEF PendingExpires, TypeOK
<1>5. ASSUME NEW q \in Requests, deletePending(q)
      PROVE  MailInv'
  <2>1. UNCHANGED <<form, rateVars>> /\ (Burn(req[q].id) \/ UNCHANGED pending)
    BY <1>5 DEF deletePending, SameForm, rateVars
  <2>2. \A j \in Ids : pending'[j] # "none" => pending[j] # "none"
    BY <2>1 DEF Burn, TypeOK
  <2> QED BY <1>3, <2>1, <2>2
<1>6. ASSUME NEW q \in Requests, ConfirmStep(q) \/ WithdrawStep(q), ~deletePending(q)
      PROVE  MailInv'
  <2>1. SameForm /\ UNCHANGED pending
    BY <1>6, Zenon DEF ConfirmStep, WithdrawStep, readPending, writeSignatory, readSignatory,
       ensureRepoBranch, ProbeCandidates, DeleteFile, ReadLog, AppendLog, ReadThrows, storeVars
  <2> QED BY <1>3, <2>1 DEF SameForm, rateVars
<1>7. ASSUME NEW q \in Requests, NEW i \in Ids, NEW kind \in {"confirm", "withdraw"},
             Open(q, i, kind)
      PROVE  MailInv'
  BY <1>3, <1>7 DEF Open, SameForm, rateVars, storeVars
<1>8. CASE NewYear
  BY <1>3, <1>8 DEF NewYear, rateVars, storeVars
<1>9. CASE UNCHANGED vars
  BY <1>3, <1>9 DEF vars, rateVars, storeVars
<1>10. ASSUME NEW i \in Ids, FormStep(i)
       PROVE  MailInv'
  BY <1>1, <1>10, CountMail, SetExpiryMail, CountThrowsMail DEF FormStep
<1>11. CASE Next
  BY <1>2, <1>4, <1>5, <1>6, <1>7, <1>8, <1>10, <1>11, NextCases
<1> QED BY <1>9, <1>11

(* withinRateLimit: in each window no more submissions than the limit allows  *)
(* are let through, and only these store and send, whatever calls fail and    *)
(* whoever else submits; a submission that failed later keeps its place.      *)
THEOREM LimitHolds == Spec => []MailBounded
<1>1. Init => MailInv
  <2> SUFFICES ASSUME Init PROVE MailInv
    OBVIOUS
  <2>1. Expiring = {} /\ rate = 0 /\ ~rateTtl /\ windows = 0
    BY DEF Init, Expiring
  <2>2. \A i \in Ids : ~Through(i) /\ admitted[i] = 0
    BY DEF Init, Through
  <2> QED BY <2>1, <2>2 DEF MailInv, Admitted, OneExpires, SeatsBounded
<1>2. TypeOK /\ MailInv /\ [Next]_vars => MailInv'
  BY MailStep
<1>3. MailInv => MailBounded
  BY DEF MailInv, Admitted, SeatsBounded, MailBounded, In
<1> QED BY <1>1, <1>2, <1>3, Typed, PTL DEF Spec

============================================================================
