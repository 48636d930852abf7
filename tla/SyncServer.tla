----------------------------- MODULE SyncServer -----------------------------
(***************************************************************************)
(* Incremental sync of one mutable_state stream, as the conformance        *)
(* suite's reference resource server implements it:                        *)
(* packages/conformance-suite/src/targets/reference-server.ts.             *)
(*                                                                         *)
(* The server stamps every write and every deletion with the next version  *)
(* and keeps no session state: a page cursor carries the offset, the       *)
(* session horizon and the version the session started from.  The owner    *)
(* writes and deletes between any two pages.  The client is the one the    *)
(* specification describes (spec/spec-core.md:249): changes_since on the   *)
(* first request, next_cursor afterwards, next_changes_since kept for the  *)
(* next session, a full re-sync after 410.                                 *)
(*                                                                         *)
(* What is abstracted: the value of a field is the version that wrote it;  *)
(* the array of seeded records is a set with the position Pos of each      *)
(* record; the list of a response is the set of its ids, in the order      *)
(* Before.  The grant carries no time constraint and one instance.         *)
(***************************************************************************)
EXTENDS FiniteSets, Naturals

CONSTANTS
  Records,      \* the ids of the seeded records
  Pos,          \* their positions in the fixture, 1 .. Cardinality(Records)
  Fields,       \* the fields of the stream
  Clients,      \* the grants that sync it
  Projection,   \* the fields each grant may see
  Limits,       \* the values of the limit parameter
  MaxVersion    \* bound on versionClock, so that the owner stops writing

ASSUME SyncAssumption ==
  /\ IsFiniteSet(Records)
  /\ Pos \in [Records -> Nat \ {0}]
  /\ \A r, s \in Records : Pos[r] = Pos[s] => r = s
  /\ \A r \in Records : Pos[r] <= Cardinality(Records)
  /\ Projection \in [Clients -> (SUBSET Fields) \ {{}}]
  /\ Limits \subseteq Nat \ {0}
  /\ MaxVersion \in Nat

VARIABLES
  live,            \* the records the stream still holds
  versionClock,    \* the last version issued
  recordVersions,  \* the version of the last write or deletion of a record
  changedFields,   \* the fields that last write touched
  tombstones,      \* the version of a record's deletion, 0 while it is live
  content,         \* per record and field, the version that wrote its value
  expiredSyncTokens, \* the changes_since tokens the server has retired
  token,           \* per client, the next_changes_since it stored; 0 is ""
  session,         \* per client, the open session its page cursor describes
  held,            \* per client, the records of its copy
  copy,            \* per client, record and field, the value it received
  page,            \* per client, the ids of the last page
  seen,            \* history: the ids delivered in this session
  anchor,          \* history: versionClock when this session was opened
  missed           \* history: the records that can no longer be delivered

server == <<live, versionClock, recordVersions, changedFields, tombstones, content>>
client == <<token, session, held, copy, page, seen, anchor>>
vars == <<server, expiredSyncTokens, client, missed>>

Sessions == [open : BOOLEAN, from : Nat, horizon : Nat, offset : Nat]

TypeOK ==
  /\ live \subseteq Records
  /\ versionClock \in Nat
  /\ recordVersions \in [Records -> Nat]
  /\ changedFields \in [Records -> SUBSET Fields]
  /\ tombstones \in [Records -> Nat]
  /\ content \in [Records -> [Fields -> Nat]]
  /\ expiredSyncTokens \subseteq Nat
  /\ token \in [Clients -> Nat]
  /\ session \in [Clients -> Sessions]
  /\ held \in [Clients -> SUBSET Records]
  /\ copy \in [Clients -> [Records -> [Fields -> Nat]]]
  /\ page \in [Clients -> SUBSET Records]
  /\ seen \in [Clients -> SUBSET Records]
  /\ anchor \in [Clients -> Nat]
  /\ missed \in [Clients -> SUBSET Records]

(* The constructor stamps each seeded record with a version of its own and *)
(* counts every field as changed.                                          *)
Init ==
  /\ live = Records
  /\ versionClock = Cardinality(Records)
  /\ recordVersions = Pos
  /\ changedFields = [r \in Records |-> Fields]
  /\ tombstones = [r \in Records |-> 0]
  /\ content = [r \in Records |-> [f \in Fields |-> Pos[r]]]
  /\ expiredSyncTokens = {}
  /\ token = [c \in Clients |-> 0]
  /\ session = [c \in Clients |-> [open |-> FALSE, from |-> 0, horizon |-> 0, offset |-> 0]]
  /\ held = [c \in Clients |-> {}]
  /\ copy = [c \in Clients |-> [r \in Records |-> [f \in Fields |-> 0]]]
  /\ page = [c \in Clients |-> {}]
  /\ seen = [c \in Clients |-> {}]
  /\ anchor = [c \in Clients |-> 0]
  /\ missed = [c \in Clients |-> {}]

-----------------------------------------------------------------------------
(* Mutant: eligibility on the unprojected record. *)
Eligible_unprojected(c, r, from, horizon) ==
  r \in live /\ recordVersions[r] > from /\ recordVersions[r] <= horizon

(* eligibleForSync: the version lies in the window of the session and the  *)
(* write touched a field of the grant-authorized projection.               *)
Eligible(c, r, from, horizon) ==
  /\ r \in live
  /\ recordVersions[r] > from /\ recordVersions[r] <= horizon
  /\ changedFields[r] \cap Projection[c] # {}

(* deletions: the tombstones of the window, whatever the projection. *)
Deletion(r, from, horizon) == tombstones[r] > from /\ tombstones[r] <= horizon

Data(c, from, horizon) ==
  {r \in Records : Eligible(c, r, from, horizon) \/ Deletion(r, from, horizon)}

(* data = [...live, ...deletions]: fixture order, then deletion order. *)
Before(r, s) ==
  \/ r \in live /\ s \notin live
  \/ r \in live /\ s \in live /\ Pos[r] < Pos[s]
  \/ r \notin live /\ s \notin live /\ tombstones[r] < tombstones[s]

Index(r, D) == Cardinality({s \in D : Before(s, r)})

(* data.slice(cursorOffset, cursorOffset + effectiveLimit). *)
Window(D, offset, limit) ==
  {r \in D : offset <= Index(r, D) /\ Index(r, D) < offset + limit}

(* Mutant: the cursor of the next page repeats the offset of this one. *)
NextOffset_stuck(offset, rows) == offset

NextOffset(offset, rows) == offset + Cardinality(rows)

(* Mutant: the terminal token names the clock, not the session's horizon. *)
NextChangesSince_now(horizon) == versionClock

NextChangesSince(horizon) == horizon

(* The copy of a client agrees with the stream on what it may see of r. *)
Exact(c, r) ==
  /\ r \in held[c] <=> r \in live
  /\ r \in live => \A f \in Projection[c] : copy[c][r][f] = content[r][f]

-----------------------------------------------------------------------------
Touched(r, f) == {f}

(* writeField: a new stamp, and changedFields is replaced by this field.   *)
(* A write outside a projection hides the visible change before it.        *)
WriteField(r, f) ==
  /\ r \in live /\ versionClock < MaxVersion
  /\ versionClock' = versionClock + 1
  /\ content' = [content EXCEPT ![r] = [@ EXCEPT ![f] = versionClock + 1]]
  /\ recordVersions' = [recordVersions EXCEPT ![r] = versionClock + 1]
  /\ changedFields' = [changedFields EXCEPT ![r] = Touched(r, f)]
  /\ missed' = [c \in Clients |->
       missed[c] \cup (IF f \notin Projection[c] /\ ~Exact(c, r) THEN {r} ELSE {})]
  /\ UNCHANGED <<live, tombstones, expiredSyncTokens, client>>

(* deleteRecord: the record leaves the stream, a stamped tombstone stays. *)
DeleteRecord(r) ==
  /\ r \in live /\ versionClock < MaxVersion
  /\ live' = live \ {r}
  /\ versionClock' = versionClock + 1
  /\ tombstones' = [tombstones EXCEPT ![r] = versionClock + 1]
  /\ recordVersions' = [recordVersions EXCEPT ![r] = versionClock + 1]
  /\ UNCHANGED <<changedFields, content, expiredSyncTokens, client, missed>>

(* expireSyncCursor retires one exact token; "" is never looked up. *)
ExpireSyncCursor(t) ==
  /\ t # 0 /\ t \notin expiredSyncTokens
  /\ expiredSyncTokens' = expiredSyncTokens \cup {t}
  /\ UNCHANGED <<server, client, missed>>

-----------------------------------------------------------------------------
(* One page of the records handler, and the client's use of it: rows       *)
(* replace the copy, tombstones remove from it, the terminal page's token  *)
(* is stored.                                                              *)
ServePage(c, from, horizon, offset, limit, earlier) ==
  LET D    == Data(c, from, horizon)
      rows == Window(D, offset, limit)
      next == NextOffset(offset, rows)
      more == next < Cardinality(D)
      lost == {r \in D : Index(r, D) < next} \ (earlier \cup rows)
  IN  /\ page' = [page EXCEPT ![c] = rows]
      /\ seen' = [seen EXCEPT ![c] = earlier \cup rows]
      /\ held' = [held EXCEPT ![c] = (@ \cup (rows \cap live)) \ (rows \ live)]
      /\ copy' = [copy EXCEPT ![c] = [r \in Records |->
           IF r \in rows \cap live
           THEN [f \in Fields |-> IF f \in Projection[c] THEN content[r][f] ELSE 0]
           ELSE @[r]]]
      /\ session' = [session EXCEPT ![c] =
           [open |-> more, from |-> from, horizon |-> horizon, offset |-> next]]
      /\ token' = [token EXCEPT ![c] = IF more THEN @ ELSE NextChangesSince(horizon)]
      /\ missed' = [missed EXCEPT ![c] = (@ \ rows) \cup (IF more THEN {} ELSE lost)]

(* changes_since on a first request: the horizon is the current version. *)
OpenSession(c, limit) ==
  /\ ~session[c].open
  /\ token[c] \notin expiredSyncTokens
  /\ ServePage(c, token[c], versionClock, 0, limit, {})
  /\ anchor' = [anchor EXCEPT ![c] = versionClock]
  /\ UNCHANGED <<server, expiredSyncTokens>>

(* Mutant: every page reads the clock again. *)
ContinueSession_reanchored(c, limit) ==
  /\ session[c].open
  /\ ServePage(c, session[c].from, versionClock, session[c].offset, limit, seen[c])
  /\ UNCHANGED <<server, expiredSyncTokens, anchor>>

(* The cursor carries the offset, the horizon and the lower bound. *)
ContinueSession(c, limit) ==
  /\ session[c].open
  /\ ServePage(c, session[c].from, session[c].horizon, session[c].offset, limit, seen[c])
  /\ UNCHANGED <<server, expiredSyncTokens, anchor>>

(* 410 cursor_expired, on a first request or on a later page that repeats  *)
(* its changes_since: the client discards its copy and starts over.        *)
CursorExpired(c) ==
  /\ token[c] \in expiredSyncTokens
  /\ token' = [token EXCEPT ![c] = 0]
  /\ session' = [session EXCEPT ![c] = [open |-> FALSE, from |-> 0, horizon |-> 0, offset |-> 0]]
  /\ held' = [held EXCEPT ![c] = {}]
  /\ page' = [page EXCEPT ![c] = {}]
  /\ seen' = [seen EXCEPT ![c] = {}]
  /\ missed' = [missed EXCEPT ![c] = {r \in live : changedFields[r] \cap Projection[c] = {}}]
  /\ UNCHANGED <<server, expiredSyncTokens, copy, anchor>>

Next ==
  \/ \E r \in Records : DeleteRecord(r) \/ \E f \in Fields : WriteField(r, f)
  \/ \E c \in Clients : ExpireSyncCursor(token[c])
  \/ \E c \in Clients : CursorExpired(c)
  \/ \E c \in Clients, limit \in Limits : OpenSession(c, limit) \/ ContinueSession(c, limit)

Spec == Init /\ [][Next]_vars

(* A client follows the cursor of an open session. *)
Fairness == \A c \in Clients : WF_vars(\E limit \in Limits : ContinueSession(c, limit))

FairSpec == Spec /\ Fairness

-----------------------------------------------------------------------------
(* eligibleForSync, clause 8.9-13: a live record is delivered only if a    *)
(* field the grant may see has changed since the session's changes_since.  *)
NoHiddenChange ==
  \A c \in Clients : \A r \in seen[c] \cap live :
    \E f \in Projection[c] : content[r][f] > session[c].from

(* The session horizon, clause 8.9-14: nothing in the client's copy was    *)
(* written after the first page of the session that delivered it.          *)
AnchoredToFirstPage ==
  \A c \in Clients : \A r \in held[c], f \in Projection[c] :
    copy[c][r][f] <= anchor[c]

(* Offset paging: whatever is written or deleted between two pages, no     *)
(* record is delivered twice in one session.                               *)
OncePerSession ==
  [][\A c \in Clients :
       (\E limit \in Limits : ContinueSession(c, limit)) => page'[c] \cap seen[c] = {}]_vars

(* next_changes_since, clause 8.9-15: once a session is complete the copy  *)
(* agrees with the stream on every record whose last change the token      *)
(* covers, the two kinds of records in `missed` excepted.                  *)
CaughtUp ==
  \A c \in Clients : ~session[c].open =>
    \A r \in Records \ missed[c] : recordVersions[r] <= token[c] => Exact(c, r)

(* spec/spec-core.md:245, "changes_since returns the full current state of *)
(* each record whose grant-authorized projection changed since the cursor  *)
(* position, plus tombstones for deletions": as CaughtUp, for all records. *)
NoGap ==
  \A c \in Clients : ~session[c].open =>
    \A r \in Records : recordVersions[r] <= token[c] => Exact(c, r)

(* The page cursor: a client that follows the cursor reaches the terminal  *)
(* page, however the stream changes meanwhile.                             *)
SessionEnds == \A c \in Clients : session[c].open ~> ~session[c].open

=============================================================================
