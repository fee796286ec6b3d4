------------------------------ MODULE Penalties ------------------------------
(***************************************************************************)
(* Warnings, bans and appeals: PenaltyService, AppealService, the ban      *)
(* check that guards every endpoint of an active user, and the deduction   *)
(* an active penalty makes from the stored trust score.                    *)
(*                                                                         *)
(* As in ContentFlags, a handler is a request in a slot of req and a step  *)
(* is one of its transactions, cut between a read and the write that       *)
(* depends on it.                                                          *)
(***************************************************************************)
EXTENDS Integers, FiniteSets

CONSTANTS
  Requests,      \* request slots: how many handlers run at once
  Users,
  IssuedLevels,  \* the penalty types that admins issue, as places in PENALTY_ORDER
  MaxPenalties,  \* bound: rows ever inserted into user_penalties
  ExpiryRuns,    \* does anybody call expire_penalties?  Nothing in the code does
  Failures       \* may a request die between two of its steps?

ASSUME UsersAssumption == Users # {}
ASSUME BoundAssumption == MaxPenalties \in Nat /\ IssuedLevels \subseteq 0..4
ASSUME ModeAssumption == ExpiryRuns \in BOOLEAN /\ Failures \in BOOLEAN

VARIABLES
  lastId,     \* the id sequence of user_penalties; ids are in order of issued_at
  penalties,  \* the rows, each with the status of its appeal
  docked,     \* docked[u]: the stored trust score has the deduction for a penalty
  shown,      \* shown[u]: some content of u is visible, that is, not soft-deleted
  req         \* the request running in each slot

vars == <<lastId, penalties, docked, shown, req>>

-----------------------------------------------------------------------------
(* Rows *)

\* PENALTY_ORDER
WARNING == 0
TEMP_BAN_24H == 1
TEMP_BAN_7D == 2
TEMP_BAN_30D == 3
PERMANENT_BAN == 4
Levels == WARNING..PERMANENT_BAN

\* A warning's duration is 0, which issue_penalty takes for no expiry at all.
Expires(level) == level \in {TEMP_BAN_24H, TEMP_BAN_7D, TEMP_BAN_30D}

PenaltyStatus == {"active", "expired", "appealed", "revoked"}
AppealStatus == {"none", "pending", "approved", "rejected"}

\* lapsed: the time expires_at has come.  uq_appeal_penalty: one appeal each.
PenaltyRow == [user : Users, level : Levels, status : PenaltyStatus,
               appeal : AppealStatus, lapsed : BOOLEAN]

Ids == 1..lastId
InForce(p) == penalties[p].status = "active" /\ ~penalties[p].lapsed
Active(u) == {p \in Ids : penalties[p].user = u /\ InForce(p)}
\* Mutant of Newest: the rows are sorted the other way.
Oldest(S) == CHOOSE p \in S : \A o \in S : o >= p
Newest(S) == CHOOSE p \in S : \A o \in S : o <= p

\* get_active_penalty is the newest one in force; check_user_banned asks
\* whether that one is a ban.
Banned(u) == Active(u) # {} /\ penalties[Newest(Active(u))].level # WARNING

SetStatus(p, status) == penalties' = [penalties EXCEPT ![p].status = status]

-----------------------------------------------------------------------------
(* Requests *)

Steps == {"idle", "publish", "insert", "revoke", "submit", "load", "reject",
          "score", "rescore", "approved"}

\* op: what the request does; u and p: the user and the penalty it is about;
\* level, bulk: the penalty to issue; seen: the status it loaded; was and
\* due: the deduction it loaded and the one it computed.
Request == [pc : Steps, op : {"none", "publish", "issue", "revoke", "submit", "approve", "reject"},
            u : Users, p : Nat, level : Levels, bulk : BOOLEAN,
            seen : PenaltyStatus, was : BOOLEAN, due : BOOLEAN]

Idle == [pc |-> "idle", op |-> "none", u |-> CHOOSE u \in Users : TRUE, p |-> 0,
         level |-> WARNING, bulk |-> FALSE, seen |-> "active", was |-> FALSE, due |-> FALSE]

At(q, step) == req[q].pc = step
Goto(q, r) == req' = [req EXCEPT ![q] = r]
Finish(q) == Goto(q, Idle)

\* Rows that a running request may still insert; keeps within MaxPenalties.
Inserting == {q \in Requests : At(q, "insert")}
RoomForPenalty == lastId + Cardinality(Inserting) < MaxPenalties

Init ==
  /\ lastId = 0
  /\ penalties = [p \in 1..0 |-> 0]
  /\ docked = [u \in Users |-> FALSE]
  /\ shown = [u \in Users |-> FALSE]
  /\ req = [q \in Requests |-> Idle]

-----------------------------------------------------------------------------
(* Requests that arrive, each up to its first write *)

\* Any endpoint behind get_current_active_user that publishes content.
Publish(q, u) ==
  /\ At(q, "idle") /\ ~Banned(u)
  /\ Goto(q, [Idle EXCEPT !.pc = "publish", !.op = "publish", !.u = u])
  /\ UNCHANGED <<lastId, penalties, docked, shown>>

\* issue_penalty: a new penalty must be above the newest one in force.
MayIssue(u, level) ==
  Active(u) # {} => level > penalties[Newest(Active(u))].level

IssuePenalty(q, u, level, bulk) ==
  /\ At(q, "idle") /\ RoomForPenalty
  /\ MayIssue(u, level)
  /\ Goto(q, [Idle EXCEPT !.pc = "insert", !.op = "issue", !.u = u, !.level = level,
                          !.bulk = bulk])
  /\ UNCHANGED <<lastId, penalties, docked, shown>>

RevokePenalty(q, p) ==
  /\ At(q, "idle") /\ penalties[p].status = "active"
  /\ Goto(q, [Idle EXCEPT !.pc = "revoke", !.op = "revoke", !.p = p, !.u = penalties[p].user])
  /\ UNCHANGED <<lastId, penalties, docked, shown>>

\* can_appeal.  The user may be banned, and the penalty may have lapsed.
CanAppeal(p) ==
  /\ penalties[p].appeal = "none"
  /\ penalties[p].status = "active"
  /\ penalties[p].level # WARNING

SubmitAppeal(q, p) ==
  /\ At(q, "idle") /\ CanAppeal(p)
  /\ Goto(q, [Idle EXCEPT !.pc = "submit", !.op = "submit", !.p = p, !.u = penalties[p].user])
  /\ UNCHANGED <<lastId, penalties, docked, shown>>

ReviewAppeal(q, p, action) ==
  /\ At(q, "idle") /\ penalties[p].appeal = "pending"
  /\ Goto(q, [Idle EXCEPT !.pc = "load", !.op = action, !.p = p, !.u = penalties[p].user])
  /\ UNCHANGED <<lastId, penalties, docked, shown>>

\* expire_old_penalties, one UPDATE of all rows whose time has come.
ExpirePenalties(q) ==
  /\ At(q, "idle") /\ ExpiryRuns
  /\ \E p \in Ids : penalties[p].status = "active" /\ penalties[p].lapsed
  /\ penalties' = [p \in Ids |->
       IF penalties[p].status = "active" /\ penalties[p].lapsed
       THEN [penalties[p] EXCEPT !.status = "expired"] ELSE penalties[p]]
  /\ UNCHANGED <<lastId, docked, shown, req>>

-----------------------------------------------------------------------------
(* Steps of a running request *)

PublishContent(q) ==
  /\ At(q, "publish") /\ Finish(q)
  /\ shown' = [shown EXCEPT ![req[q].u] = TRUE]
  /\ UNCHANGED <<lastId, penalties, docked>>

\* The penalty is committed; the user's trust score is next.
\* Mutant of ToScore: the handler ends here.
ToIdle(r) == Idle
ToScore(r) == [Idle EXCEPT !.pc = "score", !.op = r.op, !.u = r.u]

\* A ban may soft-delete everything its user wrote, in the same transaction.
InsertPenalty(q) ==
  /\ At(q, "insert")
  /\ LET r == req[q]
         row == [user |-> r.u, level |-> r.level, status |-> "active",
                 appeal |-> "none", lapsed |-> FALSE]
     IN /\ lastId' = lastId + 1
        /\ penalties' = [p \in 1..(lastId + 1) |-> IF p = lastId + 1 THEN row ELSE penalties[p]]
        /\ shown' = [shown EXCEPT ![r.u] = @ /\ ~(r.bulk /\ r.level # WARNING)]
        /\ Goto(q, ToScore(r))
  /\ UNCHANGED docked

\* revoke_penalty writes what it decided when it found the penalty active.
Revoke(q) ==
  /\ At(q, "revoke")
  /\ SetStatus(req[q].p, "revoked")
  /\ Goto(q, ToScore(req[q]))
  /\ UNCHANGED <<lastId, docked, shown>>

\* submit_appeal: the appeal and the suspension are one transaction, which the
\* unique constraint refuses when somebody appealed in between.
Submit(q) ==
  /\ At(q, "submit") /\ Finish(q)
  /\ LET p == req[q].p
     IN IF penalties[p].appeal = "none"
        THEN penalties' = [penalties EXCEPT ![p].appeal = "pending", ![p].status = "appealed"]
        ELSE UNCHANGED penalties
  /\ UNCHANGED <<lastId, docked, shown>>

\* review_appeal loads the penalty after it found the appeal pending.
LoadPenalty(q) ==
  /\ At(q, "load")
  /\ Goto(q, [req[q] EXCEPT !.seen = penalties[req[q].p].status,
                            !.pc = IF req[q].op = "approve" THEN "score" ELSE "reject"])
  /\ UNCHANGED <<lastId, penalties, docked, shown>>

\* The UPDATE is left out when the status is the one that was loaded.
\* Mutants of Written: the assignment is lost, its two values are swapped, the
\* wrong column is copied.
WrittenNever(p, seen, status) == penalties[p].status
WrittenSwapped(p, seen, status) == IF status = "revoked" THEN "active" ELSE "revoked"
WrittenFromAppeal(p, seen, status) == penalties[p].appeal
Written(p, seen, status) == IF status = seen THEN penalties[p].status ELSE status

\* A rejection reactivates the penalty and closes the appeal in one commit.
Reject(q) ==
  /\ At(q, "reject") /\ Finish(q)
  /\ LET p == req[q].p
     IN penalties' = [penalties EXCEPT ![p].status = Written(p, req[q].seen, "active"),
                                       ![p].appeal = "rejected"]
  /\ UNCHANGED <<lastId, docked, shown>>

\* calculate_trust_score, which sees what is committed: the session does not
\* flush the revocation of an approved appeal before this query.
ReadScore(q) ==
  /\ At(q, "score")
  /\ Goto(q, [req[q] EXCEPT !.pc = "rescore", !.was = docked[req[q].u],
                            !.due = (Active(req[q].u) # {})])
  /\ UNCHANGED <<lastId, penalties, docked, shown>>

\* update_user_trust_score commits.  When the deduction is as loaded the score
\* may still differ in its other parts, and be written.  For an approval this
\* commit also holds the revocation; the appeal is closed by the next.
SaveScore(q) ==
  /\ At(q, "rescore")
  /\ LET r == req[q]
     IN /\ \/ docked' = [docked EXCEPT ![r.u] = r.due]
           \/ r.due = r.was /\ UNCHANGED docked
        /\ IF r.op = "approve"
           THEN /\ SetStatus(r.p, Written(r.p, r.seen, "revoked"))
                /\ Goto(q, [r EXCEPT !.pc = "approved"])
           ELSE /\ Finish(q)
                /\ UNCHANGED penalties
  /\ UNCHANGED <<lastId, shown>>

Approve(q) ==
  /\ At(q, "approved") /\ Finish(q)
  /\ penalties' = [penalties EXCEPT ![req[q].p].appeal = "approved"]
  /\ UNCHANGED <<lastId, docked, shown>>

\* The process is killed or the connection lost.
Fail(q) ==
  /\ Failures /\ ~At(q, "idle")
  /\ Finish(q)
  /\ UNCHANGED <<lastId, penalties, docked, shown>>

\* expires_at comes, of what was issued earlier for no longer a time first.
Elapse(p) ==
  /\ Expires(penalties[p].level) /\ ~penalties[p].lapsed
  /\ \A o \in Ids : o < p /\ Expires(penalties[o].level) /\ penalties[o].level <= penalties[p].level
       => penalties[o].lapsed
  /\ penalties' = [penalties EXCEPT ![p].lapsed = TRUE]
  /\ UNCHANGED <<lastId, docked, shown, req>>

-----------------------------------------------------------------------------
Arrival(q) ==
  \/ \E u \in Users : Publish(q, u)
  \/ \E u \in Users, level \in IssuedLevels, bulk \in BOOLEAN : IssuePenalty(q, u, level, bulk)
  \/ \E p \in Ids : RevokePenalty(q, p) \/ SubmitAppeal(q, p)
  \/ \E p \in Ids, action \in {"approve", "reject"} : ReviewAppeal(q, p, action)
  \/ ExpirePenalties(q)

Step(q) ==
  \/ PublishContent(q) \/ InsertPenalty(q) \/ Revoke(q) \/ Submit(q)
  \/ LoadPenalty(q) \/ Reject(q) \/ ReadScore(q) \/ SaveScore(q) \/ Approve(q)

Next ==
  \/ \E q \in Requests : Arrival(q) \/ Step(q) \/ Fail(q)
  \/ \E p \in Ids : Elapse(p)

Spec == Init /\ [][Next]_vars

-----------------------------------------------------------------------------
(* Properties *)

TypeOK ==
  /\ lastId \in Nat
  /\ penalties \in [Ids -> PenaltyRow]
  /\ docked \in [Users -> BOOLEAN]
  /\ shown \in [Users -> BOOLEAN]
  /\ req \in [Requests -> Request]

\* A ban is suspended only while an admin still has its appeal to decide: no
\* order of appeals, reviews, revocations, expiries and failures leaves a
\* penalty "appealed" with no pending appeal to end it (submit_appeal,
\* review_appeal).
SuspendedOnlyWhilePending ==
  \A p \in Ids : penalties[p].status = "appealed" => penalties[p].appeal = "pending"

\* A penalty that was lifted - revoked, expired or suspended - comes into force
\* again only together with the rejection of its appeal (review_appeal's one
\* commit), whatever other admins do to it at the time.
ReinstatedOnlyByRejection ==
  [][\A p \in Ids : penalties[p].status # "active" /\ penalties'[p].status = "active"
       => penalties'[p].appeal = "rejected"]_vars

\* No request is running.
Quiet == \A q \in Requests : At(q, "idle")

\* Run one at a time, an appeal and its penalty agree: pending exactly while
\* the penalty is suspended, approved only if it is revoked, and rejected never
\* leaves it suspended.
AppealsAgree ==
  Quiet => \A p \in Ids :
    /\ penalties[p].appeal = "pending" <=> penalties[p].status = "appealed"
    /\ penalties[p].appeal = "approved" => penalties[p].status = "revoked"

\* Run one at a time, requests keep a banned user from publishing: content
\* appears only if each ban in force on its author went through an appeal.
BannedDontPublish ==
  [][\A u \in Users : ~shown[u] /\ shown'[u] =>
       \A p \in Active(u) : penalties[p].level = WARNING \/ penalties[p].appeal # "none"]_vars

\* Run one at a time, requests keep the deduction with the penalties: made
\* while a penalty that nobody appealed is in force, taken back once all of a
\* user's penalties are revoked (update_user_trust_score at the end of issue,
\* revoke and approve, and nowhere else).
DeductionFollows ==
  Quiet => \A u \in Users :
    /\ (\E p \in Active(u) : penalties[p].appeal = "none") => docked[u]
    /\ (\A p \in Ids : penalties[p].user = u => penalties[p].status = "revoked") => ~docked[u]

\* What check_user_banned documents, "Active ban penalty if exists, None
\* otherwise": a user with a ban in force is banned.
BanInForceBans ==
  \A u \in Users : (\E p \in Active(u) : penalties[p].level # WARNING) => Banned(u)

-----------------------------------------------------------------------------
(* What SuspendedOnlyWhilePending rests on: a review under way is of a penalty *)
(* that was appealed, once, so the suspension it ends can't come back.         *)
Reviewing(r) == r.op \in {"approve", "reject"}
Suspended(p) == penalties[p].status = "appealed"

ReviewIsSound(r) ==
  /\ r.pc \in {"load", "reject", "approved"} => Reviewing(r)
  /\ r.pc \in {"insert", "revoke"} => ~Reviewing(r)
  /\ Reviewing(r) =>
       /\ r.p \in Ids /\ penalties[r.p].appeal # "none"
       /\ r.pc \in {"reject", "score", "rescore"} /\ r.seen # "appealed" => ~Suspended(r.p)
       /\ r.pc = "approved" => ~Suspended(r.p)

ReviewsAreSound == \A q \in Requests : ReviewIsSound(req[q])

SuspensionInv == TypeOK /\ SuspendedOnlyWhilePending /\ ReviewsAreSound
=============================================================================
