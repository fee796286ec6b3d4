-------------------------- MODULE Penalties_proofs --------------------------
(* Safety of Penalties for every set of users and request slots. *)
EXTENDS Penalties, NaturalsInduction, WellFoundedInduction, TLAPS

-----------------------------------------------------------------------------
(* Type correctness *)

LEMMA IdleType == Idle \in Request
BY UsersAssumption DEF Idle, Request, Steps, Levels, WARNING, PERMANENT_BAN, PenaltyStatus

LEMMA GotoType ==
  ASSUME TypeOK, NEW q \in Requests, NEW r \in Request, Goto(q, r)
  PROVE  req' \in [Requests -> Request]
BY DEF TypeOK, Goto

LEMMA FinishType ==
  ASSUME TypeOK, NEW q \in Requests, Finish(q)
  PROVE  req' \in [Requests -> Request]
BY IdleType, GotoType DEF Finish

\* Setting one column of one row, or none if there is no such row.
LEMMA ColumnType ==
  ASSUME TypeOK, NEW p, NEW status \in PenaltyStatus, NEW appeal \in AppealStatus,
         NEW lapsed \in BOOLEAN, UNCHANGED lastId,
         \/ penalties' = [penalties EXCEPT ![p].status = status]
         \/ penalties' = [penalties EXCEPT ![p].appeal = appeal]
         \/ penalties' = [penalties EXCEPT ![p].lapsed = lapsed]
         \/ penalties' = [penalties EXCEPT ![p].status = status, ![p].appeal = appeal]
         \/ penalties' = [penalties EXCEPT ![p].appeal = appeal, ![p].status = status]
         \/ UNCHANGED penalties
  PROVE  lastId' \in Nat /\ penalties' \in [Ids' -> PenaltyRow]
<1>1. Ids' = Ids
  BY DEF Ids
<1>2. penalties \in [Ids -> PenaltyRow]
  BY DEF TypeOK
<1>3. penalties' \in [Ids -> PenaltyRow]
  BY <1>2 DEF PenaltyRow
<1>4. QED BY <1>1, <1>3 DEF TypeOK

\* Every request a handler starts or goes on with is a request.
LEMMA RequestTypes ==
  ASSUME TypeOK, NEW r \in Request
  PROVE  /\ ToScore(r) \in Request
         /\ \A u \in Users : [Idle EXCEPT !.pc = "publish", !.op = "publish", !.u = u] \in Request
         /\ \A u \in Users, level \in Levels, bulk \in BOOLEAN :
              [Idle EXCEPT !.pc = "insert", !.op = "issue", !.u = u, !.level = level,
                           !.bulk = bulk] \in Request
         /\ \A p \in Ids, action \in {"approve", "reject"} :
              /\ [Idle EXCEPT !.pc = "revoke", !.op = "revoke", !.p = p,
                              !.u = penalties[p].user] \in Request
              /\ [Idle EXCEPT !.pc = "submit", !.op = "submit", !.p = p,
                              !.u = penalties[p].user] \in Request
              /\ [Idle EXCEPT !.pc = "load", !.op = action, !.p = p,
                              !.u = penalties[p].user] \in Request
<1>1. \A p \in Ids : p \in Nat /\ penalties[p].user \in Users
  BY DEF TypeOK, Ids, PenaltyRow
<1>2. QED BY <1>1, IdleType DEF ToScore, Request, Steps

LEMMA ArrivalTyped ==
  ASSUME TypeOK, NEW q \in Requests, Arrival(q)
  PROVE  TypeOK'
<1>0. \A level \in IssuedLevels : level \in Levels
  BY BoundAssumption DEF Levels, WARNING, PERMANENT_BAN
<1>1. CASE ExpirePenalties(q)
  <2>1. \A p \in Ids : penalties[p] \in PenaltyRow
                       /\ [penalties[p] EXCEPT !.status = "expired"] \in PenaltyRow
    BY DEF TypeOK, PenaltyRow, PenaltyStatus
  <2>2. lastId' \in Nat /\ penalties' \in [Ids' -> PenaltyRow]
    BY <1>1, <2>1 DEF ExpirePenalties, TypeOK, Ids
  <2>3. QED BY <1>1, <2>2 DEF ExpirePenalties, TypeOK
<1>2. ASSUME NEW s \in Request, Goto(q, s), UNCHANGED <<lastId, penalties, docked, shown>>
      PROVE  TypeOK'
  BY <1>2, GotoType DEF TypeOK, Ids
<1>3. ASSUME NEW u \in Users, Publish(q, u) PROVE TypeOK'
  BY <1>2, <1>3, IdleType, RequestTypes DEF Publish
<1>4. ASSUME NEW u \in Users, NEW level \in IssuedLevels, NEW bulk \in BOOLEAN,
             IssuePenalty(q, u, level, bulk)
      PROVE  TypeOK'
  BY <1>0, <1>2, <1>4, IdleType, RequestTypes DEF IssuePenalty
<1>5. ASSUME NEW p \in Ids, RevokePenalty(q, p) \/ SubmitAppeal(q, p) PROVE TypeOK'
  BY <1>2, <1>5, IdleType, RequestTypes DEF RevokePenalty, SubmitAppeal
<1>6. ASSUME NEW p \in Ids, NEW action \in {"approve", "reject"}, ReviewAppeal(q, p, action)
      PROVE  TypeOK'
  BY <1>2, <1>6, IdleType, RequestTypes DEF ReviewAppeal
<1>7. QED BY <1>1, <1>3, <1>4, <1>5, <1>6 DEF Arrival

LEMMA StepTyped ==
  ASSUME TypeOK, ReviewsAreSound, NEW q \in Requests, Step(q) \/ Fail(q)
  PROVE  TypeOK'
<1> DEFINE r == req[q]
<1> USE DEF PenaltyStatus, AppealStatus
<1>0. r \in Request /\ r.u \in Users /\ r.level \in Levels /\ r.due \in BOOLEAN
      /\ r.bulk \in BOOLEAN
  BY DEF TypeOK, Request
<1>1. CASE PublishContent(q)
  BY <1>0, <1>1, FinishType DEF PublishContent, TypeOK, Ids
<1>2. CASE InsertPenalty(q)
  <2>1. req' \in [Requests -> Request]
    BY <1>0, <1>2, GotoType, RequestTypes DEF InsertPenalty
  <2>2. lastId' \in Nat /\ penalties' \in [Ids' -> PenaltyRow]
    BY <1>0, <1>2 DEF InsertPenalty, TypeOK, Ids, PenaltyRow
  <2>3. shown' \in [Users -> BOOLEAN]
    <3>1. \A s \in BOOLEAN : (s /\ ~(r.bulk /\ r.level # WARNING)) \in BOOLEAN
      OBVIOUS
    <3>2. QED BY <1>0, <1>2, <3>1 DEF InsertPenalty, TypeOK
  <2>4. QED BY <1>2, <2>1, <2>2, <2>3 DEF InsertPenalty, TypeOK
<1>3. CASE Revoke(q)
  <2>1. req' \in [Requests -> Request]
    BY <1>0, <1>3, GotoType, RequestTypes DEF Revoke
  <2>2. QED BY <1>3, <2>1, ColumnType DEF Revoke, SetStatus, TypeOK
<1>4. CASE Submit(q)
  <2>1. req' \in [Requests -> Request]
    BY <1>4, FinishType DEF Submit
  <2>2. lastId' \in Nat /\ penalties' \in [Ids' -> PenaltyRow]
    BY <1>4, ColumnType DEF Submit
  <2>3. QED BY <1>4, <2>1, <2>2 DEF Submit, TypeOK
<1>5. CASE LoadPenalty(q)
  <2>1. r.p \in Ids
    BY <1>5 DEF LoadPenalty, At, ReviewsAreSound, ReviewIsSound
  <2>2. penalties[r.p].status \in PenaltyStatus
    BY <2>1 DEF TypeOK, PenaltyRow
  <2>3. [r EXCEPT !.seen = penalties[r.p].status,
                  !.pc = IF r.op = "approve" THEN "score" ELSE "reject"] \in Request
    BY <1>0, <2>2 DEF Request, Steps
  <2>4. req' \in [Requests -> Request]
    BY <1>5, <2>3, GotoType DEF LoadPenalty
  <2>5. QED BY <1>5, <2>4 DEF LoadPenalty, TypeOK, Ids
<1>6. ASSUME Reviewing(r), NEW status \in PenaltyStatus
      PROVE  Written(r.p, r.seen, status) \in PenaltyStatus
  <2>1. r.p \in Ids
    BY <1>6 DEF ReviewsAreSound, ReviewIsSound
  <2>2. QED BY <2>1 DEF Written, TypeOK, PenaltyRow
<1>7. CASE Reject(q)
  <2>1. Reviewing(r)
    BY <1>7 DEF Reject, At, ReviewsAreSound, ReviewIsSound
  <2>2. lastId' \in Nat /\ penalties' \in [Ids' -> PenaltyRow]
    BY <1>6, <1>7, <2>1, ColumnType DEF Reject
  <2>3. req' \in [Requests -> Request]
    BY <1>7, FinishType DEF Reject
  <2>4. QED BY <1>7, <2>2, <2>3 DEF Reject, TypeOK
<1>8. CASE ReadScore(q)
  <2>1. docked[r.u] \in BOOLEAN /\ (Active(r.u) # {}) \in BOOLEAN
    BY <1>0 DEF TypeOK
  <2>2. [r EXCEPT !.pc = "rescore", !.was = docked[r.u], !.due = (Active(r.u) # {})] \in Request
    BY <1>0, <2>1 DEF Request, Steps
  <2>3. req' \in [Requests -> Request]
    BY <1>8, <2>2, GotoType DEF ReadScore
  <2>4. QED BY <1>8, <2>3 DEF ReadScore, TypeOK, Ids
<1>9. CASE SaveScore(q)
  <2>1. docked' \in [Users -> BOOLEAN]
    BY <1>0, <1>9 DEF SaveScore, TypeOK
  <2>2. [r EXCEPT !.pc = "approved"] \in Request
    BY <1>0 DEF Request, Steps
  <2>3. req' \in [Requests -> Request]
    BY <1>9, <2>2, GotoType, FinishType DEF SaveScore
  <2>4. lastId' \in Nat /\ penalties' \in [Ids' -> PenaltyRow]
    <3>1. CASE r.op = "approve"
      <4>1. Written(r.p, r.seen, "revoked") \in PenaltyStatus
        BY <1>6, <3>1 DEF Reviewing
      <4>2. penalties' = [penalties EXCEPT ![r.p].status = Written(r.p, r.seen, "revoked")]
        BY <1>9, <3>1 DEF SaveScore, SetStatus
      <4>3. QED BY <1>9, <4>1, <4>2, ColumnType DEF SaveScore
    <3>2. CASE r.op # "approve"
      BY <1>9, <3>2 DEF SaveScore, TypeOK, Ids
    <3>3. QED BY <3>1, <3>2
  <2>5. QED BY <1>9, <2>1, <2>3, <2>4 DEF SaveScore, TypeOK
<1>10. CASE Approve(q)
  <2>1. lastId' \in Nat /\ penalties' \in [Ids' -> PenaltyRow]
    BY <1>10, ColumnType DEF Approve
  <2>2. req' \in [Requests -> Request]
    BY <1>10, FinishType DEF Approve
  <2>3. QED BY <1>10, <2>1, <2>2 DEF Approve, TypeOK
<1>11. CASE Fail(q)
  BY <1>11, FinishType DEF Fail, TypeOK, Ids
<1>12. QED
  BY <1>1, <1>2, <1>3, <1>4, <1>5, <1>7, <1>8, <1>9, <1>10, <1>11 DEF Step

LEMMA ElapseTyped ==
  ASSUME TypeOK, NEW p \in Ids, Elapse(p)
  PROVE  TypeOK'
<1>1. lastId' \in Nat /\ penalties' \in [Ids' -> PenaltyRow]
  BY ColumnType DEF Elapse, PenaltyStatus, AppealStatus
<1>2. QED BY <1>1 DEF Elapse, TypeOK

-----------------------------------------------------------------------------
(* What a step may do to the rows that are there *)

\* An appeal, once made, is there for good, and what was appealed is not
\* suspended anew.
RowsKept ==
  /\ Ids \subseteq Ids'
  /\ \A p \in Ids : penalties[p].appeal # "none" =>
       /\ penalties'[p].appeal # "none"
       /\ penalties'[p].status = "appealed" => penalties[p].status = "appealed"

\* One row at most changes, in its status and its appeal.
RowSet(p, status, appeal) ==
  /\ UNCHANGED lastId
  /\ penalties'[p].status = status /\ penalties'[p].appeal = appeal
  /\ \A o \in Ids \ {p} : penalties'[o] = penalties[o]

LEMMA RowsKeptWhenSet ==
  ASSUME NEW p \in Ids, NEW status, NEW appeal, RowSet(p, status, appeal),
         penalties[p].appeal # "none" =>
           appeal # "none" /\ (status = "appealed" => penalties[p].status = "appealed")
  PROVE  RowsKept
BY DEF RowSet, RowsKept, Ids

LEMMA SuspensionKeptWhenSet ==
  ASSUME SuspendedOnlyWhilePending, NEW p \in Ids, NEW status, NEW appeal,
         RowSet(p, status, appeal), status = "appealed" => appeal = "pending"
  PROVE  SuspendedOnlyWhilePending'
BY DEF RowSet, SuspendedOnlyWhilePending, Ids

LEMMA SameRows ==
  ASSUME SuspendedOnlyWhilePending, UNCHANGED <<lastId, penalties>>
  PROVE  RowsKept /\ SuspendedOnlyWhilePending'
BY DEF RowsKept, SuspendedOnlyWhilePending, Ids

\* A request's review is sound in the state after the step.
SoundAfter(r) ==
  /\ r.pc \in {"load", "reject", "approved"} => Reviewing(r)
  /\ r.pc \in {"insert", "revoke"} => ~Reviewing(r)
  /\ Reviewing(r) =>
       /\ r.p \in Ids' /\ penalties'[r.p].appeal # "none"
       /\ /\ r.pc \in {"reject", "score", "rescore"} /\ r.seen # "appealed"
          \/ r.pc = "approved"
          => penalties'[r.p].status # "appealed"

\* The other requests' reviews stay sound whatever this one does to the rows.
LEMMA ReviewsKept ==
  ASSUME RowsKept, ReviewsAreSound, NEW q \in Requests,
         \A o \in Requests \ {q} : req'[o] = req[o], ReviewIsSound(req[q])'
  PROVE  ReviewsAreSound'
<1>1. ASSUME NEW o \in Requests \ {q} PROVE ReviewIsSound(req[o])'
  <2> DEFINE r == req[o]
  <2>1. ReviewIsSound(r) /\ req'[o] = r
    BY DEF ReviewsAreSound
  <2> HIDE DEF r
  <2>2. CASE Reviewing(r)
    <3>1. r.p \in Ids /\ r.p \in Ids' /\ penalties[r.p].appeal # "none"
      BY <2>1, <2>2 DEF ReviewIsSound, RowsKept
    <3>2. penalties'[r.p].appeal # "none" /\ (Suspended(r.p)' => Suspended(r.p))
      BY <3>1 DEF RowsKept, Suspended, r
    <3>3. QED BY <2>1, <2>2, <3>1, <3>2 DEF ReviewIsSound, Reviewing, Suspended, r
  <2>3. CASE ~Reviewing(r)
    BY <2>1, <2>3 DEF ReviewIsSound, Reviewing, Suspended, r
  <2>4. QED BY <2>2, <2>3
<1>2. QED BY <1>1 DEF ReviewsAreSound

LEMMA GotoGives ==
  ASSUME TypeOK, NEW q \in Requests, NEW s, Goto(q, s)
  PROVE  req'[q] = s /\ \A o \in Requests \ {q} : req'[o] = req[o]
BY DEF TypeOK, Goto

LEMMA ArrivalSound ==
  ASSUME SuspensionInv, NEW q \in Requests, Arrival(q)
  PROVE  SuspendedOnlyWhilePending' /\ ReviewsAreSound'
<1> USE DEF SuspensionInv
<1>1. CASE ExpirePenalties(q)
  <2>1. \A p \in Ids : /\ penalties'[p].appeal = penalties[p].appeal
                       /\ penalties'[p].status \in {penalties[p].status, "expired"}
    BY <1>1 DEF ExpirePenalties, TypeOK, PenaltyRow
  <2>2. RowsKept /\ SuspendedOnlyWhilePending'
    BY <1>1, <2>1 DEF ExpirePenalties, RowsKept, SuspendedOnlyWhilePending, Ids
  <2>3. \A o \in Requests : req'[o] = req[o]
    BY <1>1 DEF ExpirePenalties
  <2>4. ASSUME Reviewing(req[q])
        PROVE  /\ req[q].p \in Ids' /\ penalties'[req[q].p].appeal # "none"
               /\ Suspended(req[q].p)' => Suspended(req[q].p)
    BY <2>2, <2>3, <2>4 DEF ReviewsAreSound, ReviewIsSound, RowsKept, Suspended
  <2>5. ReviewIsSound(req[q])'
    BY <2>3, <2>4 DEF ReviewsAreSound, ReviewIsSound, Reviewing, Suspended
  <2>6. QED BY <2>2, <2>3, <2>5, ReviewsKept
<1>2. ASSUME NEW s, Goto(q, s), UNCHANGED <<lastId, penalties>>, ReviewIsSound(s)
      PROVE  SuspendedOnlyWhilePending' /\ ReviewsAreSound'
  <2>1. req'[q] = s /\ \A o \in Requests \ {q} : req'[o] = req[o]
    BY <1>2, GotoGives
  <2>2. ReviewIsSound(req[q])'
    BY <1>2, <2>1 DEF ReviewIsSound, Reviewing, Suspended, Ids
  <2>3. QED BY <1>2, <2>1, <2>2, SameRows, ReviewsKept
<1>3. ASSUME NEW u \in Users, Publish(q, u)
      PROVE  SuspendedOnlyWhilePending' /\ ReviewsAreSound'
  <2>1. ReviewIsSound([Idle EXCEPT !.pc = "publish", !.op = "publish", !.u = u])
    BY DEF ReviewIsSound, Reviewing, Idle
  <2>2. QED BY <1>2, <1>3, <2>1 DEF Publish
<1>4. ASSUME NEW u \in Users, NEW level \in IssuedLevels, NEW bulk \in BOOLEAN,
             IssuePenalty(q, u, level, bulk)
      PROVE  SuspendedOnlyWhilePending' /\ ReviewsAreSound'
  <2>1. ReviewIsSound([Idle EXCEPT !.pc = "insert", !.op = "issue", !.u = u, !.level = level,
                                   !.bulk = bulk])
    BY DEF ReviewIsSound, Reviewing, Idle
  <2>2. QED BY <1>2, <1>4, <2>1 DEF IssuePenalty
<1>5. ASSUME NEW p \in Ids, RevokePenalty(q, p) \/ SubmitAppeal(q, p)
      PROVE  SuspendedOnlyWhilePending' /\ ReviewsAreSound'
  <2>1. /\ ReviewIsSound([Idle EXCEPT !.pc = "revoke", !.op = "revoke", !.p = p,
                                      !.u = penalties[p].user])
        /\ ReviewIsSound([Idle EXCEPT !.pc = "submit", !.op = "submit", !.p = p,
                                      !.u = penalties[p].user])
    BY DEF ReviewIsSound, Reviewing, Idle
  <2>2. QED BY <1>2, <1>5, <2>1 DEF RevokePenalty, SubmitAppeal
<1>6. ASSUME NEW p \in Ids, NEW action \in {"approve", "reject"}, ReviewAppeal(q, p, action)
      PROVE  SuspendedOnlyWhilePending' /\ ReviewsAreSound'
  <2>1. ReviewIsSound([Idle EXCEPT !.pc = "load", !.op = action, !.p = p,
                                   !.u = penalties[p].user])
    BY <1>6 DEF ReviewIsSound, Reviewing, Idle, ReviewAppeal
  <2>2. QED BY <1>2, <1>6, <2>1 DEF ReviewAppeal
<1>7. QED BY <1>1, <1>3, <1>4, <1>5, <1>6 DEF Arrival

LEMMA StepSound ==
  ASSUME SuspensionInv, NEW q \in Requests, Step(q) \/ Fail(q)
  PROVE  SuspendedOnlyWhilePending' /\ ReviewsAreSound'
<1> DEFINE r == req[q]
<1> USE DEF SuspensionInv
<1>0. r \in Request /\ ReviewIsSound(r)
  BY DEF TypeOK, ReviewsAreSound
<1>1. ASSUME NEW s, Goto(q, s), RowsKept, SoundAfter(s)
      PROVE  ReviewsAreSound'
  <2>1. req'[q] = s /\ \A o \in Requests \ {q} : req'[o] = req[o]
    BY <1>1, GotoGives
  <2>2. ReviewIsSound(req[q])'
    BY <1>1, <2>1 DEF SoundAfter, ReviewIsSound, Reviewing, Suspended
  <2>3. QED BY <1>1, <2>1, <2>2, ReviewsKept
<1>2. SoundAfter(Idle)
  BY DEF SoundAfter, Reviewing, Idle
<1>3. ASSUME ~Reviewing(r) PROVE SoundAfter(ToScore(r))
  BY <1>3 DEF SoundAfter, Reviewing, ToScore, Idle
<1>4. CASE PublishContent(q) \/ Fail(q)
  BY <1>1, <1>2, <1>4, SameRows DEF PublishContent, Fail, Finish
<1>5. CASE InsertPenalty(q)
  <2>1. /\ Ids' = Ids \cup {lastId + 1} /\ lastId + 1 \notin Ids
        /\ \A p \in Ids : penalties'[p] = penalties[p]
        /\ penalties'[lastId + 1].status = "active"
    BY <1>5 DEF InsertPenalty, TypeOK, Ids
  <2>2. RowsKept /\ SuspendedOnlyWhilePending'
    BY <2>1 DEF RowsKept, SuspendedOnlyWhilePending
  <2>3. ~Reviewing(r)
    BY <1>0, <1>5 DEF InsertPenalty, At, ReviewIsSound
  <2>4. QED BY <1>1, <1>3, <1>5, <2>2, <2>3 DEF InsertPenalty
<1>6. CASE Revoke(q)
  <2>1. ~Reviewing(r)
    BY <1>0, <1>6 DEF Revoke, At, ReviewIsSound
  <2>2. RowsKept /\ SuspendedOnlyWhilePending'
    BY <1>6 DEF Revoke, SetStatus, RowsKept, SuspendedOnlyWhilePending, TypeOK, PenaltyRow, Ids
  <2>3. QED BY <1>1, <1>3, <1>6, <2>1, <2>2 DEF Revoke
<1>7. CASE Submit(q)
  <2>1. RowsKept /\ SuspendedOnlyWhilePending'
    BY <1>7, SameRows
       DEF Submit, RowsKept, SuspendedOnlyWhilePending, TypeOK, PenaltyRow, Ids
  <2>2. QED BY <1>1, <1>2, <1>7, <2>1 DEF Submit, Finish
<1>8. CASE LoadPenalty(q)
  <2> DEFINE s == [r EXCEPT !.seen = penalties[r.p].status,
                            !.pc = IF r.op = "approve" THEN "score" ELSE "reject"]
  <2>1. Reviewing(r) /\ r.p \in Ids /\ penalties[r.p].appeal # "none"
    BY <1>0, <1>8 DEF LoadPenalty, At, ReviewIsSound
  <2>2. Goto(q, s) /\ UNCHANGED <<lastId, penalties>>
    BY <1>8 DEF LoadPenalty
  <2>3. /\ s.seen = penalties[r.p].status /\ s.pc \in {"score", "reject"}
        /\ s.op = r.op /\ s.p = r.p
    BY <1>0 DEF Request
  <2>4. SoundAfter(s)
    BY <2>1, <2>2, <2>3 DEF SoundAfter, Reviewing, Ids
  <2>5. QED BY <1>1, <2>2, <2>4, SameRows
<1>9. ASSUME Reviewing(r), r.seen # "appealed" => ~Suspended(r.p),
             NEW status, status # "appealed"
      PROVE  Written(r.p, r.seen, status) # "appealed"
  BY <1>9 DEF Written, Suspended
<1>10. CASE Reject(q)
  <2>1. /\ Reviewing(r) /\ r.p \in Ids /\ penalties[r.p] \in PenaltyRow
        /\ r.seen # "appealed" => ~Suspended(r.p)
    BY <1>0, <1>10 DEF Reject, At, ReviewIsSound, TypeOK
  <2>2. RowSet(r.p, Written(r.p, r.seen, "active"), "rejected")
    BY <1>10, <2>1 DEF Reject, RowSet, TypeOK, PenaltyRow
  <2>3. Written(r.p, r.seen, "active") # "appealed"
    BY <1>9, <2>1
  <2>4. RowsKept /\ SuspendedOnlyWhilePending'
    BY <2>1, <2>2, <2>3, RowsKeptWhenSet, SuspensionKeptWhenSet
  <2>5. QED BY <1>1, <1>2, <1>10, <2>4 DEF Reject, Finish
<1>11. CASE ReadScore(q)
  <2> DEFINE s == [r EXCEPT !.pc = "rescore", !.was = docked[r.u], !.due = (Active(r.u) # {})]
  <2>1. Goto(q, s) /\ UNCHANGED <<lastId, penalties>> /\ r.pc = "score"
    BY <1>11 DEF ReadScore, At
  <2>2. s.pc = "rescore" /\ s.op = r.op /\ s.p = r.p /\ s.seen = r.seen
    BY <1>0 DEF Request
  <2> HIDE DEF s
  <2>3. SoundAfter(s)
    BY <1>0, <2>1, <2>2 DEF SoundAfter, ReviewIsSound, Reviewing, Suspended, Ids
  <2>4. QED BY <1>1, <2>1, <2>3, SameRows
<1>12. CASE SaveScore(q)
  <2>1. CASE r.op # "approve"
    <3>1. UNCHANGED <<lastId, penalties>> /\ Finish(q)
      BY <1>12, <2>1 DEF SaveScore
    <3>2. QED BY <1>1, <1>2, <3>1, SameRows DEF Finish
  <2>2. CASE r.op = "approve"
    <3> DEFINE s == [r EXCEPT !.pc = "approved"]
               status == Written(r.p, r.seen, "revoked")
    <3>1. /\ Reviewing(r) /\ r.p \in Ids /\ penalties[r.p] \in PenaltyRow
          /\ penalties[r.p].appeal # "none"
          /\ r.seen # "appealed" => ~Suspended(r.p)
      BY <1>0, <1>12, <2>2 DEF SaveScore, At, ReviewIsSound, Reviewing, TypeOK
    <3>2. Goto(q, s) /\ RowSet(r.p, status, penalties[r.p].appeal)
      BY <1>12, <2>2, <3>1 DEF SaveScore, SetStatus, RowSet, TypeOK, PenaltyRow
    <3>3. status # "appealed"
      BY <1>9, <3>1
    <3>4. RowsKept /\ SuspendedOnlyWhilePending'
      BY <3>1, <3>2, <3>3, RowsKeptWhenSet, SuspensionKeptWhenSet
    <3>5. s.pc = "approved" /\ s.op = r.op /\ s.p = r.p
      BY <1>0 DEF Request
    <3>6. SoundAfter(s)
      BY <3>1, <3>2, <3>3, <3>5 DEF SoundAfter, RowSet, Reviewing, Ids
    <3>7. QED BY <1>1, <3>2, <3>4, <3>6
  <2>3. QED BY <2>1, <2>2
<1>13. CASE Approve(q)
  <2>1. Reviewing(r) /\ r.p \in Ids /\ penalties[r.p] \in PenaltyRow /\ ~Suspended(r.p)
    BY <1>0, <1>13 DEF Approve, At, ReviewIsSound, TypeOK
  <2>2. RowSet(r.p, penalties[r.p].status, "approved")
    BY <1>13, <2>1 DEF Approve, RowSet, TypeOK, PenaltyRow
  <2>3. RowsKept /\ SuspendedOnlyWhilePending'
    BY <2>1, <2>2, RowsKeptWhenSet, SuspensionKeptWhenSet DEF Suspended
  <2>4. QED BY <1>1, <1>2, <1>13, <2>3 DEF Approve, Finish
<1>14. QED
  BY <1>4, <1>5, <1>6, <1>7, <1>8, <1>10, <1>11, <1>12, <1>13 DEF Step

LEMMA ElapseSound ==
  ASSUME SuspensionInv, NEW p \in Ids, Elapse(p)
  PROVE  SuspendedOnlyWhilePending' /\ ReviewsAreSound'
<1> USE DEF SuspensionInv
<1>1. /\ Ids' = Ids /\ req' = req
      /\ \A o \in Ids : /\ penalties'[o].appeal = penalties[o].appeal
                        /\ penalties'[o].status = penalties[o].status
  BY DEF Elapse, TypeOK, PenaltyRow, Ids
<1>2. QED
  BY <1>1 DEF SuspendedOnlyWhilePending, ReviewsAreSound, ReviewIsSound, Reviewing, Suspended

LEMMA SuspensionInductive == SuspensionInv /\ [Next]_vars => SuspensionInv'
<1>1. SUFFICES ASSUME SuspensionInv, [Next]_vars PROVE SuspensionInv'
  OBVIOUS
<1>2. CASE UNCHANGED vars
  BY <1>1, <1>2 DEF SuspensionInv, TypeOK, SuspendedOnlyWhilePending, ReviewsAreSound,
                    ReviewIsSound, Reviewing, Suspended, vars, Ids
<1>3. ASSUME NEW q \in Requests, Arrival(q) PROVE SuspensionInv'
  BY <1>1, <1>3, ArrivalTyped, ArrivalSound DEF SuspensionInv
<1>4. ASSUME NEW q \in Requests, Step(q) \/ Fail(q) PROVE SuspensionInv'
  BY <1>1, <1>4, StepTyped, StepSound DEF SuspensionInv
<1>5. ASSUME NEW p \in Ids, Elapse(p) PROVE SuspensionInv'
  BY <1>1, <1>5, ElapseTyped, ElapseSound DEF SuspensionInv
<1>6. QED BY <1>1, <1>2, <1>3, <1>4, <1>5 DEF Next

LEMMA SuspensionInitially == Init => SuspensionInv
<1>1. SUFFICES ASSUME Init PROVE SuspensionInv
  OBVIOUS
<1>2. Ids = {} /\ lastId \in Nat
  BY <1>1 DEF Init, Ids
<1>3. penalties \in [Ids -> PenaltyRow]
  BY <1>1, <1>2 DEF Init
<1>4. \A q \in Requests : req[q] = Idle
  BY <1>1 DEF Init
<1>5. Idle.pc = "idle" /\ Idle.op = "none"
  BY DEF Idle
<1>6. TypeOK
  BY <1>1, <1>2, <1>3, IdleType DEF Init, TypeOK
<1>7. SuspendedOnlyWhilePending
  BY <1>2 DEF SuspendedOnlyWhilePending
<1>8. ReviewsAreSound
  BY <1>4, <1>5 DEF ReviewsAreSound, ReviewIsSound, Reviewing
<1>9. QED BY <1>6, <1>7, <1>8 DEF SuspensionInv

\* Every reachable state is well typed: in particular a review never writes a
\* penalty that is not there.
THEOREM TypeCorrect == Spec => []TypeOK
<1>1. SuspensionInv => TypeOK
  BY DEF SuspensionInv
<1>2. QED BY <1>1, SuspensionInitially, SuspensionInductive, PTL DEF Spec

\* However appeals, reviews, revocations, expiries and failures interleave, a
\* suspended penalty has an appeal that an admin can still decide.
THEOREM SuspensionsCanEnd == Spec => []SuspendedOnlyWhilePending
<1>1. SuspensionInv => SuspendedOnlyWhilePending
  BY DEF SuspensionInv
<1>2. QED BY <1>1, SuspensionInitially, SuspensionInductive, PTL DEF Spec

\* However they interleave, a lifted penalty comes back into force only with
\* the rejection of its appeal.
THEOREM OnlyRejectionReinstates == Spec => ReinstatedOnlyByRejection
<1> DEFINE A == \A p \in Ids : penalties[p].status # "active" /\ penalties'[p].status = "active"
                  => penalties'[p].appeal = "rejected"
<1>1. SuspensionInv /\ [Next]_vars => [A]_vars
  <2>1. SUFFICES ASSUME SuspensionInv, Next, NEW p \in Ids,
                        penalties[p].status # "active", penalties'[p].status = "active"
                 PROVE  penalties'[p].appeal = "rejected"
    OBVIOUS
  <2>2. penalties[p] \in PenaltyRow
    BY <2>1 DEF SuspensionInv, TypeOK
  <2>3. ASSUME NEW q \in Requests, Arrival(q) PROVE FALSE
    BY <2>1, <2>2, <2>3
       DEF Arrival, Publish, IssuePenalty, RevokePenalty, SubmitAppeal, ReviewAppeal,
           ExpirePenalties, PenaltyRow
  <2>4. ASSUME NEW q \in Requests, Step(q) \/ Fail(q)
        PROVE  penalties'[p].appeal = "rejected"
    <3>1. CASE Reject(q)
      BY <2>1, <2>2, <3>1 DEF Reject, SuspensionInv, TypeOK, PenaltyRow
    <3>2. CASE InsertPenalty(q)
      BY <2>1, <3>2 DEF InsertPenalty, SuspensionInv, TypeOK, Ids
    <3>3. CASE Revoke(q) \/ Submit(q) \/ Approve(q)
      BY <2>1, <2>2, <3>3
         DEF Revoke, SetStatus, Submit, Approve, SuspensionInv, TypeOK, PenaltyRow
    <3>4. CASE SaveScore(q)
      BY <2>1, <2>2, <3>4
         DEF SaveScore, SetStatus, Written, SuspensionInv, TypeOK, PenaltyRow
    <3>5. CASE PublishContent(q) \/ LoadPenalty(q) \/ ReadScore(q) \/ Fail(q)
      BY <2>1, <3>5 DEF PublishContent, LoadPenalty, ReadScore, Fail
    <3>6. QED BY <2>4, <3>1, <3>2, <3>3, <3>4, <3>5 DEF Step
  <2>5. ASSUME NEW o \in Ids, Elapse(o) PROVE FALSE
    BY <2>1, <2>2, <2>5 DEF Elapse, SuspensionInv, TypeOK, PenaltyRow
  <2>6. QED BY <2>1, <2>3, <2>4, <2>5 DEF Next
<1>2. QED
  BY <1>1, SuspensionInitially, SuspensionInductive, PTL DEF Spec, ReinstatedOnlyByRejection

-----------------------------------------------------------------------------
(* One handler at a time: a banned user publishes nothing *)

OneAtATime == \A p, q \in Requests : p = q

\* The newest of some penalties.
LEMMA NewestIs ==
  ASSUME NEW n \in Nat, NEW S \in SUBSET (1..n), S # {}
  PROVE  Newest(S) \in S /\ \A o \in S : o <= Newest(S)
<1> DEFINE T == {n - p : p \in S}
<1>1. T \subseteq Nat /\ T # {}
  <2>1. \A p \in S : n - p \in Nat
    OBVIOUS
  <2>2. QED BY <2>1
<1>2. PICK x \in T : \A y \in T : ~(<<y, x>> \in OpToRel(<, Nat))
  BY NatLessThanWellFounded, <1>1, WFMin, Zenon
<1>3. \A y \in T : ~(y < x)
  BY <1>1, <1>2, Zenon DEF OpToRel
<1>4. PICK p \in S : x = n - p
  OBVIOUS
<1>5. ASSUME NEW o \in S PROVE o <= p
  <2>1. n - o \in T
    OBVIOUS
  <2>2. ~(n - o < n - p) /\ o \in Nat /\ p \in Nat
    BY <1>3, <1>4, <2>1
  <2>3. QED BY <2>2
<1>6. QED BY <1>4, <1>5 DEF Newest

\* A penalty in force that nobody appealed.
Unappealed(p) == InForce(p) /\ penalties[p].appeal = "none"
\* Among a user's penalties, one above it each.
Climbing ==
  \A p, o \in Ids : p < o /\ penalties[p].user = penalties[o].user /\ Unappealed(p)
    => penalties[o].level > penalties[p].level
\* What a handler at work has checked is so until it is done.
Checked(r) ==
  \A p \in Ids : penalties[p].user = r.u /\ Unappealed(p) =>
    /\ r.pc = "insert" => r.level > penalties[p].level
    /\ r.pc = "publish" => penalties[p].level = WARNING
BanInv == SuspensionInv /\ Climbing /\ \A q \in Requests : Checked(req[q])

\* Steps that issue no penalty leave it to whom and at what level the others
\* are, and bring none into force that nobody appealed.
Settled ==
  /\ Ids' = Ids
  /\ \A p \in Ids : /\ penalties'[p].user = penalties[p].user
                    /\ penalties'[p].level = penalties[p].level
                    /\ Unappealed(p)' => Unappealed(p)

LEMMA SettledKeeps ==
  ASSUME Settled
  PROVE  /\ Climbing => Climbing'
         /\ \A r : Checked(r) =>
              \A p \in Ids' : penalties'[p].user = r.u /\ Unappealed(p)' =>
                /\ r.pc = "insert" => r.level > penalties'[p].level
                /\ r.pc = "publish" => penalties'[p].level = WARNING
BY DEF Settled, Climbing, Checked

LEMMA RowsTyped ==
  ASSUME TypeOK
  PROVE  /\ lastId \in Nat /\ Ids = 1..lastId
         /\ \A p \in Ids : /\ penalties[p] \in PenaltyRow /\ penalties[p].user \in Users
                           /\ penalties[p].level \in Levels
BY DEF TypeOK, PenaltyRow, Ids

LEMMA SameSettled ==
  ASSUME UNCHANGED <<lastId, penalties>>
  PROVE  Settled
BY DEF Settled, Unappealed, InForce, Ids

LEMMA StatusSettled ==
  ASSUME TypeOK, UNCHANGED lastId, NEW p, NEW status, status # "active",
         penalties' = [penalties EXCEPT ![p].status = status]
  PROVE  Settled
<1>1. penalties \in [Ids -> PenaltyRow] /\ Ids' = Ids
  BY DEF TypeOK, Ids
<1>2. QED BY <1>1 DEF Settled, Unappealed, InForce, PenaltyRow

LEMMA AppealSettled ==
  ASSUME TypeOK, UNCHANGED lastId, NEW p, NEW status, NEW appeal, appeal # "none",
         \/ penalties' = [penalties EXCEPT ![p].status = status, ![p].appeal = appeal]
         \/ penalties' = [penalties EXCEPT ![p].appeal = appeal, ![p].status = status]
  PROVE  Settled
<1>1. penalties \in [Ids -> PenaltyRow] /\ Ids' = Ids
  BY DEF TypeOK, Ids
<1>2. QED BY <1>1 DEF Settled, Unappealed, InForce, PenaltyRow

LEMMA ClosedSettled ==
  ASSUME TypeOK, UNCHANGED lastId, NEW p, NEW appeal, appeal # "none",
         penalties' = [penalties EXCEPT ![p].appeal = appeal]
  PROVE  Settled
<1>1. penalties \in [Ids -> PenaltyRow] /\ Ids' = Ids
  BY DEF TypeOK, Ids
<1>2. QED BY <1>1 DEF Settled, Unappealed, InForce, PenaltyRow

LEMMA ElapseSettled ==
  ASSUME TypeOK, NEW p \in Ids, Elapse(p)
  PROVE  Settled
<1>1. penalties \in [Ids -> PenaltyRow] /\ Ids' = Ids
  BY DEF Elapse, TypeOK, Ids
<1>2. QED BY <1>1 DEF Elapse, Settled, Unappealed, InForce, PenaltyRow

LEMMA ExpirySettled ==
  ASSUME TypeOK, NEW q \in Requests, ExpirePenalties(q)
  PROVE  Settled
<1>1. \A p \in Ids : penalties[p] \in PenaltyRow
  BY RowsTyped
<1>2. \A p \in Ids : \/ penalties'[p] = penalties[p]
                     \/ penalties'[p] = [penalties[p] EXCEPT !.status = "expired"]
  BY DEF ExpirePenalties
<1>3. Ids' = Ids
  BY DEF ExpirePenalties, Ids
<1>4. QED BY <1>1, <1>2, <1>3 DEF Settled, Unappealed, InForce, PenaltyRow

LEMMA StepSettled ==
  ASSUME TypeOK, ReviewsAreSound, NEW q \in Requests, Step(q) \/ Fail(q), ~InsertPenalty(q)
  PROVE  Settled
<1> DEFINE r == req[q]
<1>1. CASE PublishContent(q) \/ LoadPenalty(q) \/ ReadScore(q) \/ Fail(q)
  BY <1>1, SameSettled DEF PublishContent, LoadPenalty, ReadScore, Fail
<1>2. CASE Revoke(q)
  BY <1>2, StatusSettled DEF Revoke, SetStatus
<1>3. CASE Submit(q)
  BY <1>3, SameSettled, AppealSettled DEF Submit
<1>4. CASE Reject(q)
  <2>1. PICK status : status = Written(r.p, r.seen, "active")
    OBVIOUS
  <2>2. penalties' = [penalties EXCEPT ![r.p].status = status, ![r.p].appeal = "rejected"]
        /\ UNCHANGED lastId
    BY <1>4, <2>1 DEF Reject
  <2>3. QED BY <2>2, AppealSettled
<1>5. CASE SaveScore(q)
  <2>1. CASE r.op # "approve"
    BY <1>5, <2>1, SameSettled DEF SaveScore
  <2>2. CASE r.op = "approve"
    <3>1. PICK status : status = Written(r.p, r.seen, "revoked")
      OBVIOUS
    <3>2. penalties' = [penalties EXCEPT ![r.p].status = status] /\ UNCHANGED lastId
      BY <1>5, <2>2, <3>1 DEF SaveScore, SetStatus
    <3>3. r.p \in Ids
      BY <2>2 DEF ReviewsAreSound, ReviewIsSound, Reviewing
    <3>4. status = "revoked" \/ status = penalties[r.p].status
      BY <3>1 DEF Written
    <3>5. CASE status = "revoked"
      BY <3>2, <3>5, StatusSettled
    <3>6. CASE status = penalties[r.p].status
      <4>1. UNCHANGED penalties
        BY <3>2, <3>3, <3>6 DEF TypeOK, PenaltyRow
      <4>2. QED BY <3>2, <4>1, SameSettled
    <3>7. QED BY <3>4, <3>5, <3>6
  <2>3. QED BY <2>1, <2>2
<1>6. CASE Approve(q)
  BY <1>6, ClosedSettled DEF Approve
<1>7. QED BY <1>1, <1>2, <1>3, <1>4, <1>5, <1>6 DEF Step

\* A user's penalty that nobody appealed is the newest in force, or below it.
LEMMA NewestIsHighest ==
  ASSUME TypeOK, Climbing, NEW u \in Users, NEW p \in Ids,
         penalties[p].user = u, Unappealed(p)
  PROVE  /\ Active(u) # {} /\ Newest(Active(u)) \in Active(u)
         /\ \/ p = Newest(Active(u))
            \/ penalties[p].level < penalties[Newest(Active(u))].level
<1>1. Active(u) \in SUBSET (1..lastId) /\ p \in Active(u) /\ lastId \in Nat
  BY DEF Active, Ids, Unappealed, TypeOK
<1>2. PICK o : o = Newest(Active(u))
  OBVIOUS
<1>3. o \in Active(u) /\ p <= o
  BY <1>1, <1>2, NewestIs
<1>4. o \in Ids /\ penalties[o].user = u
  BY <1>3 DEF Active
<1>5. p < o => penalties[o].level > penalties[p].level
  BY <1>4 DEF Climbing
<1>6. penalties[o].level \in Int /\ penalties[p].level \in Int /\ o \in Int /\ p \in Int
  BY <1>4, RowsTyped DEF Levels, WARNING, PERMANENT_BAN
<1>7. QED BY <1>1, <1>2, <1>3, <1>5, <1>6

LEMMA IdleChecked == Checked(Idle)
BY DEF Checked, Idle

LEMMA ArrivalChecked ==
  ASSUME OneAtATime, BanInv, NEW q \in Requests, Arrival(q)
  PROVE  Climbing' /\ \A o \in Requests : Checked(req[o])'
<1> USE DEF BanInv, SuspensionInv
<1>0. \A o \in Requests : o = q
  BY DEF OneAtATime
<1>1. CASE ExpirePenalties(q)
  <2>1. Settled /\ req' = req
    BY <1>1, ExpirySettled DEF ExpirePenalties
  <2>2. Climbing'
    BY <2>1, SettledKeeps
  <2>3. \A o \in Requests : Checked(req[o])'
    BY <2>1, SettledKeeps DEF Checked
  <2>4. QED BY <2>2, <2>3
<1>2. ASSUME NEW s, Goto(q, s), UNCHANGED <<lastId, penalties>>, Checked(s)
      PROVE  Climbing' /\ \A o \in Requests : Checked(req[o])'
  <2>1. req'[q] = s
    BY <1>2, GotoGives
  <2>2. Climbing'
    BY <1>2, SameSettled, SettledKeeps
  <2>3. Checked(req[q])'
    BY <1>2, <2>1 DEF Checked, Unappealed, InForce, Ids
  <2>4. QED BY <1>0, <2>2, <2>3
<1>3. ASSUME NEW u \in Users, Publish(q, u)
      PROVE  Climbing' /\ \A o \in Requests : Checked(req[o])'
  <2> DEFINE s == [Idle EXCEPT !.pc = "publish", !.op = "publish", !.u = u]
  <2>1. s.pc = "publish" /\ s.u = u
    BY IdleType DEF Request
  <2>2. Goto(q, s) /\ UNCHANGED <<lastId, penalties>> /\ ~Banned(u)
    BY <1>3 DEF Publish
  <2> HIDE DEF s
  <2>3. ASSUME NEW p \in Ids, penalties[p].user = u, Unappealed(p)
        PROVE  penalties[p].level = WARNING
    <3>1. PICK o : o = Newest(Active(u))
      OBVIOUS
    <3>2. o \in Ids /\ penalties[o].level = WARNING
          /\ (p = o \/ penalties[p].level < penalties[o].level)
      BY <2>2, <2>3, <3>1, NewestIsHighest DEF Banned, Active
    <3>3. penalties[p].level \in Levels
      BY RowsTyped
    <3>4. QED BY <3>2, <3>3 DEF Levels, WARNING, PERMANENT_BAN
  <2>4. Checked(s)
    BY <2>1, <2>3 DEF Checked
  <2>5. QED BY <1>2, <2>2, <2>4
<1>4. ASSUME NEW u \in Users, NEW level \in IssuedLevels, NEW bulk \in BOOLEAN,
             IssuePenalty(q, u, level, bulk)
      PROVE  Climbing' /\ \A o \in Requests : Checked(req[o])'
  <2> DEFINE s == [Idle EXCEPT !.pc = "insert", !.op = "issue", !.u = u, !.level = level,
                               !.bulk = bulk]
  <2>1. s.pc = "insert" /\ s.u = u /\ s.level = level
    BY IdleType DEF Request
  <2>2. Goto(q, s) /\ UNCHANGED <<lastId, penalties>> /\ MayIssue(u, level)
    BY <1>4 DEF IssuePenalty
  <2> HIDE DEF s
  <2>3. ASSUME NEW p \in Ids, penalties[p].user = u, Unappealed(p)
        PROVE  level > penalties[p].level
    <3>1. PICK o : o = Newest(Active(u))
      OBVIOUS
    <3>2. o \in Ids /\ level > penalties[o].level
          /\ (p = o \/ penalties[p].level < penalties[o].level)
      BY <2>2, <2>3, <3>1, NewestIsHighest DEF MayIssue, Active
    <3>3. penalties[p].level \in Int /\ penalties[o].level \in Int /\ level \in Int
      BY <3>2, RowsTyped, BoundAssumption DEF Levels, WARNING, PERMANENT_BAN
    <3>4. QED BY <3>2, <3>3
  <2>4. Checked(s)
    BY <2>1, <2>3 DEF Checked
  <2>5. QED BY <1>2, <2>2, <2>4
<1>5. ASSUME NEW s, s.pc \notin {"insert", "publish"}
      PROVE  Checked(s)
  BY <1>5 DEF Checked
<1>6. ASSUME NEW p \in Ids, RevokePenalty(q, p) \/ SubmitAppeal(q, p)
      PROVE  Climbing' /\ \A o \in Requests : Checked(req[o])'
  <2>1. /\ Checked([Idle EXCEPT !.pc = "revoke", !.op = "revoke", !.p = p,
                                !.u = penalties[p].user])
        /\ Checked([Idle EXCEPT !.pc = "submit", !.op = "submit", !.p = p,
                                !.u = penalties[p].user])
    BY DEF Checked, Idle
  <2>2. QED BY <1>2, <1>6, <2>1 DEF RevokePenalty, SubmitAppeal
<1>7. ASSUME NEW p \in Ids, NEW action \in {"approve", "reject"}, ReviewAppeal(q, p, action)
      PROVE  Climbing' /\ \A o \in Requests : Checked(req[o])'
  <2>1. Checked([Idle EXCEPT !.pc = "load", !.op = action, !.p = p, !.u = penalties[p].user])
    BY DEF Checked, Idle
  <2>2. QED BY <1>2, <1>7, <2>1 DEF ReviewAppeal
<1>8. QED BY <1>1, <1>3, <1>4, <1>6, <1>7 DEF Arrival

LEMMA StepChecked ==
  ASSUME OneAtATime, BanInv, NEW q \in Requests, Step(q) \/ Fail(q)
  PROVE  Climbing' /\ \A o \in Requests : Checked(req[o])'
<1> DEFINE r == req[q]
<1> USE DEF BanInv, SuspensionInv
<1>0. /\ \A o \in Requests : o = q
      /\ r \in Request /\ Checked(r)
  BY DEF OneAtATime, TypeOK
<1>1. ASSUME NEW s, Goto(q, s), s.pc \notin {"insert", "publish"}
      PROVE  \A o \in Requests : Checked(req[o])'
  <2>1. req'[q] = s
    BY <1>1, GotoGives
  <2>2. QED BY <1>0, <1>1, <2>1 DEF Checked
<1>2. \A o \in Requests : Checked(req[o])'
  <2>1. Idle.pc = "idle" /\ ToScore(r).pc = "score"
    BY IdleType DEF Idle, ToScore
  <2>2. [r EXCEPT !.pc = "approved"].pc = "approved"
    BY <1>0 DEF Request
  <2>3. [r EXCEPT !.seen = penalties[r.p].status,
                  !.pc = IF r.op = "approve" THEN "score" ELSE "reject"].pc
        \in {"score", "reject"}
    BY <1>0 DEF Request
  <2>4. [r EXCEPT !.pc = "rescore", !.was = docked[r.u], !.due = (Active(r.u) # {})].pc
        = "rescore"
    BY <1>0 DEF Request
  <2>5. \E s : Goto(q, s) /\ s.pc \notin {"insert", "publish"}
    <3>1. CASE PublishContent(q) \/ Submit(q) \/ Reject(q) \/ Approve(q) \/ Fail(q)
      BY <2>1, <3>1 DEF PublishContent, Submit, Reject, Approve, Fail, Finish
    <3>2. CASE InsertPenalty(q) \/ Revoke(q)
      BY <2>1, <3>2 DEF InsertPenalty, Revoke
    <3>3. CASE LoadPenalty(q)
      BY <2>3, <3>3 DEF LoadPenalty
    <3>4. CASE ReadScore(q)
      BY <2>4, <3>4 DEF ReadScore
    <3>5. CASE SaveScore(q)
      BY <2>1, <2>2, <3>5 DEF SaveScore, Finish
    <3>6. QED BY <3>1, <3>2, <3>3, <3>4, <3>5 DEF Step
  <2>6. QED BY <1>1, <2>5
<1>3. Climbing'
  <2>1. CASE ~InsertPenalty(q)
    BY <2>1, StepSettled, SettledKeeps
  <2>2. CASE InsertPenalty(q)
    <3>1. lastId \in Nat /\ Ids = 1..lastId /\ Ids' = 1..(lastId + 1) /\ r.pc = "insert"
      BY <2>2 DEF TypeOK, Ids, InsertPenalty, At
    <3>2. /\ \A p \in Ids : penalties'[p] = penalties[p]
          /\ penalties'[lastId + 1].user = r.u /\ penalties'[lastId + 1].level = r.level
      BY <2>2, <3>1 DEF InsertPenalty
    <3>3. \A p \in Ids : Unappealed(p)' => Unappealed(p)
      BY <3>2 DEF Unappealed, InForce
    <3>4. ASSUME NEW p \in Ids', NEW o \in Ids', p < o,
                 penalties'[p].user = penalties'[o].user, Unappealed(p)'
          PROVE  penalties'[o].level > penalties'[p].level
      <4>1. p \in Ids /\ (o \in Ids \/ o = lastId + 1)
        BY <3>1, <3>4
      <4>2. penalties'[p] = penalties[p] /\ Unappealed(p)
        BY <3>2, <3>3, <3>4, <4>1
      <4>3. CASE o \in Ids
        BY <3>2, <3>4, <4>1, <4>2, <4>3 DEF Climbing
      <4>4. CASE o = lastId + 1
        BY <1>0, <3>1, <3>2, <3>4, <4>1, <4>2, <4>4 DEF Checked
      <4>5. QED BY <4>1, <4>3, <4>4
    <3>5. QED BY <3>4 DEF Climbing
  <2>3. QED BY <2>1, <2>2
<1>4. QED BY <1>2, <1>3

LEMMA BanInductive ==
  ASSUME OneAtATime
  PROVE  BanInv /\ [Next]_vars => BanInv'
<1>1. SUFFICES ASSUME BanInv, [Next]_vars PROVE BanInv'
  OBVIOUS
<1>2. SuspensionInv /\ SuspensionInv'
  BY <1>1, SuspensionInductive DEF BanInv
<1>3. Climbing' /\ \A o \in Requests : Checked(req[o])'
  <2>1. CASE UNCHANGED vars
    BY <1>1, <2>1 DEF vars, BanInv, Climbing, Checked, Unappealed, InForce, Ids
  <2>2. ASSUME NEW q \in Requests, Arrival(q)
        PROVE  Climbing' /\ \A o \in Requests : Checked(req[o])'
    BY <1>1, <2>2, ArrivalChecked
  <2>3. ASSUME NEW q \in Requests, Step(q) \/ Fail(q)
        PROVE  Climbing' /\ \A o \in Requests : Checked(req[o])'
    BY <1>1, <2>3, StepChecked
  <2>4. ASSUME NEW p \in Ids, Elapse(p)
        PROVE  Climbing' /\ \A o \in Requests : Checked(req[o])'
    <3>1. Settled /\ req' = req
      BY <1>2, <2>4, ElapseSettled DEF SuspensionInv, Elapse
    <3>2. Climbing'
      BY <1>1, <3>1, SettledKeeps DEF BanInv
    <3>3. \A o \in Requests : Checked(req[o])'
      BY <1>1, <3>1, SettledKeeps DEF BanInv, Checked
    <3>4. QED BY <3>2, <3>3
  <2>5. QED BY <1>1, <2>1, <2>2, <2>3, <2>4 DEF Next
<1>4. QED BY <1>2, <1>3 DEF BanInv

LEMMA BanInitially == Init => BanInv
<1>1. SUFFICES ASSUME Init PROVE BanInv
  OBVIOUS
<1>2. Ids = {} /\ \A q \in Requests : req[q] = Idle
  BY <1>1 DEF Init, Ids
<1>3. QED BY <1>1, <1>2, SuspensionInitially, IdleChecked DEF BanInv, Climbing

\* Handlers that run one at a time keep a banned user from publishing: when
\* content of a user appears, each ban in force on that user went through an
\* appeal (check_user_banned, which looks at the newest penalty only).
THEOREM BansAreKept == ASSUME OneAtATime PROVE Spec => BannedDontPublish
<1> DEFINE A == \A u \in Users : ~shown[u] /\ shown'[u] =>
                  \A p \in Active(u) : penalties[p].level = WARNING \/ penalties[p].appeal # "none"
<1>1. BanInv /\ [Next]_vars => [A]_vars
  <2>1. SUFFICES ASSUME BanInv, Next, NEW u \in Users, ~shown[u], shown'[u], NEW p \in Active(u),
                        penalties[p].appeal = "none"
                 PROVE  penalties[p].level = WARNING
    OBVIOUS
  <2>2. \A q \in Requests : Checked(req[q]) /\ TypeOK
    BY <2>1 DEF BanInv, SuspensionInv
  <2>3. PICK q \in Requests : PublishContent(q) /\ req[q].u = u
    <3>1. shown \in [Users -> BOOLEAN]
      BY <2>1 DEF BanInv, SuspensionInv, TypeOK
    <3>2. ASSUME NEW q \in Requests, Arrival(q) PROVE FALSE
      BY <2>1, <3>2
         DEF Arrival, Publish, IssuePenalty, RevokePenalty, SubmitAppeal, ReviewAppeal,
             ExpirePenalties
    <3>3. ASSUME NEW o \in Ids, Elapse(o) PROVE FALSE
      BY <2>1, <3>3 DEF Elapse
    <3>4. ASSUME NEW q \in Requests, Step(q) \/ Fail(q), ~PublishContent(q) PROVE FALSE
      <4>1. shown'[u] => shown[u]
        <5>1. CASE InsertPenalty(q)
          BY <3>1, <5>1 DEF InsertPenalty
        <5>2. CASE ~InsertPenalty(q)
          BY <3>4, <5>2 DEF Step, Revoke, Submit, LoadPenalty, Reject, ReadScore, SaveScore,
                            Approve, Fail
        <5>3. QED BY <5>1, <5>2
      <4>2. QED BY <2>1, <4>1
    <3>5. PICK q \in Requests : PublishContent(q)
      BY <2>1, <3>2, <3>3, <3>4 DEF Next
    <3>6. req[q].u = u
      BY <2>1, <3>1, <3>5 DEF PublishContent
    <3>7. QED BY <3>5, <3>6
  <2>4. p \in Ids /\ penalties[p].user = u /\ Unappealed(p) /\ req[q].pc = "publish"
    BY <2>1, <2>3 DEF Active, Unappealed, PublishContent, At
  <2>5. QED BY <2>2, <2>3, <2>4 DEF Checked
<1>2. QED
  BY <1>1, BanInitially, BanInductive, PTL DEF Spec, BannedDontPublish

-----------------------------------------------------------------------------
(* One handler at a time, none of which dies: appeals and penalties agree *)

Agreed(p) ==
  /\ penalties[p].appeal = "pending" <=> penalties[p].status = "appealed"
  /\ penalties[p].appeal = "approved" => penalties[p].status = "revoked"
\* Between the two commits of an approval.
Closing(p) == \E q \in Requests : At(q, "approved") /\ req[q].p = p
\* What a handler at work has read is still so.
StillSo(r) ==
  /\ r.pc \in {"load", "reject", "score", "rescore"} /\ Reviewing(r) =>
       Suspended(r.p) /\ (r.pc # "load" => r.seen = "appealed")
  /\ r.pc = "approved" => penalties[r.p].appeal = "pending" /\ penalties[r.p].status = "revoked"
  /\ r.pc \in {"submit", "revoke"} => r.p \in Ids /\ penalties[r.p].status = "active"
  /\ r.pc = "submit" => penalties[r.p].appeal = "none"
AgreeInv ==
  /\ SuspensionInv
  /\ \A p \in Ids : Agreed(p) \/ Closing(p)
  /\ \A q \in Requests : StillSo(req[q])

LEMMA IdleStill == StillSo(Idle)
BY DEF StillSo, Idle, Reviewing

\* One handler's step keeps the agreement when it does so for its own penalty.
LEMMA AgreeKept ==
  ASSUME OneAtATime, TypeOK, NEW q \in Requests, NEW s, Goto(q, s),
         \A p \in Ids' : Agreed(p)' \/ (s.pc = "approved" /\ s.p = p), StillSo(req[q])'
  PROVE  /\ \A p \in Ids' : Agreed(p)' \/ Closing(p)'
         /\ \A o \in Requests : StillSo(req[o])'
<1>1. req'[q] = s
  BY GotoGives
<1>2. QED BY <1>1 DEF OneAtATime, Closing, At

\* A request that leaves the rows alone.
LEMMA AgreeMoved ==
  ASSUME OneAtATime, AgreeInv, NEW q \in Requests, NEW s, Goto(q, s),
         UNCHANGED <<lastId, penalties>>, ~At(q, "approved"), StillSo(s)
  PROVE  /\ \A p \in Ids' : Agreed(p)' \/ Closing(p)'
         /\ \A o \in Requests : StillSo(req[o])'
<1>1. req'[q] = s
  BY GotoGives DEF AgreeInv, SuspensionInv
<1>2. \A p \in Ids' : Agreed(p)'
  BY DEF AgreeInv, Agreed, Closing, At, OneAtATime, Ids
<1>3. StillSo(req[q])'
  BY <1>1 DEF StillSo, Suspended, Reviewing, Ids
<1>4. QED BY <1>2, <1>3, AgreeKept DEF AgreeInv, SuspensionInv

LEMMA ArrivalAgrees ==
  ASSUME OneAtATime, AgreeInv, NEW q \in Requests, Arrival(q)
  PROVE  /\ \A p \in Ids' : Agreed(p)' \/ Closing(p)'
         /\ \A o \in Requests : StillSo(req[o])'
<1> DEFINE Goal == /\ \A p \in Ids' : Agreed(p)' \/ Closing(p)'
                   /\ \A o \in Requests : StillSo(req[o])'
<1>0. /\ \A o \in Requests : o = q
      /\ At(q, "idle") /\ \A p \in Ids : Agreed(p) /\ penalties[p] \in PenaltyRow
  <2>1. At(q, "idle")
    BY DEF Arrival, Publish, IssuePenalty, RevokePenalty, SubmitAppeal, ReviewAppeal,
           ExpirePenalties
  <2>2. \A o \in Requests : o = q
    BY DEF OneAtATime
  <2>3. \A p \in Ids : ~Closing(p)
    BY <2>1, <2>2 DEF Closing, At
  <2>4. QED BY <2>1, <2>2, <2>3 DEF AgreeInv, SuspensionInv, TypeOK
<1>1. CASE ExpirePenalties(q)
  <2>1. Ids' = Ids /\ req' = req
        /\ \A p \in Ids : \/ penalties'[p] = penalties[p]
                          \/ /\ penalties[p].status = "active"
                             /\ penalties'[p] = [penalties[p] EXCEPT !.status = "expired"]
    BY <1>1 DEF ExpirePenalties, Ids
  <2>2. \A p \in Ids' : Agreed(p)'
    BY <1>0, <2>1 DEF Agreed, PenaltyRow
  <2>3. \A o \in Requests : StillSo(req[o])'
    BY <1>0, <2>1 DEF StillSo, At
  <2>4. QED BY <2>2, <2>3
<1>2. ASSUME NEW s, Goto(q, s), UNCHANGED <<lastId, penalties>>, StillSo(s)
      PROVE  Goal
  BY <1>0, <1>2, AgreeMoved DEF At
<1>3. ASSUME NEW u \in Users, Publish(q, u) PROVE Goal
  <2>1. StillSo([Idle EXCEPT !.pc = "publish", !.op = "publish", !.u = u])
    BY DEF StillSo, Idle, Reviewing
  <2>2. QED BY <1>2, <1>3, <2>1 DEF Publish
<1>4. ASSUME NEW u \in Users, NEW level \in IssuedLevels, NEW bulk \in BOOLEAN,
             IssuePenalty(q, u, level, bulk)
      PROVE  Goal
  <2>1. StillSo([Idle EXCEPT !.pc = "insert", !.op = "issue", !.u = u, !.level = level,
                             !.bulk = bulk])
    BY DEF StillSo, Idle, Reviewing
  <2>2. QED BY <1>2, <1>4, <2>1 DEF IssuePenalty
<1>5. ASSUME NEW p \in Ids, RevokePenalty(q, p) PROVE Goal
  <2>1. StillSo([Idle EXCEPT !.pc = "revoke", !.op = "revoke", !.p = p, !.u = penalties[p].user])
    BY <1>5 DEF StillSo, Idle, Reviewing, RevokePenalty
  <2>2. QED BY <1>2, <1>5, <2>1 DEF RevokePenalty
<1>6. ASSUME NEW p \in Ids, SubmitAppeal(q, p) PROVE Goal
  <2>1. StillSo([Idle EXCEPT !.pc = "submit", !.op = "submit", !.p = p, !.u = penalties[p].user])
    BY <1>6 DEF StillSo, Idle, Reviewing, SubmitAppeal, CanAppeal
  <2>2. QED BY <1>2, <1>6, <2>1 DEF SubmitAppeal
<1>7. ASSUME NEW p \in Ids, NEW action \in {"approve", "reject"}, ReviewAppeal(q, p, action)
      PROVE  Goal
  <2>1. StillSo([Idle EXCEPT !.pc = "load", !.op = action, !.p = p, !.u = penalties[p].user])
    BY <1>0, <1>7 DEF StillSo, Idle, Reviewing, ReviewAppeal, Agreed, Suspended
  <2>2. QED BY <1>2, <1>7, <2>1 DEF ReviewAppeal
<1>8. QED BY <1>1, <1>3, <1>4, <1>5, <1>6, <1>7 DEF Arrival

LEMMA StepAgrees ==
  ASSUME OneAtATime, AgreeInv, NEW q \in Requests, Step(q)
  PROVE  /\ \A p \in Ids' : Agreed(p)' \/ Closing(p)'
         /\ \A o \in Requests : StillSo(req[o])'
<1> DEFINE r == req[q]
           Goal == /\ \A p \in Ids' : Agreed(p)' \/ Closing(p)'
                   /\ \A o \in Requests : StillSo(req[o])'
<1>0. /\ TypeOK /\ r \in Request /\ ReviewIsSound(r) /\ StillSo(r)
      /\ \A p \in Ids : /\ penalties[p] \in PenaltyRow
                        /\ Agreed(p) \/ (r.pc = "approved" /\ r.p = p)
  BY DEF OneAtATime, AgreeInv, SuspensionInv, TypeOK, ReviewsAreSound, Closing, At
<1>1. Idle.pc = "idle" /\ ToScore(r).pc = "score" /\ ToScore(r).op = r.op
  <2>1. Idle.pc = "idle"
    BY DEF Idle
  <2>2. ToScore(r).pc = "score" /\ ToScore(r).op = r.op
    BY IdleType DEF ToScore, Request
  <2>3. QED BY <2>1, <2>2
\* The rows but that of the request stay as they are.
<1>2. ASSUME NEW s, Goto(q, s), StillSo(req[q])', r.p \in Ids,
             NEW status, NEW appeal, RowSet(r.p, status, appeal),
             \/ s.pc = "approved" /\ s.p = r.p
             \/ /\ appeal = "pending" <=> status = "appealed"
                /\ appeal = "approved" => status = "revoked"
      PROVE  Goal
  <2>1. Ids' = Ids
    BY <1>2 DEF RowSet, Ids
  <2>2. ASSUME NEW p \in Ids PROVE Agreed(p)' \/ (s.pc = "approved" /\ s.p = p)
    <3>1. CASE p = r.p
      BY <1>2, <3>1 DEF RowSet, Agreed
    <3>2. CASE p # r.p
      BY <1>0, <1>2, <3>2 DEF RowSet, Agreed
    <3>3. QED BY <3>1, <3>2
  <2>3. QED BY <1>0, <1>2, <2>1, <2>2, AgreeKept
<1>3. ASSUME Finish(q) PROVE StillSo(req[q])'
  <2>1. req'[q] = Idle
    BY <1>0, <1>3, GotoGives DEF Finish
  <2>2. QED BY <1>1, <2>1 DEF StillSo
<1>4. ASSUME Goto(q, ToScore(r)), ~Reviewing(r) PROVE StillSo(req[q])'
  <2>1. req'[q] = ToScore(r)
    BY <1>0, <1>4, GotoGives
  <2>2. QED BY <1>1, <1>4, <2>1 DEF StillSo, Reviewing
<1>5. CASE PublishContent(q)
  BY <1>5, AgreeMoved, IdleStill DEF PublishContent, Finish, At
<1>6. CASE InsertPenalty(q)
  <2>1. ~Reviewing(r) /\ r.pc = "insert" /\ Goto(q, ToScore(r))
    BY <1>0, <1>6 DEF InsertPenalty, At, ReviewIsSound
  <2>2. /\ Ids' = Ids \cup {lastId + 1} /\ lastId + 1 \notin Ids
        /\ \A p \in Ids : penalties'[p] = penalties[p]
        /\ penalties'[lastId + 1].status = "active" /\ penalties'[lastId + 1].appeal = "none"
    BY <1>0, <1>6 DEF InsertPenalty, TypeOK, Ids
  <2>3. \A p \in Ids' : Agreed(p)'
    BY <1>0, <2>1, <2>2 DEF Agreed
  <2>4. QED BY <1>0, <1>4, <2>1, <2>3, AgreeKept
<1>7. CASE Revoke(q)
  <2>1. ~Reviewing(r) /\ r.p \in Ids /\ penalties[r.p].status = "active" /\ Agreed(r.p)
    BY <1>0, <1>7 DEF Revoke, At, ReviewIsSound, StillSo
  <2>2. RowSet(r.p, "revoked", penalties[r.p].appeal)
    BY <1>0, <1>7, <2>1 DEF Revoke, SetStatus, RowSet, TypeOK, PenaltyRow
  <2>3. Goto(q, ToScore(r)) /\ penalties[r.p].appeal # "pending"
    BY <1>7, <2>1 DEF Revoke, Agreed
  <2>4. QED BY <1>2, <1>4, <2>1, <2>2, <2>3
<1>8. CASE Submit(q)
  <2>1. r.p \in Ids /\ penalties[r.p].appeal = "none"
    BY <1>0, <1>8 DEF Submit, At, StillSo
  <2>2. RowSet(r.p, "appealed", "pending")
    BY <1>0, <1>8, <2>1 DEF Submit, RowSet, TypeOK, PenaltyRow
  <2>3. Goto(q, Idle) /\ StillSo(req[q])'
    BY <1>3, <1>8 DEF Submit, Finish
  <2>4. QED BY <1>2, <2>1, <2>2, <2>3
<1>9. CASE LoadPenalty(q)
  <2> DEFINE s == [r EXCEPT !.seen = penalties[r.p].status,
                            !.pc = IF r.op = "approve" THEN "score" ELSE "reject"]
  <2>1. Reviewing(r) /\ Suspended(r.p) /\ r.pc = "load"
    BY <1>0, <1>9 DEF LoadPenalty, At, ReviewIsSound, StillSo
  <2>2. Goto(q, s) /\ UNCHANGED <<lastId, penalties>>
    BY <1>9 DEF LoadPenalty
  <2>3. /\ s.seen = penalties[r.p].status /\ s.pc \in {"score", "reject"}
        /\ s.op = r.op /\ s.p = r.p
    BY <1>0 DEF Request
  <2> HIDE DEF s
  <2>4. StillSo(s)
    BY <2>1, <2>3 DEF StillSo, Suspended
  <2>5. QED BY <2>1, <2>2, <2>4, AgreeMoved DEF At
<1>10. CASE Reject(q)
  <2>1. /\ Reviewing(r) /\ r.p \in Ids /\ penalties[r.p] \in PenaltyRow
        /\ r.seen = "appealed"
    BY <1>0, <1>10 DEF Reject, At, ReviewIsSound, StillSo
  <2>2. RowSet(r.p, "active", "rejected")
    BY <1>0, <1>10, <2>1 DEF Reject, RowSet, TypeOK, PenaltyRow, Written
  <2>3. Goto(q, Idle) /\ StillSo(req[q])'
    BY <1>3, <1>10 DEF Reject, Finish
  <2>4. QED BY <1>2, <2>1, <2>2, <2>3
<1>11. CASE ReadScore(q)
  <2> DEFINE s == [r EXCEPT !.pc = "rescore", !.was = docked[r.u], !.due = (Active(r.u) # {})]
  <2>1. Goto(q, s) /\ UNCHANGED <<lastId, penalties>> /\ r.pc = "score"
    BY <1>11 DEF ReadScore, At
  <2>2. s.pc = "rescore" /\ s.op = r.op /\ s.p = r.p /\ s.seen = r.seen
    BY <1>0 DEF Request
  <2> HIDE DEF s
  <2>3. StillSo(s)
    BY <1>0, <2>1, <2>2 DEF StillSo, Reviewing
  <2>4. QED BY <2>1, <2>3, AgreeMoved DEF At
<1>12. CASE SaveScore(q)
  <2>1. CASE r.op # "approve"
    BY <1>12, <2>1, IdleStill, AgreeMoved DEF SaveScore, Finish, At
  <2>2. CASE r.op = "approve"
    <3> DEFINE s == [r EXCEPT !.pc = "approved"]
    <3>1. /\ Reviewing(r) /\ r.p \in Ids /\ penalties[r.p] \in PenaltyRow
          /\ Suspended(r.p) /\ r.seen = "appealed" /\ Agreed(r.p)
      BY <1>0, <1>12, <2>2 DEF SaveScore, At, ReviewIsSound, Reviewing, StillSo
    <3>2. Goto(q, s) /\ RowSet(r.p, "revoked", "pending")
      BY <1>0, <1>12, <2>2, <3>1
         DEF SaveScore, SetStatus, RowSet, TypeOK, PenaltyRow, Written, Agreed, Suspended
    <3>3. s.pc = "approved" /\ s.p = r.p
      BY <1>0 DEF Request
    <3> HIDE DEF s
    <3>4. req'[q] = s
      BY <1>0, <3>2, GotoGives
    <3>5. StillSo(req[q])'
      BY <3>2, <3>3, <3>4 DEF StillSo, RowSet
    <3>6. QED BY <1>2, <3>1, <3>2, <3>3, <3>5
  <2>3. QED BY <2>1, <2>2
<1>13. CASE Approve(q)
  <2>1. r.p \in Ids /\ penalties[r.p] \in PenaltyRow /\ penalties[r.p].status = "revoked"
    BY <1>0, <1>13 DEF Approve, At, ReviewIsSound, StillSo
  <2>2. RowSet(r.p, "revoked", "approved")
    BY <1>0, <1>13, <2>1 DEF Approve, RowSet, TypeOK, PenaltyRow
  <2>3. Goto(q, Idle) /\ StillSo(req[q])'
    BY <1>3, <1>13 DEF Approve, Finish
  <2>4. QED BY <1>2, <2>1, <2>2, <2>3
<1>14. QED
  BY <1>5, <1>6, <1>7, <1>8, <1>9, <1>10, <1>11, <1>12, <1>13 DEF Step

LEMMA AgreeInductive ==
  ASSUME OneAtATime, ~Failures
  PROVE  AgreeInv /\ [Next]_vars => AgreeInv'
<1>1. SUFFICES ASSUME AgreeInv, [Next]_vars PROVE AgreeInv'
  OBVIOUS
<1>2. SuspensionInv /\ SuspensionInv'
  BY <1>1, SuspensionInductive DEF AgreeInv
<1> DEFINE Goal == /\ \A p \in Ids' : Agreed(p)' \/ Closing(p)'
                   /\ \A o \in Requests : StillSo(req[o])'
<1>3. Goal
  <2>1. CASE UNCHANGED vars
    BY <1>1, <2>1 DEF vars, AgreeInv, Agreed, Closing, StillSo, Suspended, At, Ids
  <2>2. ASSUME NEW q \in Requests, Arrival(q) PROVE Goal
    BY <1>1, <2>2, ArrivalAgrees
  <2>3. ASSUME NEW q \in Requests, Step(q) PROVE Goal
    BY <1>1, <2>3, StepAgrees
  <2>4. ASSUME NEW p \in Ids, Elapse(p) PROVE Goal
    <3>1. /\ Ids' = Ids /\ req' = req
          /\ \A o \in Ids : /\ penalties'[o].appeal = penalties[o].appeal
                            /\ penalties'[o].status = penalties[o].status
      BY <1>2, <2>4 DEF Elapse, SuspensionInv, TypeOK, PenaltyRow, Ids
    <3>2. \A o \in Ids' : Agreed(o)' \/ Closing(o)'
      BY <1>1, <3>1 DEF AgreeInv, Agreed, Closing, At
    <3>3. \A q \in Requests : StillSo(req[q])'
      <4>1. ASSUME NEW q \in Requests
            PROVE  req[q].pc \in {"load", "reject", "score", "rescore", "approved"} /\ Reviewing(req[q])
                     => req[q].p \in Ids
        BY <1>2 DEF SuspensionInv, ReviewsAreSound, ReviewIsSound
      <4>2. ASSUME NEW q \in Requests
            PROVE  req[q].pc = "approved" => Reviewing(req[q])
        BY <1>2 DEF SuspensionInv, ReviewsAreSound, ReviewIsSound
      <4>3. QED BY <1>1, <3>1, <4>1, <4>2 DEF AgreeInv, StillSo, Suspended, Reviewing
    <3>4. QED BY <3>2, <3>3
  <2>5. \A q \in Requests : ~Fail(q)
    BY DEF Fail
  <2>6. QED BY <1>1, <2>1, <2>2, <2>3, <2>4, <2>5 DEF Next
<1>4. QED BY <1>2, <1>3 DEF AgreeInv

LEMMA AgreeInitially == Init => AgreeInv
<1>1. SUFFICES ASSUME Init PROVE AgreeInv
  OBVIOUS
<1>2. Ids = {} /\ \A q \in Requests : req[q] = Idle
  BY <1>1 DEF Init, Ids
<1>3. QED BY <1>1, <1>2, SuspensionInitially, IdleStill DEF AgreeInv

\* Handlers that run one at a time and are not killed leave every appeal in
\* step with its penalty: pending exactly while the penalty is suspended, and
\* approved only when it is revoked.
THEOREM AppealsFollow == ASSUME OneAtATime, ~Failures PROVE Spec => []AppealsAgree
<1>1. AgreeInv => AppealsAgree
  BY DEF AgreeInv, AppealsAgree, Quiet, Agreed, Closing, At
<1>2. QED BY <1>1, AgreeInitially, AgreeInductive, PTL DEF Spec

-----------------------------------------------------------------------------
(* One handler at a time, none of which dies: the deduction follows *)

PenaltiesOf(u) == {p \in Ids : penalties[p].user = u}
RevokedBut(u, P) == \A p \in PenaltiesOf(u) \ P : penalties[p].status = "revoked"
\* Deduction d is as the penalties of u want it, those in P taken as revoked.
FollowsBut(u, d, P) ==
  /\ (\E p \in PenaltiesOf(u) : Unappealed(p)) => d
  /\ RevokedBut(u, P) => ~d
\* The penalty that the approval under way is going to revoke.
ToRevoke(r) == IF r.op = "approve" THEN {r.p} ELSE {}
\* What a handler at work has read and computed of the score is still so.
ScoreStill(r) ==
  /\ r.pc = "rescore" => r.was = docked[r.u] /\ FollowsBut(r.u, r.due, ToRevoke(r))
  /\ r.pc = "revoke" \/ Reviewing(r) => r.p \in Ids /\ penalties[r.p].user = r.u
\* The score of u is about to be computed anew.
Rescoring(u) == \E q \in Requests : req[q].pc \in {"score", "rescore"} /\ req[q].u = u
DeductionInv ==
  /\ AgreeInv
  /\ \A u \in Users : FollowsBut(u, docked[u], {}) \/ Rescoring(u)
  /\ \A q \in Requests : ScoreStill(req[q])

\* Steps that only lift penalties, and revoke none but those in P.
Lifted(u, P) ==
  /\ PenaltiesOf(u)' = PenaltiesOf(u)
  /\ \A p \in PenaltiesOf(u) :
       /\ Unappealed(p)' => Unappealed(p)
       /\ p \notin P /\ penalties'[p].status = "revoked" => penalties[p].status = "revoked"

LEMMA FollowsWhenLifted ==
  ASSUME NEW u, NEW d, NEW P, NEW R, Lifted(u, P), FollowsBut(u, d, R), P \subseteq R
  PROVE  FollowsBut(u, d, R)'
BY DEF Lifted, FollowsBut, RevokedBut

\* The rows of everybody but their own users are as they were.
LEMMA LiftedWhenSet ==
  ASSUME TypeOK, NEW p \in Ids, NEW status, NEW appeal, RowSet(p, status, appeal),
         penalties' \in [Ids' -> PenaltyRow], penalties'[p].user = penalties[p].user,
         appeal # "none" \/ status # "active", NEW u, NEW P, status = "revoked" => p \in P
  PROVE  Lifted(u, P)
BY DEF Lifted, PenaltiesOf, Unappealed, InForce, RowSet, Ids

LEMMA DeductionKept ==
  ASSUME OneAtATime, TypeOK, NEW q \in Requests, NEW s, Goto(q, s),
         \A u \in Users : FollowsBut(u, docked[u], {})'
                          \/ (s.pc \in {"score", "rescore"} /\ s.u = u),
         ScoreStill(req[q])'
  PROVE  /\ \A u \in Users : FollowsBut(u, docked[u], {})' \/ Rescoring(u)'
         /\ \A o \in Requests : ScoreStill(req[o])'
<1>1. req'[q] = s
  BY GotoGives
<1>2. QED BY <1>1 DEF OneAtATime, Rescoring

\* Lifting penalties, the stored scores left alone, breaks nobody's deduction.
LEMMA FollowsStill ==
  ASSUME UNCHANGED docked, NEW u \in Users, Lifted(u, {}), FollowsBut(u, docked[u], {})
  PROVE  FollowsBut(u, docked[u], {})'
<1>1. PICK d : d = docked[u]
  OBVIOUS
<1>2. FollowsBut(u, d, {})'
  BY <1>1, FollowsWhenLifted
<1>3. QED BY <1>1, <1>2 DEF FollowsBut

LEMMA SameLifted ==
  ASSUME UNCHANGED <<lastId, penalties>>, NEW u, NEW P
  PROVE  Lifted(u, P)
BY DEF Lifted, PenaltiesOf, Unappealed, InForce, Ids

LEMMA ExpiryLifts ==
  ASSUME TypeOK, NEW q \in Requests, ExpirePenalties(q), NEW u
  PROVE  Lifted(u, {})
<1>1. \A p \in Ids : penalties[p] \in PenaltyRow
  BY RowsTyped
<1>2. Ids' = Ids /\ \A p \in Ids : \/ penalties'[p] = penalties[p]
                                   \/ penalties'[p] = [penalties[p] EXCEPT !.status = "expired"]
  BY DEF ExpirePenalties, Ids
<1>3. QED BY <1>1, <1>2 DEF Lifted, PenaltiesOf, Unappealed, InForce, PenaltyRow

LEMMA ElapseLifts ==
  ASSUME TypeOK, NEW p \in Ids, Elapse(p), NEW u
  PROVE  Lifted(u, {})
<1>1. penalties \in [Ids -> PenaltyRow] /\ Ids' = Ids
  BY DEF Elapse, TypeOK, Ids
<1>2. QED BY <1>1 DEF Elapse, Lifted, PenaltiesOf, Unappealed, InForce, PenaltyRow

LEMMA ArrivalDeducts ==
  ASSUME OneAtATime, DeductionInv, NEW q \in Requests, Arrival(q)
  PROVE  /\ \A u \in Users : FollowsBut(u, docked[u], {})' \/ Rescoring(u)'
         /\ \A o \in Requests : ScoreStill(req[o])'
<1> DEFINE Goal == /\ \A u \in Users : FollowsBut(u, docked[u], {})' \/ Rescoring(u)'
                   /\ \A o \in Requests : ScoreStill(req[o])'
<1>1. TypeOK
  BY DEF DeductionInv, AgreeInv, SuspensionInv
<1>2. req[q].pc = "idle" /\ UNCHANGED docked
  BY DEF Arrival, Publish, IssuePenalty, RevokePenalty, SubmitAppeal, ReviewAppeal,
         ExpirePenalties, At
<1>3. \A u \in Users : FollowsBut(u, docked[u], {})
  BY <1>2 DEF DeductionInv, Rescoring, OneAtATime
<1>4. CASE ExpirePenalties(q)
  <2>1. \A u \in Users : FollowsBut(u, docked[u], {})'
    BY <1>1, <1>2, <1>3, <1>4, ExpiryLifts, FollowsStill
  <2>2. req' = req /\ Ids' = Ids /\ \A p \in Ids : penalties'[p].user = penalties[p].user
    BY <1>1, <1>4, ExpirySettled DEF ExpirePenalties, Settled
  <2>3. \A o \in Requests : req[o].pc = "idle" /\ ScoreStill(req[o])
    BY <1>2 DEF OneAtATime, DeductionInv
  <2>4. \A o \in Requests : ScoreStill(req[o])'
    BY <2>2, <2>3 DEF ScoreStill, Reviewing
  <2>5. QED BY <2>1, <2>4
<1>5. ASSUME NEW s, Goto(q, s), UNCHANGED <<lastId, penalties>>, s.pc # "rescore",
             s.pc = "revoke" \/ Reviewing(s) => s.p \in Ids /\ penalties[s.p].user = s.u
      PROVE  Goal
  <2>1. \A u \in Users : FollowsBut(u, docked[u], {})'
    BY <1>2, <1>3, <1>5, SameLifted, FollowsStill
  <2>2. req'[q] = s
    BY <1>1, <1>5, GotoGives
  <2>3. ScoreStill(req[q])'
    BY <1>5, <2>2 DEF ScoreStill, Reviewing, Ids
  <2>4. QED BY <1>1, <1>5, <2>1, <2>3, DeductionKept
<1>6. ASSUME NEW u \in Users, Publish(q, u) PROVE Goal
  <2> DEFINE s == [Idle EXCEPT !.pc = "publish", !.op = "publish", !.u = u]
  <2>1. s.pc = "publish" /\ ~Reviewing(s)
    BY DEF Idle, Reviewing
  <2>2. Goto(q, s) /\ UNCHANGED <<lastId, penalties>>
    BY <1>6 DEF Publish
  <2> HIDE DEF s
  <2>3. QED BY <1>5, <2>1, <2>2
<1>7. ASSUME NEW u \in Users, NEW level \in IssuedLevels, NEW bulk \in BOOLEAN,
             IssuePenalty(q, u, level, bulk)
      PROVE  Goal
  <2> DEFINE s == [Idle EXCEPT !.pc = "insert", !.op = "issue", !.u = u, !.level = level,
                               !.bulk = bulk]
  <2>1. s.pc = "insert" /\ ~Reviewing(s)
    BY DEF Idle, Reviewing
  <2>2. Goto(q, s) /\ UNCHANGED <<lastId, penalties>>
    BY <1>7 DEF IssuePenalty
  <2> HIDE DEF s
  <2>3. QED BY <1>5, <2>1, <2>2
<1>8. ASSUME NEW p \in Ids, RevokePenalty(q, p) PROVE Goal
  <2> DEFINE s == [Idle EXCEPT !.pc = "revoke", !.op = "revoke", !.p = p,
                               !.u = penalties[p].user]
  <2>1. s.pc = "revoke" /\ s.p = p /\ s.u = penalties[p].user
    BY DEF Idle
  <2>2. Goto(q, s) /\ UNCHANGED <<lastId, penalties>>
    BY <1>8 DEF RevokePenalty
  <2> HIDE DEF s
  <2>3. QED BY <1>5, <2>1, <2>2
<1>9. ASSUME NEW p \in Ids, SubmitAppeal(q, p) PROVE Goal
  <2> DEFINE s == [Idle EXCEPT !.pc = "submit", !.op = "submit", !.p = p,
                               !.u = penalties[p].user]
  <2>1. s.pc = "submit" /\ ~Reviewing(s)
    BY DEF Idle, Reviewing
  <2>2. Goto(q, s) /\ UNCHANGED <<lastId, penalties>>
    BY <1>9 DEF SubmitAppeal
  <2> HIDE DEF s
  <2>3. QED BY <1>5, <2>1, <2>2
<1>10. ASSUME NEW p \in Ids, NEW action \in {"approve", "reject"}, ReviewAppeal(q, p, action)
       PROVE  Goal
  <2> DEFINE s == [Idle EXCEPT !.pc = "load", !.op = action, !.p = p, !.u = penalties[p].user]
  <2>1. s.pc = "load" /\ s.p = p /\ s.u = penalties[p].user
    BY DEF Idle
  <2>2. Goto(q, s) /\ UNCHANGED <<lastId, penalties>>
    BY <1>10 DEF ReviewAppeal
  <2> HIDE DEF s
  <2>3. QED BY <1>5, <2>1, <2>2
<1>11. QED BY <1>4, <1>6, <1>7, <1>8, <1>9, <1>10 DEF Arrival

\* The deduction that calculate_trust_score finds due.
LEMMA DueFollows ==
  ASSUME TypeOK, NEW r, StillSo(r), r.pc = "score"
  PROVE  FollowsBut(r.u, Active(r.u) # {}, ToRevoke(r))
<1>1. \A p \in PenaltiesOf(r.u) : Unappealed(p) => p \in Active(r.u)
  BY DEF PenaltiesOf, Unappealed, Active
<1>2. ASSUME NEW p \in Active(r.u), RevokedBut(r.u, ToRevoke(r)) PROVE FALSE
  <2>1. p \in PenaltiesOf(r.u) /\ penalties[p].status = "active"
    BY DEF Active, PenaltiesOf, InForce
  <2>2. r.op = "approve" /\ p = r.p
    BY <1>2, <2>1 DEF RevokedBut, ToRevoke
  <2>3. QED BY <2>1, <2>2 DEF StillSo, Reviewing, Suspended
<1>3. QED BY <1>1, <1>2 DEF FollowsBut

LEMMA StepDeducts ==
  ASSUME OneAtATime, DeductionInv, TypeOK', NEW q \in Requests, Step(q)
  PROVE  /\ \A u \in Users : FollowsBut(u, docked[u], {})' \/ Rescoring(u)'
         /\ \A o \in Requests : ScoreStill(req[o])'
<1> DEFINE r == req[q]
           Goal == /\ \A u \in Users : FollowsBut(u, docked[u], {})' \/ Rescoring(u)'
                   /\ \A o \in Requests : ScoreStill(req[o])'
<1>0. /\ TypeOK /\ r \in Request /\ ReviewIsSound(r) /\ StillSo(r) /\ ScoreStill(r)
      /\ \A u \in Users : FollowsBut(u, docked[u], {}) \/ (r.pc \in {"score", "rescore"} /\ r.u = u)
      /\ \A p \in Ids : penalties[p] \in PenaltyRow
  BY DEF OneAtATime, DeductionInv, AgreeInv, SuspensionInv, TypeOK, ReviewsAreSound, Rescoring
<1>1. Idle.pc = "idle" /\ ~Reviewing(Idle)
      /\ ToScore(r).pc = "score" /\ ToScore(r).op = r.op /\ ToScore(r).u = r.u
  <2>1. Idle.pc = "idle" /\ Idle.op = "none"
    BY DEF Idle
  <2>2. ToScore(r).pc = "score" /\ ToScore(r).op = r.op /\ ToScore(r).u = r.u
    BY IdleType DEF ToScore, Request
  <2>3. QED BY <2>1, <2>2 DEF Reviewing
\* Handlers that end, and those that go on to the score.
<1>2. ASSUME Finish(q) PROVE ScoreStill(req[q])'
  <2>1. req'[q] = Idle
    BY <1>0, <1>2, GotoGives DEF Finish
  <2>2. QED BY <1>1, <2>1 DEF ScoreStill, Reviewing
<1>3. ASSUME Goto(q, ToScore(r)), ~Reviewing(r) PROVE ScoreStill(req[q])'
  <2>1. req'[q] = ToScore(r)
    BY <1>0, <1>3, GotoGives
  <2>2. QED BY <1>1, <1>3, <2>1 DEF ScoreStill, Reviewing
\* Handlers that end with penalties lifted and the scores left alone.
<1>4. ASSUME Finish(q), r.pc \notin {"score", "rescore"}, UNCHANGED docked,
             \A u \in Users : Lifted(u, {})
      PROVE  Goal
  <2>1. \A u \in Users : FollowsBut(u, docked[u], {})'
    BY <1>0, <1>4, FollowsStill
  <2>2. QED BY <1>0, <1>2, <1>4, <2>1, DeductionKept DEF Finish
<1>5. ASSUME r.p \in Ids, NEW status, NEW appeal, RowSet(r.p, status, appeal),
             status # "revoked", appeal # "none",
             penalties'[r.p].user = penalties[r.p].user
      PROVE  \A u \in Users : Lifted(u, {})
  <2>1. penalties' \in [Ids' -> PenaltyRow]
    BY DEF TypeOK
  <2>2. QED BY <1>0, <1>5, <2>1, LiftedWhenSet
<1>6. CASE PublishContent(q)
  BY <1>4, <1>6, SameLifted DEF PublishContent, At
<1>7. CASE InsertPenalty(q)
  <2>1. ~Reviewing(r) /\ r.pc = "insert" /\ Goto(q, ToScore(r)) /\ UNCHANGED docked
    BY <1>0, <1>7 DEF InsertPenalty, At, ReviewIsSound
  <2>2. /\ Ids' = Ids \cup {lastId + 1} /\ lastId + 1 \notin Ids
        /\ \A p \in Ids : penalties'[p] = penalties[p]
        /\ penalties'[lastId + 1].user = r.u
    BY <1>0, <1>7 DEF InsertPenalty, TypeOK, Ids
  <2>3. ASSUME NEW u \in Users, u # r.u PROVE FollowsBut(u, docked[u], {})'
    <3>1. Lifted(u, {})
      BY <2>2, <2>3 DEF Lifted, PenaltiesOf, Unappealed, InForce
    <3>2. QED BY <1>0, <2>1, <2>3, <3>1, FollowsStill
  <2>4. QED BY <1>0, <1>1, <1>3, <2>1, <2>3, DeductionKept
<1>8. CASE Revoke(q)
  <2>1. ~Reviewing(r) /\ r.pc = "revoke" /\ Goto(q, ToScore(r)) /\ UNCHANGED docked
        /\ r.p \in Ids /\ penalties[r.p].user = r.u
    BY <1>0, <1>8 DEF Revoke, At, ReviewIsSound, ScoreStill
  <2>2. /\ Ids' = Ids /\ penalties'[r.p].user = r.u
        /\ \A p \in Ids \ {r.p} : penalties'[p] = penalties[p]
    BY <1>0, <1>8, <2>1 DEF Revoke, SetStatus, TypeOK, PenaltyRow, Ids
  <2>3. ASSUME NEW u \in Users, u # r.u PROVE FollowsBut(u, docked[u], {})'
    <3>1. Lifted(u, {})
      BY <2>1, <2>2, <2>3 DEF Lifted, PenaltiesOf, Unappealed, InForce
    <3>2. QED BY <1>0, <2>1, <2>3, <3>1, FollowsStill
  <2>4. QED BY <1>0, <1>1, <1>3, <2>1, <2>3, DeductionKept
<1>9. CASE Submit(q)
  <2>1. r.p \in Ids /\ r.pc = "submit" /\ penalties[r.p].appeal = "none"
    BY <1>0, <1>9 DEF Submit, At, StillSo
  <2>2. RowSet(r.p, "appealed", "pending") /\ penalties'[r.p].user = penalties[r.p].user
    BY <1>0, <1>9, <2>1 DEF Submit, RowSet, TypeOK, PenaltyRow
  <2>3. Finish(q) /\ UNCHANGED docked
    BY <1>9 DEF Submit
  <2>4. QED BY <1>4, <1>5, <2>1, <2>2, <2>3
<1>10. CASE LoadPenalty(q)
  <2> DEFINE s == [r EXCEPT !.seen = penalties[r.p].status,
                            !.pc = IF r.op = "approve" THEN "score" ELSE "reject"]
  <2>1. r.pc = "load" /\ Reviewing(r) /\ r.p \in Ids /\ penalties[r.p].user = r.u
    BY <1>0, <1>10 DEF LoadPenalty, At, ReviewIsSound, ScoreStill
  <2>2. Goto(q, s) /\ UNCHANGED <<lastId, penalties, docked>>
    BY <1>10 DEF LoadPenalty
  <2>3. s.pc \in {"score", "reject"} /\ s.p = r.p /\ s.u = r.u
    BY <1>0 DEF Request
  <2> HIDE DEF s
  <2>4. req'[q] = s
    BY <1>0, <2>2, GotoGives
  <2>5. ScoreStill(req[q])'
    BY <2>1, <2>2, <2>3, <2>4 DEF ScoreStill, Ids
  <2>6. \A u \in Users : FollowsBut(u, docked[u], {})'
    BY <1>0, <2>1, <2>2, SameLifted, FollowsStill
  <2>7. QED BY <1>0, <2>2, <2>5, <2>6, DeductionKept
<1>11. CASE Reject(q)
  <2>1. r.pc = "reject" /\ r.p \in Ids /\ r.seen = "appealed"
    BY <1>0, <1>11 DEF Reject, At, ReviewIsSound, StillSo
  <2>2. RowSet(r.p, "active", "rejected") /\ penalties'[r.p].user = penalties[r.p].user
    BY <1>0, <1>11, <2>1 DEF Reject, RowSet, TypeOK, PenaltyRow, Written
  <2>3. Finish(q) /\ UNCHANGED docked
    BY <1>11 DEF Reject
  <2>4. QED BY <1>4, <1>5, <2>1, <2>2, <2>3
<1>12. CASE ReadScore(q)
  <2> DEFINE s == [r EXCEPT !.pc = "rescore", !.was = docked[r.u], !.due = (Active(r.u) # {})]
  <2>1. Goto(q, s) /\ UNCHANGED <<lastId, penalties, docked>> /\ r.pc = "score"
    BY <1>12 DEF ReadScore, At
  <2>2. s.pc = "rescore" /\ s.op = r.op /\ s.p = r.p /\ s.u = r.u
        /\ s.was = docked[r.u] /\ s.due = (Active(r.u) # {})
    BY <1>0 DEF Request
  <2> HIDE DEF s
  <2>3. req'[q] = s
    BY <1>0, <2>1, GotoGives
  <2>4. FollowsBut(s.u, s.due, ToRevoke(s))
    BY <1>0, <2>1, <2>2, DueFollows DEF ToRevoke
  <2>5. ScoreStill(req[q])'
    <3>1. PICK t : t = s
      OBVIOUS
    <3>2. FollowsBut(t.u, t.due, ToRevoke(t))'
      BY <2>1, <2>4, <3>1
         DEF FollowsBut, RevokedBut, PenaltiesOf, Unappealed, InForce, ToRevoke, Ids
    <3>3. t.was = docked'[t.u] /\ (Reviewing(t) => t.p \in Ids' /\ penalties'[t.p].user = t.u)
      BY <1>0, <2>1, <2>2, <3>1 DEF ScoreStill, Reviewing, Ids
    <3>4. req'[q] = t /\ t.pc = "rescore"
      BY <2>2, <2>3, <3>1
    <3>5. QED BY <3>2, <3>3, <3>4 DEF ScoreStill, Reviewing
  <2>6. ASSUME NEW u \in Users, u # r.u PROVE FollowsBut(u, docked[u], {})'
    BY <1>0, <2>1, <2>6, SameLifted, FollowsStill
  <2>7. QED BY <1>0, <2>1, <2>2, <2>5, <2>6, DeductionKept
<1>13. CASE SaveScore(q)
  <2>1. /\ r.pc = "rescore" /\ r.u \in Users
        /\ docked' = [docked EXCEPT ![r.u] = r.due] /\ docked \in [Users -> BOOLEAN]
    <3>1. r.pc = "rescore" /\ r.was = docked[r.u] /\ r.u \in Users /\ docked \in [Users -> BOOLEAN]
      BY <1>0, <1>13 DEF SaveScore, At, ScoreStill, Request, TypeOK
    <3>2. docked' = [docked EXCEPT ![r.u] = r.due] \/ (r.due = r.was /\ UNCHANGED docked)
      BY <1>13 DEF SaveScore
    <3>3. QED BY <3>1, <3>2
  <2>2. PICK v, d, P : v = r.u /\ d = r.due /\ P = ToRevoke(r)
    OBVIOUS
  <2>3. FollowsBut(v, d, P) /\ v \in Users /\ docked'[v] = d
    BY <1>0, <2>1, <2>2 DEF ScoreStill
  <2>4. ASSUME NEW u \in Users \ {v}, Lifted(u, {}) PROVE FollowsBut(u, docked[u], {})'
    <3>1. PICK e : e = docked[u]
      OBVIOUS
    <3>2. FollowsBut(u, e, {}) /\ docked'[u] = e
      BY <1>0, <2>1, <2>2, <2>4, <3>1
    <3>3. FollowsBut(u, e, {})'
      BY <2>4, <3>2, FollowsWhenLifted
    <3>4. QED BY <3>2, <3>3 DEF FollowsBut
  <2>5. CASE r.op # "approve"
    <3>1. UNCHANGED <<lastId, penalties>> /\ Finish(q) /\ P = {}
      BY <1>13, <2>2, <2>5 DEF SaveScore, ToRevoke
    <3>2. FollowsBut(v, d, {})'
      BY <2>3, <3>1, SameLifted, FollowsWhenLifted
    <3>3. FollowsBut(v, docked[v], {})'
      BY <2>3, <3>2 DEF FollowsBut
    <3>4. \A u \in Users : FollowsBut(u, docked[u], {})'
      BY <2>4, <3>1, <3>3, SameLifted
    <3>5. QED BY <1>0, <1>2, <3>1, <3>4, DeductionKept DEF Finish
  <2>6. CASE r.op = "approve"
    <3> DEFINE s == [r EXCEPT !.pc = "approved"]
    <3>1. /\ Reviewing(r) /\ r.p \in Ids /\ penalties[r.p].user = v /\ P = {r.p}
          /\ Suspended(r.p) /\ r.seen = "appealed"
      BY <1>0, <2>1, <2>2, <2>6 DEF ReviewIsSound, Reviewing, StillSo, ScoreStill, ToRevoke
    <3>2. /\ Goto(q, s) /\ RowSet(r.p, "revoked", penalties[r.p].appeal)
          /\ penalties'[r.p].user = v
      BY <1>0, <1>13, <2>6, <3>1
         DEF SaveScore, SetStatus, RowSet, TypeOK, PenaltyRow, Written, Suspended
    <3>3. s.pc = "approved" /\ s.p = r.p /\ s.u = r.u
      BY <1>0 DEF Request
    <3> HIDE DEF s
    <3>4. penalties' \in [Ids' -> PenaltyRow]
      BY DEF TypeOK
    <3>5. Lifted(v, P)
      BY <1>0, <3>1, <3>2, <3>4, LiftedWhenSet
    <3>6. FollowsBut(v, d, P)'
      BY <2>3, <3>5, FollowsWhenLifted
    <3>7. FollowsBut(v, docked[v], {})'
      BY <2>3, <3>1, <3>2, <3>6 DEF FollowsBut, RevokedBut, RowSet
    <3>8. ASSUME NEW u \in Users \ {v} PROVE Lifted(u, {})
      BY <3>1, <3>2, <3>8 DEF RowSet, Lifted, PenaltiesOf, Unappealed, InForce, Ids
    <3>9. \A u \in Users : FollowsBut(u, docked[u], {})'
      BY <2>4, <3>7, <3>8
    <3>10. req'[q] = s
      BY <1>0, <3>2, GotoGives
    <3>11. ScoreStill(req[q])'
      BY <2>2, <3>1, <3>2, <3>3, <3>10 DEF ScoreStill, RowSet, Ids
    <3>12. QED BY <1>0, <3>2, <3>9, <3>11, DeductionKept
  <2>7. QED BY <2>5, <2>6
<1>14. CASE Approve(q)
  <2>1. r.p \in Ids /\ r.pc = "approved"
    BY <1>0, <1>14 DEF Approve, At, ReviewIsSound
  <2>2. penalties \in [Ids -> PenaltyRow] /\ Ids' = Ids
    BY <1>0, <1>14 DEF Approve, TypeOK, Ids
  <2>3. \A u \in Users : Lifted(u, {})
    BY <1>14, <2>1, <2>2 DEF Approve, Lifted, PenaltiesOf, Unappealed, InForce, PenaltyRow
  <2>4. Finish(q) /\ UNCHANGED docked
    BY <1>14 DEF Approve
  <2>5. QED BY <1>4, <2>1, <2>3, <2>4
<1>15. QED
  BY <1>6, <1>7, <1>8, <1>9, <1>10, <1>11, <1>12, <1>13, <1>14 DEF Step

LEMMA DeductionInductive ==
  ASSUME OneAtATime, ~Failures
  PROVE  DeductionInv /\ [Next]_vars => DeductionInv'
<1>1. SUFFICES ASSUME DeductionInv, [Next]_vars PROVE DeductionInv'
  OBVIOUS
<1>2. AgreeInv /\ AgreeInv' /\ TypeOK /\ TypeOK'
  BY <1>1, AgreeInductive DEF DeductionInv, AgreeInv, SuspensionInv
<1> DEFINE Goal == /\ \A u \in Users : FollowsBut(u, docked[u], {})' \/ Rescoring(u)'
                   /\ \A o \in Requests : ScoreStill(req[o])'
<1>3. Goal
  <2>1. CASE UNCHANGED vars
    BY <1>1, <2>1 DEF vars, DeductionInv, FollowsBut, RevokedBut, PenaltiesOf, Unappealed,
                      InForce, Rescoring, ScoreStill, ToRevoke, Reviewing, Ids
  <2>2. ASSUME NEW q \in Requests, Arrival(q) PROVE Goal
    BY <1>1, <2>2, ArrivalDeducts
  <2>3. ASSUME NEW q \in Requests, Step(q) PROVE Goal
    BY <1>1, <1>2, <2>3, StepDeducts
  <2>4. ASSUME NEW p \in Ids, Elapse(p) PROVE Goal
    <3>1. \A u : Lifted(u, {})
      BY <1>2, <2>4, ElapseLifts
    <3>2. UNCHANGED <<docked, req>> /\ Settled
      BY <1>2, <2>4, ElapseSettled DEF Elapse
    <3>3. \A u \in Users : FollowsBut(u, docked[u], {})' \/ Rescoring(u)'
      BY <1>1, <3>1, <3>2, FollowsStill DEF DeductionInv, Rescoring
    <3>4. ASSUME NEW o \in Requests PROVE ScoreStill(req[o])'
      <4>1. PICK r : r = req[o]
        OBVIOUS
      <4>2. ScoreStill(r) /\ req'[o] = r
        BY <1>1, <3>2, <4>1 DEF DeductionInv
      <4>3. r.pc = "rescore" => FollowsBut(r.u, r.due, ToRevoke(r))'
        <5>1. PICK P : P = ToRevoke(r)
          OBVIOUS
        <5>2. r.pc = "rescore" => FollowsBut(r.u, r.due, P)'
          BY <3>1, <4>2, <5>1, FollowsWhenLifted DEF ScoreStill
        <5>3. QED BY <5>1, <5>2 DEF ToRevoke
      <4>4. QED BY <3>2, <4>2, <4>3 DEF ScoreStill, Settled, Reviewing
    <3>5. QED BY <3>3, <3>4
  <2>5. \A q \in Requests : ~Fail(q)
    BY DEF Fail
  <2>6. QED BY <1>1, <2>1, <2>2, <2>3, <2>4, <2>5 DEF Next
<1>4. QED BY <1>2, <1>3 DEF DeductionInv

LEMMA DeductionInitially == Init => DeductionInv
<1>1. SUFFICES ASSUME Init PROVE DeductionInv
  OBVIOUS
<1>2. /\ Ids = {} /\ \A q \in Requests : req[q] = Idle
      /\ \A u \in Users : docked[u] = FALSE
  BY <1>1 DEF Init, Ids
<1>3. ScoreStill(Idle)
  BY DEF ScoreStill, Idle, Reviewing
<1>4. \A u \in Users : FollowsBut(u, docked[u], {})
  BY <1>2 DEF FollowsBut, RevokedBut, PenaltiesOf
<1>5. QED BY <1>1, <1>2, <1>3, <1>4, AgreeInitially DEF DeductionInv

\* Handlers that run one at a time and are not killed keep the trust score's
\* deduction with the penalties, although review_appeal computes it before the
\* revocation is flushed.
THEOREM DeductionIsCurrent == ASSUME OneAtATime, ~Failures PROVE Spec => []DeductionFollows
<1>1. DeductionInv => DeductionFollows
  <2>1. SUFFICES ASSUME DeductionInv, Quiet, NEW u \in Users
                 PROVE  /\ (\E p \in Active(u) : penalties[p].appeal = "none") => docked[u]
                        /\ (\A p \in Ids : penalties[p].user = u => penalties[p].status = "revoked")
                             => ~docked[u]
    BY DEF DeductionFollows
  <2>2. FollowsBut(u, docked[u], {})
    BY <2>1 DEF DeductionInv, Rescoring, Quiet, At
  <2>3. QED BY <2>2 DEF FollowsBut, RevokedBut, PenaltiesOf, Unappealed, Active
<1>2. QED BY <1>1, DeductionInitially, DeductionInductive, PTL DEF Spec
=============================================================================
