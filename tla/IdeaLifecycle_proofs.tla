----------------------- MODULE IdeaLifecycle_proofs -----------------------
(* Safety of IdeaLifecycle for every set of ideas, request slots and times. *)
EXTENDS IdeaLifecycle, FiniteSetTheorems, TLAPS

-----------------------------------------------------------------------------
(* Type correctness *)

\* A new row and the idle request are of their types.
LEMMA InitialRows == NewIdea \in IdeaRow /\ Idle \in Request
BY PeopleAssumption DEF NewIdea, Idle, Request, IdeaRow, IdeaStatus, Never

\* What an edit and a moderation make of a row, and their flush, are rows.
LEMMA EditedType ==
  ASSUME NEW row \in IdeaRow, NEW text \in Nat, NEW at \in Nat
  PROVE  Edited(row, text, at) \in IdeaRow
<1>1. EditCount(row, at) \in Nat
  BY DEF EditCount, IdeaRow
<1>2. CASE row.status = "approved"
  BY <1>1, <1>2 DEF Edited, IdeaRow, IdeaStatus
<1>3. CASE row.status = "rejected"
  BY <1>3 DEF Edited, IdeaRow, IdeaStatus
<1>4. CASE row.status \notin {"approved", "rejected"}
  BY <1>4 DEF Edited, IdeaRow
<1>5. QED BY <1>2, <1>3, <1>4

LEMMA ModeratedType ==
  ASSUME NEW row \in IdeaRow, NEW decision \in IdeaStatus
  PROVE  Moderated(row, decision) \in IdeaRow
BY DEF Moderated, Restored, IdeaRow, IdeaStatus

LEMMA MergedType ==
  ASSUME NEW db \in IdeaRow, NEW old \in IdeaRow, NEW new \in IdeaRow
  PROVE  Merged(db, old, new) \in IdeaRow
<1>1. \A S, d, o, n : d \in S /\ n \in S => Changed(d, o, n) \in S
  BY DEF Changed
<1>2. Changed(db.status, old.status, new.status) \in IdeaStatus \cup {"absent"}
  BY <1>1 DEF IdeaRow
<1>3. Changed(db.previous, old.previous, new.previous) \in {"none", "approved"}
  BY <1>1 DEF IdeaRow
<1>4. /\ Changed(db.text, old.text, new.text) \in Nat
      /\ Changed(db.comment, old.comment, new.comment) \in Nat
      /\ Changed(db.edit_count, old.edit_count, new.edit_count) \in Nat
      /\ Changed(db.last_edit_at, old.last_edit_at, new.last_edit_at) \in Nat
  BY <1>1 DEF IdeaRow
<1>5. QED BY <1>2, <1>3, <1>4 DEF Merged, IdeaRow

\* The time that an edit stores was read since it began.
LEMMA EditSaved ==
  ASSUME TypeOK, NEW q \in Requests, SaveEdit(q)
  PROVE  LET r == req[q]
         IN \E at \in Nat :
              /\ r.began <= at /\ at <= now
              /\ ideas' = [ideas EXCEPT ![r.i] = Merged(@, r.row, Edited(r.row, lastText + 1, at))]
              /\ IF r.row.status = "approved"
                 THEN /\ edits' = [edits EXCEPT ![r.i] = Append(@, at)]
                      /\ spanned' = [spanned EXCEPT ![r.i] = @ \cup Spanned(r)]
                 ELSE UNCHANGED <<edits, spanned>>
<1> DEFINE r == req[q]
<1>1. r.began \in Nat /\ now \in Nat
  BY DEF TypeOK, Request
<1>2. PICK at \in r.began..now :
        /\ ideas' = [ideas EXCEPT ![r.i] = Merged(@, r.row, Edited(r.row, lastText + 1, at))]
        /\ IF r.row.status = "approved"
           THEN /\ edits' = [edits EXCEPT ![r.i] = Append(@, at)]
                /\ spanned' = [spanned EXCEPT ![r.i] = @ \cup Spanned(r)]
           ELSE UNCHANGED <<edits, spanned>>
  BY DEF SaveEdit
<1>3. at \in Nat /\ r.began <= at /\ at <= now
  BY <1>1
<1>4. QED BY <1>2, <1>3

LEMMA ArrivalTyped ==
  ASSUME TypeOK, NEW q \in Requests, Arrival(q)
  PROVE  TypeOK'
<1>1. ASSUME NEW i \in Ideas, Create(q, i) PROVE TypeOK'
  <2>1. ideas' \in [Ideas -> IdeaRow]
    <3>1. lastText + 1 \in Nat /\ ideas[i] \in IdeaRow
      BY DEF TypeOK
    <3>2. [ideas[i] EXCEPT !.status = "pending", !.text = lastText + 1] \in IdeaRow
      BY <3>1 DEF IdeaRow, IdeaStatus
    <3>3. ideas' = [ideas EXCEPT ![i] =
                      [ideas[i] EXCEPT !.status = "pending", !.text = lastText + 1]]
      BY <1>1 DEF TypeOK, Create
    <3>4. QED BY <3>2, <3>3 DEF TypeOK
  <2>2. QED BY <1>1, <2>1 DEF TypeOK, Create
<1>2. ASSUME NEW i \in Ideas, UpdateIdea(q, i) PROVE TypeOK'
  <2>1. [Idle EXCEPT !.pc = "edit", !.i = i, !.row = ideas[i], !.began = now] \in Request
    BY InitialRows DEF TypeOK, Request
  <2>2. QED BY <1>2, <2>1 DEF TypeOK, UpdateIdea, Goto
<1>3. ASSUME NEW i \in Ideas, SoftDelete(q, i) PROVE TypeOK'
  BY <1>3 DEF TypeOK, SoftDelete, IdeaRow
<1>4. ASSUME NEW i \in Ideas, Restore(q, i) PROVE TypeOK'
  BY <1>4 DEF TypeOK, Restore, IdeaRow
<1>5. ASSUME NEW i \in Ideas, NEW decision \in Decisions, ModerateIdea(q, i, decision)
      PROVE  TypeOK'
  <2>1. [Idle EXCEPT !.pc = "moderate", !.i = i, !.row = ideas[i], !.decision = decision]
          \in Request
    BY InitialRows, PeopleAssumption DEF TypeOK, Request, IdeaStatus
  <2>2. QED BY <1>5, <2>1 DEF TypeOK, ModerateIdea, Goto
<1>6. QED BY <1>1, <1>2, <1>3, <1>4, <1>5 DEF Arrival

LEMMA StepTyped ==
  ASSUME TypeOK, NEW q \in Requests, Step(q)
  PROVE  TypeOK'
<1> DEFINE r == req[q]
<1>1. r \in Request /\ r.i \in Ideas /\ r.row \in IdeaRow /\ ideas[r.i] \in IdeaRow
  BY DEF TypeOK, Request
<1>2. CASE SaveEdit(q)
  <2>0. PICK at \in Nat :
          /\ ideas' = [ideas EXCEPT ![r.i] = Merged(@, r.row, Edited(r.row, lastText + 1, at))]
          /\ IF r.row.status = "approved"
             THEN /\ edits' = [edits EXCEPT ![r.i] = Append(@, at)]
                  /\ spanned' = [spanned EXCEPT ![r.i] = @ \cup Spanned(r)]
             ELSE UNCHANGED <<edits, spanned>>
    BY <1>2, EditSaved
  <2>1. Merged(ideas[r.i], r.row, Edited(r.row, lastText + 1, at)) \in IdeaRow
    <3>1. lastText + 1 \in Nat
      BY DEF TypeOK
    <3>2. Edited(r.row, lastText + 1, at) \in IdeaRow
      BY <1>1, <3>1, EditedType
    <3>3. QED BY <1>1, <3>2, MergedType
  <2>2. ideas' \in [Ideas -> IdeaRow]
    BY <1>1, <2>0, <2>1 DEF TypeOK
  <2>3. edits' \in [Ideas -> Seq(Nat)]
    <3>1. edits[r.i] \in Seq(Nat) /\ Append(edits[r.i], at) \in Seq(Nat)
      BY <1>1 DEF TypeOK
    <3>2. edits' = edits \/ edits' = [edits EXCEPT ![r.i] = Append(edits[r.i], at)]
      BY <1>1, <2>0 DEF TypeOK
    <3>3. QED BY <3>1, <3>2 DEF TypeOK
  <2>6. spanned' \in [Ideas -> SUBSET Nat]
    <3>1. Spanned(r) \subseteq Nat
      <4>1. r.began \in Nat /\ now \in Nat
        BY <1>1 DEF TypeOK, Request
      <4>2. Month(r.began) \in Nat /\ Month(now) \in Nat
        BY <4>1, LimitAssumption DEF Month
      <4>3. QED BY <4>2 DEF Spanned
    <3>2. QED BY <1>1, <2>0, <3>1 DEF TypeOK
  <2>4. req' \in [Requests -> Request]
    BY <1>2, InitialRows DEF TypeOK, SaveEdit, Finish, Goto
  <2>5. QED BY <1>2, <2>2, <2>3, <2>4, <2>6 DEF TypeOK, SaveEdit
<1>3. CASE SaveModeration(q)
  <2>1. r.decision \in IdeaStatus
    BY <1>1 DEF Request
  <2>2. Merged(ideas[r.i], r.row, Moderated(r.row, r.decision)) \in IdeaRow
    BY <1>1, <2>1, ModeratedType, MergedType
  <2>3. ideas' \in [Ideas -> IdeaRow]
    BY <1>1, <1>3, <2>2 DEF TypeOK, SaveModeration
  <2>4. reviewed' \in [Ideas -> Nat]
    BY <1>1, <1>3 DEF TypeOK, SaveModeration, IdeaRow
  <2>5. req' \in [Requests -> Request]
    BY <1>3, InitialRows DEF TypeOK, SaveModeration, Finish, Goto
  <2>6. QED BY <1>3, <2>3, <2>4, <2>5 DEF TypeOK, SaveModeration
<1>4. QED BY <1>2, <1>3 DEF Step

LEMMA InitTyped == Init => TypeOK
BY InitialRows DEF Init, TypeOK

LEMMA NextTyped == TypeOK /\ [Next]_vars => TypeOK'
<1> SUFFICES ASSUME TypeOK, [Next]_vars PROVE TypeOK'
  OBVIOUS
<1>1. CASE Tick
  BY <1>1 DEF TypeOK, Tick
<1>2. ASSUME NEW q \in Requests, Arrival(q) \/ Step(q) PROVE TypeOK'
  BY <1>2, ArrivalTyped, StepTyped
<1>3. CASE UNCHANGED vars
  BY <1>3 DEF TypeOK, vars
<1>4. QED BY <1>1, <1>2, <1>3 DEF Next

\* Every state of every behaviour is well typed: edits, moderations and their
\* partial flushes never make a row of any other shape (IdeaService, Idea).
THEOREM TypeCorrect == Spec => []TypeOK
<1>1. QED BY InitTyped, NextTyped, PTL DEF Spec

-----------------------------------------------------------------------------
(* Only admins publish *)

\* What a handler leaves of a sound row that it loaded and another it writes to.
LEMMA MergedPublished ==
  ASSUME NEW db \in IdeaRow, NEW old \in IdeaRow, NEW new \in IdeaRow,
         Published(Merged(db, old, new))
  PROVE  Published(db) \/ Published(new)
BY DEF Merged, Changed, Published

\* An edit makes public what was, a moderation what was or was approved now.
LEMMA EditedPublished ==
  ASSUME TypeOK, NEW row \in IdeaRow, NEW text, NEW at, Published(Edited(row, text, at))
  PROVE  Published(row)
<1>1. CASE row.status = "approved"
  BY <1>1 DEF Published
<1>2. CASE row.status = "rejected"
  BY <1>2 DEF Edited, Published, IdeaRow
<1>3. CASE row.status \notin {"approved", "rejected"}
  BY <1>3 DEF Edited, Published, IdeaRow
<1>4. QED BY <1>1, <1>2, <1>3

LEMMA ModeratedPublished ==
  ASSUME NEW row \in IdeaRow, NEW decision \in IdeaStatus,
         Published(Moderated(row, decision))
  PROVE  Published(row) \/ Moderated(row, decision).status = "approved"
BY DEF Moderated, Restored, Published, IdeaRow

\* A handler that flushes a sound row over the one in the table leaves all sound.
LEMMA FlushSound ==
  ASSUME TypeOK, RowsAreSound, NEW q \in Requests, Finish(q), ~At(q, "idle"),
         NEW new \in IdeaRow, new.status # "absent", new.text # 0,
         Published(new) => reviewed'[req[q].i] # 0,
         ideas' = [ideas EXCEPT ![req[q].i] = Merged(@, req[q].row, new)],
         \A i \in Ideas : reviewed[i] # 0 => reviewed'[i] # 0
  PROVE  RowsAreSound'
<1> DEFINE r == req[q]
           merged == Merged(ideas[r.i], r.row, new)
<1>1. r.i \in Ideas /\ r.row \in IdeaRow /\ ideas[r.i] \in IdeaRow
  BY DEF TypeOK, Request
<1>2. \A i \in Ideas : ideas'[i] = IF i = r.i THEN merged ELSE ideas[i]
  BY DEF TypeOK
<1>3. RowIsSound(r.i, ideas[r.i]) /\ ideas[r.i].status # "absent"
  BY <1>1 DEF RowsAreSound
<1>4. merged.status # "absent" /\ merged.text # 0
  BY <1>1, <1>3 DEF Merged, Changed, IdeaRow, RowIsSound
<1>5. Published(merged) => reviewed'[r.i] # 0
  BY <1>1, <1>3, MergedPublished DEF RowIsSound
<1>6. \A i \in Ideas : RowIsSound(i, ideas[i])'
  BY <1>2, <1>4, <1>5 DEF RowsAreSound, RowIsSound
<1>7. \A p \in Requests : /\ req'[p] = (IF p = q THEN Idle ELSE req[p])
                          /\ req[p].i \in Ideas
  BY DEF TypeOK, Finish, Goto, Request
<1>8. \A p \in Requests : ~At(p, "idle")' =>
        req'[p].row.status # "absent" /\ ideas'[req'[p].i].status # "absent"
  <2>1. SUFFICES ASSUME NEW p \in Requests, req'[p].pc # "idle"
                 PROVE  req'[p].row.status # "absent" /\ ideas'[req'[p].i].status # "absent"
    BY DEF At
  <2>2. req'[p] = req[p]
    <3>1. Idle.pc = "idle"
      BY DEF Idle
    <3>2. QED BY <1>7, <2>1, <3>1
  <2>3. req[p].row.status # "absent" /\ ideas[req[p].i].status # "absent"
    BY <2>1, <2>2 DEF RowsAreSound, At
  <2>4. QED BY <1>2, <1>4, <1>7, <2>2, <2>3
<1>9. \A p \in Requests : RowIsSound(req[p].i, req[p].row)'
  BY <1>7, InitialRows DEF RowsAreSound, RowIsSound, Published, Idle, NewIdea
<1>10. QED BY <1>6, <1>8, <1>9 DEF RowsAreSound

\* A handler that starts holds the row it read.
LEMMA LoadSound ==
  ASSUME TypeOK, RowsAreSound, NEW q \in Requests, NEW r \in Request, Goto(q, r),
         r.row = ideas[r.i], r.row.status # "absent",
         UNCHANGED <<ideas, reviewed>>
  PROVE  RowsAreSound'
<1>1. \A p \in Requests : req'[p] = IF p = q THEN r ELSE req[p]
  BY DEF TypeOK, Goto
<1>2. r.i \in Ideas /\ RowIsSound(r.i, r.row)
  BY DEF Request, RowsAreSound
<1>3. QED BY <1>1, <1>2 DEF RowsAreSound, RowIsSound, Published, At

LEMMA ArrivalSound ==
  ASSUME TypeOK, RowsAreSound, NEW q \in Requests, Arrival(q)
  PROVE  RowsAreSound'
<1>0. \A p \in Requests : req[p].i \in Ideas
  BY DEF TypeOK, Request
<1>1. ASSUME NEW i \in Ideas, Create(q, i) PROVE RowsAreSound'
  <2>1. \A j \in Ideas : /\ ideas'[j].previous = ideas[j].previous
                         /\ j # i => ideas'[j] = ideas[j]
    BY <1>1 DEF TypeOK, Create, IdeaRow
  <2>2. ideas'[i].status = "pending" /\ ideas'[i].text # 0
    BY <1>1 DEF TypeOK, Create, IdeaRow
  <2>3. \A j \in Ideas : RowIsSound(j, ideas[j])'
    BY <1>1, <2>1, <2>2 DEF RowsAreSound, RowIsSound, Published, Create
  <2>4. \A p \in Requests : ~At(p, "idle")' =>
          req'[p].row.status # "absent" /\ ideas'[req'[p].i].status # "absent"
    <3>1. SUFFICES ASSUME NEW p \in Requests, req[p].pc # "idle"
                   PROVE  req[p].row.status # "absent" /\ ideas'[req[p].i].status # "absent"
      BY <1>1 DEF Create, At
    <3>2. req[p].row.status # "absent" /\ ideas[req[p].i].status # "absent"
      BY <3>1 DEF RowsAreSound, At
    <3>3. QED BY <1>0, <2>1, <2>2, <3>2
  <2>5. \A p \in Requests : RowIsSound(req[p].i, req[p].row)'
    BY <1>1 DEF RowsAreSound, RowIsSound, Published, Create
  <2>6. QED BY <2>3, <2>4, <2>5 DEF RowsAreSound
<1>2. ASSUME NEW i \in Ideas, UpdateIdea(q, i) PROVE RowsAreSound'
  <2>1. [Idle EXCEPT !.pc = "edit", !.i = i, !.row = ideas[i], !.began = now] \in Request
    BY InitialRows DEF TypeOK, Request
  <2>2. QED BY <1>2, <2>1, LoadSound DEF UpdateIdea, Found, Idle
<1>3. ASSUME NEW i \in Ideas, SoftDelete(q, i) \/ Restore(q, i) PROVE RowsAreSound'
  <2>1. \A j \in Ideas : /\ ideas'[j].previous = ideas[j].previous
                         /\ ideas'[j].status = ideas[j].status
                         /\ ideas'[j].text = ideas[j].text
    <3>1. PICK b \in BOOLEAN : ideas' = [ideas EXCEPT ![i].deleted = b]
      BY <1>3 DEF SoftDelete, Restore
    <3>2. \A j \in Ideas : ideas'[j] = IF j = i THEN [ideas[i] EXCEPT !.deleted = b]
                                              ELSE ideas[j]
      BY <3>1 DEF TypeOK
    <3>3. \A j \in Ideas : ideas[j] \in IdeaRow
      BY DEF TypeOK
    <3>4. QED BY <3>2, <3>3 DEF IdeaRow
  <2>2. req' = req /\ reviewed' = reviewed
    BY <1>3 DEF SoftDelete, Restore
  <2>3. QED BY <1>0, <2>1, <2>2 DEF RowsAreSound, RowIsSound, Published, At
<1>4. ASSUME NEW i \in Ideas, NEW decision \in Decisions, ModerateIdea(q, i, decision)
      PROVE  RowsAreSound'
  <2>1. [Idle EXCEPT !.pc = "moderate", !.i = i, !.row = ideas[i], !.decision = decision]
          \in Request
    BY InitialRows, PeopleAssumption DEF TypeOK, Request, IdeaStatus
  <2>2. QED BY <1>4, <2>1, LoadSound DEF ModerateIdea, Found, Idle
<1>5. QED BY <1>1, <1>2, <1>3, <1>4 DEF Arrival

\* What a handler makes of a row that is there has a status and a text.
LEMMA EditedThere ==
  ASSUME NEW row \in IdeaRow, NEW text, NEW at, row.status # "absent"
  PROVE  Edited(row, text, at).status # "absent" /\ Edited(row, text, at).text = text
<1>1. CASE row.status = "approved"
  BY <1>1 DEF Edited, IdeaRow
<1>2. CASE row.status = "rejected"
  BY <1>2 DEF Edited, IdeaRow
<1>3. CASE row.status \notin {"approved", "rejected"}
  BY <1>3 DEF Edited, IdeaRow
<1>4. QED BY <1>1, <1>2, <1>3

LEMMA ModeratedThere ==
  ASSUME NEW row \in IdeaRow, NEW decision \in IdeaStatus, row.status # "absent"
  PROVE  /\ Moderated(row, decision).status # "absent"
         /\ Moderated(row, decision).text = row.text
BY DEF Moderated, Restored, IdeaRow, IdeaStatus

LEMMA SaveEditSound ==
  ASSUME TypeOK, RowsAreSound, NEW q \in Requests, SaveEdit(q)
  PROVE  RowsAreSound'
<1> DEFINE r == req[q]
<1>0. PICK at \in Nat :
        ideas' = [ideas EXCEPT ![r.i] = Merged(@, r.row, Edited(r.row, lastText + 1, at))]
  BY EditSaved
<1> DEFINE new == Edited(r.row, lastText + 1, at)
<1>1. r.i \in Ideas /\ r.row \in IdeaRow /\ lastText + 1 \in Nat /\ lastText + 1 # 0
  BY DEF TypeOK, Request
<1>2. ~At(q, "idle") /\ r.row.status # "absent" /\ RowIsSound(r.i, r.row)
  BY DEF SaveEdit, RowsAreSound, At
<1>3. new \in IdeaRow
  BY <1>1, EditedType
<1>4. new.status # "absent" /\ new.text # 0
  BY <1>1, <1>2, EditedThere
<1>5. Published(new) => reviewed[r.i] # 0
  BY <1>1, <1>2, EditedPublished DEF RowIsSound
<1>6. /\ Finish(q) /\ reviewed' = reviewed
      /\ ideas' = [ideas EXCEPT ![r.i] = Merged(@, r.row, new)]
  BY <1>0 DEF SaveEdit
<1>7. QED BY <1>2, <1>3, <1>4, <1>5, <1>6, FlushSound

LEMMA SaveModerationSound ==
  ASSUME TypeOK, RowsAreSound, NEW q \in Requests, SaveModeration(q)
  PROVE  RowsAreSound'
<1> DEFINE r == req[q]
           new == Moderated(r.row, r.decision)
<1>1. r.i \in Ideas /\ r.row \in IdeaRow /\ r.decision \in IdeaStatus
  BY DEF TypeOK, Request
<1>2. ~At(q, "idle") /\ r.row.status # "absent" /\ RowIsSound(r.i, r.row)
  BY DEF SaveModeration, RowsAreSound, At
<1>3. new \in IdeaRow
  BY <1>1, ModeratedType
<1>4. new.status # "absent" /\ new.text # 0
  BY <1>1, <1>2, ModeratedThere DEF RowIsSound
<1>5. /\ Finish(q)
      /\ ideas' = [ideas EXCEPT ![r.i] = Merged(@, r.row, new)]
      /\ reviewed' = IF new.status = "approved" THEN [reviewed EXCEPT ![r.i] = r.row.text]
                                                ELSE reviewed
  BY DEF SaveModeration
<1>6. \A i \in Ideas : reviewed[i] # 0 => reviewed'[i] # 0
  BY <1>1, <1>2, <1>5 DEF TypeOK, RowIsSound
<1>7. Published(new) => reviewed'[r.i] # 0
  <2>1. CASE new.status = "approved"
    BY <1>1, <1>2, <1>5, <2>1 DEF TypeOK, RowIsSound
  <2>2. CASE new.status # "approved"
    BY <1>1, <1>2, <1>5, <2>2, ModeratedPublished DEF RowIsSound
  <2>3. QED BY <2>1, <2>2
<1>8. QED BY <1>2, <1>3, <1>4, <1>5, <1>6, <1>7, FlushSound

LEMMA InitPublish == Init => PublishInv
<1>1. ASSUME Init PROVE RowsAreSound
  BY <1>1 DEF Init, RowsAreSound, RowIsSound, Published, NewIdea, Idle, At
<1>2. QED BY <1>1, InitTyped DEF PublishInv

LEMMA NextPublish == PublishInv /\ [Next]_vars => PublishInv'
<1> SUFFICES ASSUME PublishInv, [Next]_vars PROVE PublishInv'
  OBVIOUS
<1>1. TypeOK /\ RowsAreSound
  BY DEF PublishInv
<1>2. ASSUME Tick PROVE RowsAreSound'
  BY <1>1, <1>2 DEF Tick, RowsAreSound, RowIsSound, Published, At
<1>3. ASSUME NEW q \in Requests, Arrival(q) PROVE RowsAreSound'
  BY <1>1, <1>3, ArrivalSound
<1>4. ASSUME NEW q \in Requests, Step(q) PROVE RowsAreSound'
  BY <1>1, <1>4, SaveEditSound, SaveModerationSound DEF Step
<1>5. ASSUME UNCHANGED vars PROVE RowsAreSound'
  BY <1>1, <1>5 DEF vars, RowsAreSound, RowIsSound, Published, At
<1>6. RowsAreSound'
  BY <1>2, <1>3, <1>4, <1>5 DEF Next
<1>7. QED BY <1>1, <1>6, NextTyped DEF PublishInv

\* Whatever edits, moderations, deletions and restorations overlap, no idea is
\* public, or can become public by restore_previous_status, unless a moderation
\* that approved it has committed (IdeaService.moderate_idea).
THEOREM OnlyApprovedIsPublic == Spec => []OnlyAdminsPublish
<1>1. PublishInv => OnlyAdminsPublish
  BY DEF PublishInv, RowsAreSound, RowIsSound, Published, OnlyAdminsPublish
<1>2. QED BY <1>1, InitPublish, NextPublish, PTL DEF Spec

-----------------------------------------------------------------------------
(* Edits are never overcounted *)

\* The edits of a month are finitely many, none is lost when one more is made,
\* and that one counts.
LEMMA InMonthType ==
  ASSUME NEW times \in Seq(Nat), NEW t
  PROVE  IsFiniteSet(InMonth(times, t)) /\ Cardinality(InMonth(times, t)) \in Nat
<1>1. IsFiniteSet(1..Len(times))
  BY FS_Interval
<1>2. InMonth(times, t) \subseteq 1..Len(times)
  BY DEF InMonth
<1>3. QED BY <1>1, <1>2, FS_Subset, FS_CardinalityType

LEMMA OneMoreEdit ==
  ASSUME NEW times \in Seq(Nat), NEW t, NEW s \in Nat
  PROVE  LET more == Append(times, s)
         IN  /\ Cardinality(InMonth(times, t)) <= Cardinality(InMonth(more, t))
             /\ Month(s) = Month(t) =>
                  Cardinality(InMonth(more, t)) = Cardinality(InMonth(times, t)) + 1
<1> DEFINE more == Append(times, s)
           last == Len(times) + 1
<1>1. more \in Seq(Nat) /\ DOMAIN more = DOMAIN times \cup {last} /\ last \notin DOMAIN times
  OBVIOUS
<1>2. more[last] = s /\ \A k \in DOMAIN times : more[k] = times[k]
  OBVIOUS
<1>3. InMonth(times, t) \subseteq InMonth(more, t)
  BY <1>1, <1>2 DEF InMonth
<1>4. Cardinality(InMonth(times, t)) <= Cardinality(InMonth(more, t))
  BY <1>1, <1>3, InMonthType, FS_Subset
<1>5. ASSUME Month(s) = Month(t)
      PROVE  Cardinality(InMonth(more, t)) = Cardinality(InMonth(times, t)) + 1
  <2>1. InMonth(more, t) = InMonth(times, t) \cup {last} /\ last \notin InMonth(times, t)
    BY <1>1, <1>2, <1>5 DEF InMonth
  <2>2. QED BY <2>1, InMonthType, FS_AddElement
<1>6. QED BY <1>4, <1>5

\* Months follow each other as times do.
LEMMA MonthsFollow ==
  ASSUME NEW s \in Nat, NEW t \in Nat, s <= t
  PROVE  Month(s) \in Nat /\ Month(t) \in Nat /\ Month(s) <= Month(t)
BY LimitAssumption DEF Month

\* Edits and moderations write the counters only as update_edit_tracking does.
LEMMA EditedCounters ==
  ASSUME NEW row \in IdeaRow, NEW text, NEW at, NEW db \in IdeaRow
  PROVE  LET merged == Merged(db, row, Edited(row, text, at))
         IN  IF row.status = "approved"
             THEN /\ merged.edit_count = Changed(db.edit_count, row.edit_count, EditCount(row, at))
                  /\ merged.last_edit_at = Changed(db.last_edit_at, row.last_edit_at, at)
             ELSE /\ merged.edit_count = db.edit_count
                  /\ merged.last_edit_at = db.last_edit_at
<1>1. CASE row.status = "approved"
  BY <1>1 DEF Edited, Merged, IdeaRow
<1>2. CASE row.status = "rejected"
  BY <1>2 DEF Edited, Merged, Changed, IdeaRow
<1>3. CASE row.status \notin {"approved", "rejected"}
  BY <1>3 DEF Edited, Merged, Changed, IdeaRow
<1>4. QED BY <1>1, <1>2, <1>3

LEMMA ModeratedCounters ==
  ASSUME NEW row \in IdeaRow, NEW decision, NEW db \in IdeaRow
  PROVE  LET merged == Merged(db, row, Moderated(row, decision))
         IN  /\ merged.edit_count = db.edit_count
             /\ merged.last_edit_at = db.last_edit_at
BY DEF Moderated, Restored, Merged, Changed, IdeaRow

\* A sound count stays so when an edit is added.
LEMMA SoundCountStays ==
  ASSUME TypeOK, TypeOK', NEW i \in Ideas, NEW row \in IdeaRow, CountIsSound(i, row),
         \A t : Cardinality(InMonth(edits[i], t)) <= Cardinality(InMonth(edits'[i], t)),
         spanned[i] \subseteq spanned'[i]
  PROVE  \/ row.edit_count <= Cardinality(InMonth(edits'[i], row.last_edit_at))
         \/ Month(row.last_edit_at) \in spanned'[i]
<1>1. row.edit_count \in Nat /\ edits[i] \in Seq(Nat) /\ edits'[i] \in Seq(Nat)
  BY DEF TypeOK, IdeaRow
<1>2. /\ Cardinality(InMonth(edits[i], row.last_edit_at)) \in Nat
      /\ Cardinality(InMonth(edits'[i], row.last_edit_at)) \in Nat
  BY <1>1, InMonthType
<1>3. QED BY <1>1, <1>2 DEF CountIsSound

\* What a running edit knows stays true as edits are added: of a month not
\* before its own, or over the beginning of its month.
LEMMA EditStaysSound ==
  ASSUME TypeOK, TypeOK', NEW r \in Request, EditIsSound(r), now' = now,
         \A t : Cardinality(InMonth(edits[r.i], t)) <= Cardinality(InMonth(edits'[r.i], t)),
         spanned[r.i] \subseteq spanned'[r.i],
         \/ /\ ideas'[r.i].edit_count = ideas[r.i].edit_count
            /\ ideas'[r.i].last_edit_at = ideas[r.i].last_edit_at
         \/ Month(ideas'[r.i].last_edit_at) >= Month(r.began)
         \/ Month(r.began) \in spanned'[r.i]
  PROVE  r.pc = "edit" =>
           /\ r.began <= now'
           /\ \/ r.row.edit_count <= Cardinality(InMonth(edits'[r.i], r.row.last_edit_at))
              \/ Month(r.row.last_edit_at) \in spanned'[r.i]
           /\ r.row.status = "approved" => r.row.last_edit_at < r.began
           /\ \/ ideas'[r.i].edit_count = r.row.edit_count
              \/ Month(ideas'[r.i].last_edit_at) >= Month(r.began)
              \/ Month(r.began) \in spanned'[r.i]
<1>1. SUFFICES ASSUME r.pc = "edit"
               PROVE  /\ r.began <= now
                      /\ \/ r.row.edit_count <= Cardinality(InMonth(edits'[r.i], r.row.last_edit_at))
                         \/ Month(r.row.last_edit_at) \in spanned'[r.i]
                      /\ r.row.status = "approved" => r.row.last_edit_at < r.began
                      /\ \/ ideas'[r.i].edit_count = r.row.edit_count
                         \/ Month(ideas'[r.i].last_edit_at) >= Month(r.began)
                         \/ Month(r.began) \in spanned'[r.i]
  OBVIOUS
<1>2. r.i \in Ideas /\ r.row \in IdeaRow
  BY DEF Request
<1>3. /\ r.began <= now /\ CountIsSound(r.i, r.row)
      /\ r.row.status = "approved" => r.row.last_edit_at < r.began
      /\ \/ ideas[r.i].edit_count = r.row.edit_count
         \/ Month(ideas[r.i].last_edit_at) >= Month(r.began)
         \/ Month(r.began) \in spanned[r.i]
  BY <1>1 DEF EditIsSound
<1>4. \/ r.row.edit_count <= Cardinality(InMonth(edits'[r.i], r.row.last_edit_at))
      \/ Month(r.row.last_edit_at) \in spanned'[r.i]
  BY <1>2, <1>3, SoundCountStays
<1>5. QED BY <1>3, <1>4

\* A step that leaves the counters and the edits alone keeps the invariant, if
\* every request that edits was already, or has just read its row.
JustRead(r) ==
  /\ r.row = ideas[r.i] /\ r.began = now
  /\ r.row.status = "approved" => MayEditApproved(r.row, now)

LEMMA SameCounters ==
  ASSUME CountInv, TypeOK', now' = now, edits' = edits, spanned' = spanned,
         \A i \in Ideas : /\ ideas'[i].edit_count = ideas[i].edit_count
                          /\ ideas'[i].last_edit_at = ideas[i].last_edit_at,
         \A q \in Requests : \/ req'[q] = req[q]
                             \/ req'[q].pc # "edit"
                             \/ JustRead(req'[q])
  PROVE  CountInv'
<1>1. /\ TypeOK /\ EditsNeverOvercounted /\ \A q \in Requests : EditIsSound(req[q])
      /\ now \in Nat /\ now > 0 /\ \A i \in Ideas : ideas[i].last_edit_at <= now
  BY DEF CountInv, TypeOK
<1>2. EditsNeverOvercounted' /\ now' > 0 /\ \A i \in Ideas : ideas'[i].last_edit_at <= now'
  BY <1>1 DEF EditsNeverOvercounted, CountIsSound
<1>3. ASSUME NEW q \in Requests PROVE EditIsSound(req[q])'
  <2>1. req'[q] \in Request /\ req'[q].i \in Ideas
    BY DEF TypeOK, Request
  <2>2. CASE req'[q] = req[q]
    BY <1>1, <2>1, <2>2 DEF EditIsSound, CountIsSound
  <2>3. CASE req'[q].pc # "edit"
    BY <2>3 DEF EditIsSound
  <2>4. CASE JustRead(req'[q])
    <3> DEFINE r == req'[q]
    <3>1. r.row = ideas[r.i] /\ r.began = now /\ CountIsSound(r.i, ideas[r.i])
      BY <1>1, <2>1, <2>4 DEF JustRead, EditsNeverOvercounted
    <3>2. r.row.status = "approved" => r.row.last_edit_at < now
      <4>1. /\ r.row.last_edit_at \in Nat
            /\ EDIT_COOLDOWN \in Nat /\ EDIT_COOLDOWN >= 1
        BY <2>1, LimitAssumption DEF Request, IdeaRow
      <4>2. CASE r.row.last_edit_at = Never
        BY <1>1, <4>2 DEF Never
      <4>3. CASE r.row.last_edit_at # Never
        BY <1>1, <2>4, <4>1, <4>3 DEF JustRead, MayEditApproved
      <4>4. QED BY <4>2, <4>3
    <3>3. r.began <= now'
      BY <1>1, <3>1
    <3>4. ideas'[r.i].edit_count = r.row.edit_count
      BY <2>1, <3>1
    <3>5. \/ r.row.edit_count <= Cardinality(InMonth(edits'[r.i], r.row.last_edit_at))
          \/ Month(r.row.last_edit_at) \in spanned'[r.i]
      BY <3>1 DEF CountIsSound
    <3>6. QED BY <3>1, <3>2, <3>3, <3>4, <3>5 DEF EditIsSound, CountIsSound
  <2>5. QED BY <2>2, <2>3, <2>4
<1>4. QED BY <1>2, <1>3 DEF CountInv

LEMMA ArrivalCounted ==
  ASSUME CountInv, NEW q \in Requests, Arrival(q)
  PROVE  CountInv'
<1>1. TypeOK /\ TypeOK'
  BY ArrivalTyped DEF CountInv
<1>2. \A i \in Ideas : ideas[i] \in IdeaRow
  BY <1>1 DEF TypeOK
<1>3. ASSUME NEW i \in Ideas, Create(q, i) PROVE CountInv'
  <2>1. \A j \in Ideas : /\ ideas'[j].edit_count = ideas[j].edit_count
                         /\ ideas'[j].last_edit_at = ideas[j].last_edit_at
    BY <1>1, <1>2, <1>3 DEF TypeOK, Create, IdeaRow
  <2>2. UNCHANGED <<now, edits, spanned, req>>
    BY <1>3 DEF Create
  <2>3. QED BY <1>1, <2>1, <2>2, SameCounters
<1>4. ASSUME NEW i \in Ideas, SoftDelete(q, i) \/ Restore(q, i) PROVE CountInv'
  <2>1. PICK b \in BOOLEAN : ideas' = [ideas EXCEPT ![i].deleted = b]
    BY <1>4 DEF SoftDelete, Restore
  <2>2. \A j \in Ideas : ideas'[j] = IF j = i THEN [ideas[i] EXCEPT !.deleted = b]
                                              ELSE ideas[j]
    BY <1>1, <2>1 DEF TypeOK
  <2>3. \A j \in Ideas : /\ ideas'[j].edit_count = ideas[j].edit_count
                         /\ ideas'[j].last_edit_at = ideas[j].last_edit_at
    BY <1>2, <2>2 DEF IdeaRow
  <2>4. UNCHANGED <<now, edits, spanned, req>>
    BY <1>4 DEF SoftDelete, Restore
  <2>5. QED BY <1>1, <2>3, <2>4, SameCounters
<1>5. ASSUME NEW i \in Ideas, UpdateIdea(q, i) PROVE CountInv'
  <2>1. PICK r : r = [Idle EXCEPT !.pc = "edit", !.i = i, !.row = ideas[i], !.began = now]
    OBVIOUS
  <2>2. r.row = ideas[i] /\ r.i = i /\ r.began = now
    BY <2>1, InitialRows DEF Request
  <2>3. /\ \A p \in Requests : req'[p] = IF p = q THEN r ELSE req[p]
        /\ ideas[i].status = "approved" => MayEditApproved(ideas[i], now)
    BY <1>1, <1>5, <2>1 DEF TypeOK, UpdateIdea, Goto
  <2>4. JustRead(r)
    BY <2>2, <2>3 DEF JustRead
  <2>5. UNCHANGED <<now, edits, spanned, ideas>>
    BY <1>5 DEF UpdateIdea
  <2>6. QED BY <1>1, <2>3, <2>4, <2>5, SameCounters
<1>6. ASSUME NEW i \in Ideas, NEW decision \in Decisions, ModerateIdea(q, i, decision)
      PROVE  CountInv'
  <2> DEFINE r == [Idle EXCEPT !.pc = "moderate", !.i = i, !.row = ideas[i],
                               !.decision = decision]
  <2>1. \A p \in Requests : req'[p] = IF p = q THEN r ELSE req[p]
    BY <1>1, <1>6 DEF TypeOK, ModerateIdea, Goto
  <2>2. r.pc # "edit"
    BY InitialRows DEF Request
  <2>3. UNCHANGED <<now, edits, spanned, ideas>>
    BY <1>6 DEF ModerateIdea
  <2>4. QED BY <1>1, <2>1, <2>2, <2>3, SameCounters
<1>7. QED BY <1>3, <1>4, <1>5, <1>6 DEF Arrival

LEMMA SaveModerationCounted ==
  ASSUME CountInv, NEW q \in Requests, SaveModeration(q)
  PROVE  CountInv'
<1> DEFINE r == req[q]
           merged == Merged(ideas[r.i], r.row, Moderated(r.row, r.decision))
<1>1. TypeOK /\ TypeOK'
  BY StepTyped DEF CountInv, Step
<1>2. r.row \in IdeaRow /\ r.i \in Ideas /\ ideas[r.i] \in IdeaRow
  BY <1>1 DEF TypeOK, Request
<1>3. \A i \in Ideas : ideas'[i] = IF i = r.i THEN merged ELSE ideas[i]
  BY <1>1, <1>2 DEF TypeOK, SaveModeration
<1>4. \A i \in Ideas : /\ ideas'[i].edit_count = ideas[i].edit_count
                       /\ ideas'[i].last_edit_at = ideas[i].last_edit_at
  BY <1>2, <1>3, ModeratedCounters
<1>5. \A p \in Requests : req'[p] = req[p] \/ req'[p].pc # "edit"
  BY <1>1 DEF TypeOK, SaveModeration, Finish, Goto, Idle
<1>6. UNCHANGED <<now, edits, spanned>>
  BY DEF SaveModeration
<1>7. QED BY <1>1, <1>4, <1>5, <1>6, SameCounters

\* If a month ended while an edit ran, it took part in every month from the one
\* in which it began; if none did, its times are of one month.
LEMMA SpannedMonths ==
  ASSUME NEW r \in Request, now \in Nat, NEW t \in Nat, r.began <= t, t <= now
  PROVE  \/ /\ Month(r.began) < Month(now)
            /\ \A m \in Nat : Month(r.began) <= m /\ m <= Month(now) => m \in Spanned(r)
            /\ Month(t) \in Spanned(r)
         \/ Month(r.began) = Month(now) /\ Month(t) = Month(now)
<1>1. r.began \in Nat /\ r.began <= now
  BY DEF Request
<1>2. /\ Month(r.began) \in Nat /\ Month(t) \in Nat /\ Month(now) \in Nat
      /\ Month(r.began) <= Month(t) /\ Month(t) <= Month(now)
  BY <1>1, MonthsFollow
<1>3. QED BY <1>2 DEF Spanned

\* An edit of an approved idea adds one to what it loaded, and makes an edit.
LEMMA SaveEditCounted ==
  ASSUME CountInv, NEW q \in Requests, SaveEdit(q)
  PROVE  CountInv'
<1> DEFINE r == req[q]
<1>0. PICK at \in Nat :
        /\ r.began <= at /\ at <= now
        /\ ideas' = [ideas EXCEPT ![r.i] = Merged(@, r.row, Edited(r.row, lastText + 1, at))]
        /\ IF r.row.status = "approved"
           THEN /\ edits' = [edits EXCEPT ![r.i] = Append(@, at)]
                /\ spanned' = [spanned EXCEPT ![r.i] = @ \cup Spanned(r)]
           ELSE UNCHANGED <<edits, spanned>>
  BY EditSaved DEF CountInv
<1> DEFINE merged == Merged(ideas[r.i], r.row, Edited(r.row, lastText + 1, at))
<1>1. /\ TypeOK /\ TypeOK' /\ EditsNeverOvercounted /\ \A p \in Requests : EditIsSound(req[p])
      /\ now > 0 /\ \A i \in Ideas : ideas[i].last_edit_at <= now
  BY StepTyped DEF CountInv, Step
<1>2. /\ r \in Request /\ r.row \in IdeaRow /\ r.i \in Ideas /\ ideas[r.i] \in IdeaRow
      /\ now \in Nat /\ edits[r.i] \in Seq(Nat) /\ edits'[r.i] \in Seq(Nat)
  BY <1>1 DEF TypeOK, Request
<1>3. \A i \in Ideas : ideas'[i] = IF i = r.i THEN merged ELSE ideas[i]
  BY <1>0, <1>1, <1>2 DEF TypeOK
<1>4. now' = now
  BY DEF SaveEdit
<1>5. \A p \in Requests : req'[p] = IF p = q THEN Idle ELSE req[p]
  BY <1>1 DEF TypeOK, SaveEdit, Finish, Goto
<1>6. Idle.pc # "edit"
  BY DEF Idle
<1>7. CASE r.row.status # "approved"
  <2>1. \A i \in Ideas : /\ ideas'[i].edit_count = ideas[i].edit_count
                         /\ ideas'[i].last_edit_at = ideas[i].last_edit_at
    BY <1>2, <1>3, <1>7, EditedCounters
  <2>2. UNCHANGED <<edits, spanned>>
    BY <1>0, <1>7
  <2>3. QED BY <1>1, <1>4, <1>5, <1>6, <2>1, <2>2, SameCounters
<1>8. CASE r.row.status = "approved"
  <2> DEFINE db == ideas[r.i]
             month == Cardinality(InMonth(edits[r.i], at))
             month1 == Cardinality(InMonth(edits'[r.i], at))
             Allowed(count) == count <= month1 \/ Month(at) \in spanned'[r.i]
  <2>1. /\ \A i \in Ideas : edits'[i] = IF i = r.i THEN Append(edits[i], at) ELSE edits[i]
        /\ \A i \in Ideas : spanned'[i] = IF i = r.i THEN spanned[i] \cup Spanned(r)
                                                     ELSE spanned[i]
    BY <1>0, <1>1, <1>2, <1>8 DEF TypeOK
  <2>2. /\ merged.edit_count = Changed(db.edit_count, r.row.edit_count, EditCount(r.row, at))
        /\ merged.last_edit_at = Changed(db.last_edit_at, r.row.last_edit_at, at)
    BY <1>2, <1>8, EditedCounters
  <2>3. /\ CountIsSound(r.i, r.row) /\ r.row.last_edit_at < r.began
        /\ \/ db.edit_count = r.row.edit_count
           \/ Month(db.last_edit_at) >= Month(r.began)
           \/ Month(r.began) \in spanned[r.i]
    BY <1>1, <1>8 DEF EditIsSound, SaveEdit, At
  <2>4. merged.last_edit_at = at
    <3>1. r.row.last_edit_at \in Nat /\ r.began \in Nat
      BY <1>2 DEF Request, IdeaRow
    <3>2. at # r.row.last_edit_at
      BY <1>0, <2>3, <3>1
    <3>3. QED BY <2>2, <3>2 DEF Changed
  <2>5. month \in Nat /\ month1 = month + 1
    BY <1>2, <2>1, InMonthType, OneMoreEdit
  <2>6. Allowed(EditCount(r.row, at))
    <3>1. CASE EditedInMonth(r.row, at)
      <4>1. /\ InMonth(edits[r.i], r.row.last_edit_at) = InMonth(edits[r.i], at)
            /\ Month(r.row.last_edit_at) = Month(at)
        BY <3>1 DEF InMonth, EditedInMonth
      <4>2. r.row.edit_count \in Nat
        BY <1>2 DEF IdeaRow
      <4>3. r.row.edit_count <= month \/ Month(at) \in spanned[r.i]
        BY <2>3, <4>1 DEF CountIsSound
      <4>4. EditCount(r.row, at) = r.row.edit_count + 1
        BY <3>1 DEF EditCount
      <4>5. CASE r.row.edit_count <= month
        <5>1. EditCount(r.row, at) <= month1
          BY <2>5, <4>2, <4>4, <4>5
        <5>2. QED BY <5>1
      <4>6. CASE Month(at) \in spanned[r.i]
        BY <1>2, <2>1, <4>6
      <4>7. QED BY <4>3, <4>5, <4>6
    <3>2. CASE ~EditedInMonth(r.row, at)
      BY <2>5, <3>2 DEF EditCount
    <3>3. QED BY <3>1, <3>2
  <2>7. Allowed(merged.edit_count)
    <3>1. CASE EditCount(r.row, at) # r.row.edit_count
      <4>1. merged.edit_count = EditCount(r.row, at)
        BY <2>2, <3>1 DEF Changed
      <4>2. QED BY <2>6, <4>1
    <3>2. CASE EditCount(r.row, at) = r.row.edit_count
      <4>1. merged.edit_count = db.edit_count /\ db.edit_count \in Nat
        BY <1>2, <2>2, <3>2 DEF Changed, IdeaRow
      <4>2. CASE db.edit_count = r.row.edit_count
        <5>1. merged.edit_count = EditCount(r.row, at)
          BY <3>2, <4>1, <4>2
        <5>2. QED BY <2>6, <5>1
      <4>3. CASE Month(at) \in Spanned(r)
        BY <1>2, <2>1, <4>3
      <4>4. CASE Month(r.began) = Month(now) /\ Month(at) = Month(now)
        <5>1. CASE Month(r.began) \in spanned[r.i]
          BY <1>2, <2>1, <4>4, <5>1
        <5>2. CASE Month(db.last_edit_at) >= Month(r.began)
          <6>1. db.last_edit_at \in Nat /\ db.last_edit_at <= now
            BY <1>1, <1>2 DEF IdeaRow
          <6>2. /\ Month(db.last_edit_at) \in Nat /\ Month(now) \in Nat
                /\ Month(db.last_edit_at) <= Month(now)
            BY <1>2, <6>1, MonthsFollow
          <6>3. Month(db.last_edit_at) = Month(at)
            BY <4>4, <5>2, <6>2
          <6>4. InMonth(edits[r.i], db.last_edit_at) = InMonth(edits[r.i], at)
            BY <6>3 DEF InMonth
          <6>5. db.edit_count <= month \/ Month(at) \in spanned[r.i]
            BY <1>1, <1>2, <6>3, <6>4 DEF EditsNeverOvercounted, CountIsSound
          <6>6. CASE db.edit_count <= month
            <7>1. merged.edit_count <= month1
              BY <2>5, <4>1, <6>6
            <7>2. QED BY <7>1
          <6>7. CASE Month(at) \in spanned[r.i]
            BY <1>2, <2>1, <6>7
          <6>8. QED BY <6>5, <6>6, <6>7
        <5>3. QED BY <2>3, <4>2, <5>1, <5>2
      <4>5. QED BY <1>0, <1>2, <4>3, <4>4, SpannedMonths
    <3>3. QED BY <3>1, <3>2
  <2>8. EditsNeverOvercounted'
    <3>1. SUFFICES ASSUME NEW i \in Ideas
                   PROVE  \/ ideas'[i].edit_count <=
                               Cardinality(InMonth(edits'[i], ideas'[i].last_edit_at))
                          \/ Month(ideas'[i].last_edit_at) \in spanned'[i]
      BY DEF EditsNeverOvercounted, CountIsSound
    <3>2. CASE i = r.i
      BY <1>3, <2>4, <2>7, <3>2
    <3>3. CASE i # r.i
      BY <1>1, <1>3, <2>1, <3>3 DEF EditsNeverOvercounted, CountIsSound
    <3>4. QED BY <3>2, <3>3
  <2>9. ASSUME NEW p \in Requests PROVE EditIsSound(req[p])'
    <3>1. CASE p = q
      BY <1>5, <1>6, <3>1 DEF EditIsSound
    <3>2. CASE p # q
      <4> DEFINE s == req[p]
      <4>1. s \in Request /\ s.i \in Ideas /\ EditIsSound(s) /\ req'[p] = s
        BY <1>1, <1>5, <3>2 DEF TypeOK, Request
      <4>2. edits[s.i] \in Seq(Nat) /\ edits'[s.i] \in Seq(Nat)
        BY <1>1, <4>1 DEF TypeOK
      <4>3. /\ \A t : Cardinality(InMonth(edits[s.i], t)) <= Cardinality(InMonth(edits'[s.i], t))
            /\ spanned[s.i] \subseteq spanned'[s.i]
        <5>1. CASE s.i = r.i
          BY <1>2, <2>1, <5>1, OneMoreEdit
        <5>2. CASE s.i # r.i
          <6>1. edits'[s.i] = edits[s.i] /\ spanned'[s.i] = spanned[s.i]
            BY <2>1, <4>1, <5>2
          <6>2. \A t : Cardinality(InMonth(edits[s.i], t)) \in Nat
            BY <4>2, InMonthType
          <6>3. QED BY <6>1, <6>2
        <5>3. QED BY <5>1, <5>2
      <4>4. s.pc = "edit" =>
              \/ /\ ideas'[s.i].edit_count = ideas[s.i].edit_count
                 /\ ideas'[s.i].last_edit_at = ideas[s.i].last_edit_at
              \/ Month(ideas'[s.i].last_edit_at) >= Month(s.began)
              \/ Month(s.began) \in spanned'[s.i]
        <5>1. CASE s.i # r.i
          BY <1>3, <4>1, <5>1
        <5>2. ASSUME s.i = r.i, s.pc = "edit"
              PROVE  Month(at) >= Month(s.began) \/ Month(s.began) \in spanned'[r.i]
          <6>1. s.began \in Nat /\ s.began <= now
            BY <4>1, <5>2 DEF EditIsSound, Request
          <6>2. Month(s.began) \in Nat /\ Month(s.began) <= Month(now) /\ Month(now) \in Nat
            BY <1>2, <6>1, MonthsFollow
          <6>3. r.began \in Nat
            BY <1>2 DEF Request
          <6>4. Month(r.began) \in Nat /\ Month(at) \in Nat /\ Month(r.began) <= Month(at)
            BY <1>0, <6>3, MonthsFollow
          <6>5. CASE Month(at) < Month(s.began)
            <7>1. Month(r.began) <= Month(s.began) /\ Month(r.began) < Month(now)
              BY <6>2, <6>4, <6>5
            <7>2. Month(s.began) \in Spanned(r)
              BY <6>2, <6>4, <7>1 DEF Spanned
            <7>3. QED BY <1>2, <2>1, <7>2
          <6>6. QED BY <6>2, <6>4, <6>5
        <5>3. QED BY <1>2, <1>3, <2>4, <5>1, <5>2
      <4>5. CASE s.pc = "edit"
        BY <1>1, <1>4, <4>1, <4>3, <4>4, <4>5, EditStaysSound DEF EditIsSound, CountIsSound
      <4>6. CASE s.pc # "edit"
        BY <4>1, <4>6 DEF EditIsSound
      <4>7. QED BY <4>5, <4>6
    <3>3. QED BY <3>1, <3>2
  <2>10. now' > 0 /\ \A i \in Ideas : ideas'[i].last_edit_at <= now'
    BY <1>0, <1>1, <1>3, <1>4, <2>4
  <2>11. QED BY <1>1, <2>8, <2>9, <2>10 DEF CountInv
<1>9. QED BY <1>7, <1>8

\* The clock moves on under the requests.
LEMMA TickCounted == ASSUME CountInv, Tick PROVE CountInv'
<1>1. /\ TypeOK /\ TypeOK' /\ EditsNeverOvercounted /\ now > 0 /\ now \in Nat
      /\ \A i \in Ideas : ideas[i].last_edit_at \in Nat /\ ideas[i].last_edit_at <= now
      /\ \A q \in Requests : EditIsSound(req[q]) /\ req[q].began \in Nat
  BY NextTyped DEF CountInv, Next, TypeOK, IdeaRow, Request
<1>2. UNCHANGED <<ideas, edits, spanned, req>> /\ now' = now + 1
  BY DEF Tick
<1>3. EditsNeverOvercounted' /\ now' > 0 /\ \A i \in Ideas : ideas'[i].last_edit_at <= now'
  BY <1>1, <1>2 DEF EditsNeverOvercounted, CountIsSound
<1>4. ASSUME NEW q \in Requests PROVE EditIsSound(req[q])'
  <2>1. EditIsSound(req[q]) /\ req[q].began \in Nat
    BY <1>1
  <2>2. req[q].began <= now => req[q].began <= now'
    BY <1>1, <1>2, <2>1
  <2>3. QED BY <1>2, <2>1, <2>2 DEF EditIsSound, CountIsSound
<1>5. QED BY <1>1, <1>3, <1>4 DEF CountInv

LEMMA InitCounted == Init => CountInv
<1>1. SUFFICES ASSUME Init PROVE CountInv
  OBVIOUS
<1>2. TypeOK
  BY <1>1, InitTyped
<1>3. EditsNeverOvercounted
  <2>1. \A i \in Ideas : ideas[i].edit_count = 0 /\ edits[i] \in Seq(Nat)
    BY <1>1 DEF Init, NewIdea
  <2>2. QED BY <2>1, InMonthType DEF EditsNeverOvercounted, CountIsSound
<1>4. \A q \in Requests : req[q].pc # "edit"
  BY <1>1 DEF Init, Idle
<1>5. now > 0 /\ \A i \in Ideas : ideas[i].last_edit_at <= now
  BY <1>1 DEF Init, NewIdea, Never
<1>6. QED BY <1>2, <1>3, <1>4, <1>5 DEF CountInv, EditIsSound

LEMMA NextCounted == CountInv /\ [Next]_vars => CountInv'
<1> SUFFICES ASSUME CountInv, [Next]_vars PROVE CountInv'
  OBVIOUS
<1>1. ASSUME NEW q \in Requests, Arrival(q) \/ Step(q) PROVE CountInv'
  BY <1>1, ArrivalCounted, SaveEditCounted, SaveModerationCounted DEF Step
<1>2. ASSUME UNCHANGED vars PROVE CountInv'
  <2>1. TypeOK'
    BY NextTyped DEF CountInv
  <2>2. UNCHANGED <<now, edits, spanned, ideas, req>>
    BY <1>2 DEF vars
  <2>3. QED BY <2>1, <2>2, SameCounters
<1>3. QED BY <1>1, <1>2, TickCounted DEF Next

\* However edits of an approved idea overlap, and whenever months end, the stored
\* count never exceeds the edits made in the month of the last one, unless an edit
\* was running at an end of that month: update_idea refuses nobody else an edit that
\* the monthly limit allows (update_edit_tracking).
THEOREM EditsAreNotOvercounted == Spec => []EditsNeverOvercounted
<1>1. CountInv => EditsNeverOvercounted
  BY DEF CountInv
<1>2. QED BY <1>1, InitCounted, NextCounted, PTL DEF Spec

-----------------------------------------------------------------------------
(* One handler at a time: the edit limits and re-moderation *)

OneAtATime == \A p, q \in Requests : p = q
\* The row of a handler at work is as it read it.
LoadedNow == \A q \in Requests : ~At(q, "idle") => req[q].row = ideas[req[q].i]

\* Then a flush stores just what the handler made of the row.
LEMMA MergedSame ==
  ASSUME NEW db \in IdeaRow, NEW new \in IdeaRow, new.deleted = db.deleted
  PROVE  Merged(db, db, new) = new
BY DEF Merged, Changed, IdeaRow

LEMMA NotDeletedByWriters ==
  ASSUME NEW row \in IdeaRow, NEW text, NEW at, NEW decision
  PROVE  Edited(row, text, at).deleted = row.deleted /\ Moderated(row, decision).deleted = row.deleted
<1>1. Moderated(row, decision).deleted = row.deleted
  BY DEF Moderated, Restored, IdeaRow
<1>2. CASE row.status = "approved"
  BY <1>1, <1>2 DEF Edited, IdeaRow
<1>3. CASE row.status = "rejected"
  BY <1>1, <1>3 DEF Edited, IdeaRow
<1>4. CASE row.status \notin {"approved", "rejected"}
  BY <1>1, <1>4 DEF Edited, IdeaRow
<1>5. QED BY <1>2, <1>3, <1>4

\* The request in a slot, and the row it is about.
LEMMA RequestFacts ==
  ASSUME TypeOK, NEW q \in Requests
  PROVE  /\ req[q] \in Request /\ req[q].i \in Ideas /\ req[q].row \in IdeaRow
         /\ req[q].decision \in IdeaStatus /\ ideas[req[q].i] \in IdeaRow
BY DEF TypeOK, Request

LEMMA SavedRows ==
  ASSUME TypeOK, LoadedNow, NEW q \in Requests, Step(q)
  PROVE  /\ SaveEdit(q) => \E at \in Nat :
              ideas' = [ideas EXCEPT ![req[q].i] = Edited(@, lastText + 1, at)]
         /\ SaveModeration(q) =>
              ideas' = [ideas EXCEPT ![req[q].i] = Moderated(@, req[q].decision)]
<1> DEFINE r == req[q]
<1>1. r.i \in Ideas /\ r.row \in IdeaRow /\ r.decision \in IdeaStatus /\ ideas[r.i] \in IdeaRow
  BY RequestFacts
<1>2. r.row = ideas[r.i]
  BY DEF LoadedNow, At, Step, SaveEdit, SaveModeration
<1>3. CASE SaveEdit(q)
  <2>1. lastText + 1 \in Nat
    BY DEF TypeOK
  <2>0. PICK at \in Nat :
          ideas' = [ideas EXCEPT ![r.i] = Merged(@, r.row, Edited(r.row, lastText + 1, at))]
    BY <1>3, EditSaved
  <2>2. PICK new : new = Edited(r.row, lastText + 1, at)
    OBVIOUS
  <2>3. new \in IdeaRow /\ new.deleted = r.row.deleted
    <3>1. Edited(r.row, lastText + 1, at) \in IdeaRow
      BY <1>1, <2>0, <2>1, EditedType
    <3>2. Edited(r.row, lastText + 1, at).deleted = r.row.deleted
      BY <1>1, NotDeletedByWriters
    <3>3. QED BY <2>2, <3>1, <3>2
  <2>4. Merged(ideas[r.i], r.row, new) = new
    BY <1>1, <1>2, <2>3, MergedSame
  <2>6. ~SaveModeration(q)
    BY <1>3 DEF SaveEdit, SaveModeration, At
  <2>7. QED BY <1>1, <1>2, <2>0, <2>2, <2>4, <2>6
<1>4. CASE SaveModeration(q)
  <2>1. PICK new : new = Moderated(r.row, r.decision)
    OBVIOUS
  <2>2. new \in IdeaRow /\ new.deleted = r.row.deleted
    BY <1>1, <2>1, ModeratedType, NotDeletedByWriters
  <2>3. Merged(ideas[r.i], r.row, new) = new
    BY <1>1, <1>2, <2>2, MergedSame
  <2>4. ideas' = [ideas EXCEPT ![r.i] = Merged(@, r.row, Moderated(r.row, r.decision))]
    BY <1>4 DEF SaveModeration
  <2>5. ~SaveEdit(q)
    BY <1>4 DEF SaveEdit, SaveModeration, At
  <2>6. QED BY <1>1, <1>2, <2>1, <2>3, <2>4, <2>5
<1>5. QED BY <1>3, <1>4 DEF Step

\* What an arriving request does: it creates, deletes or restores the idea, or
\* reads its row.
RowTouched ==
  \E i \in Ideas, new \in IdeaRow :
    /\ ideas' = [ideas EXCEPT ![i] = new]
    /\ new.edit_count = ideas[i].edit_count /\ new.last_edit_at = ideas[i].last_edit_at
    /\ new.previous = ideas[i].previous
    /\ new.status = "pending" \/ (new.status = ideas[i].status /\ new.text = ideas[i].text)
RowLoaded(q) ==
  \E r \in Request :
    /\ Goto(q, r) /\ r.row = ideas[r.i] /\ r.pc \in {"edit", "moderate"}
    /\ r.pc = "edit" /\ r.row.status = "approved" => MayEditApproved(r.row, r.began)
    /\ r.pc = "edit" => r.began = now
    /\ r.pc = "moderate" => r.decision \in Decisions

LEMMA ArrivalFacts ==
  ASSUME TypeOK, NEW q \in Requests, Arrival(q)
  PROVE  /\ At(q, "idle") /\ UNCHANGED <<now, reviewed, edits, spanned>>
         /\ (UNCHANGED req /\ RowTouched) \/ (UNCHANGED ideas /\ RowLoaded(q))
<1>0. \A i \in Ideas : ideas[i] \in IdeaRow
  BY DEF TypeOK
<1>1. ASSUME NEW i \in Ideas, NEW new \in IdeaRow, ideas' = [ideas EXCEPT ![i] = new],
             new.edit_count = ideas[i].edit_count, new.last_edit_at = ideas[i].last_edit_at,
             new.previous = ideas[i].previous,
             \/ new.status = "pending"
             \/ new.status = ideas[i].status /\ new.text = ideas[i].text
      PROVE  RowTouched
  BY <1>1 DEF RowTouched
<1>2. ASSUME NEW i \in Ideas, Create(q, i)
      PROVE  RowTouched
  <2>1. PICK new : new = [ideas[i] EXCEPT !.status = "pending", !.text = lastText + 1]
    OBVIOUS
  <2>2. lastText + 1 \in Nat
    BY DEF TypeOK
  <2>3. new \in IdeaRow /\ new.status = "pending" /\ new.edit_count = ideas[i].edit_count
        /\ new.last_edit_at = ideas[i].last_edit_at /\ new.previous = ideas[i].previous
    BY <1>0, <2>1, <2>2 DEF IdeaRow, IdeaStatus
  <2>4. ideas' = [ideas EXCEPT ![i] = new]
    BY <1>0, <1>2, <2>1 DEF Create, TypeOK
  <2>5. QED BY <1>1, <2>3, <2>4
<1>3. ASSUME NEW i \in Ideas, SoftDelete(q, i) \/ Restore(q, i)
      PROVE  RowTouched
  <2>1. PICK b \in BOOLEAN : ideas' = [ideas EXCEPT ![i].deleted = b]
    BY <1>3 DEF SoftDelete, Restore
  <2>2. PICK new : new = [ideas[i] EXCEPT !.deleted = b]
    OBVIOUS
  <2>3. new \in IdeaRow /\ new.status = ideas[i].status /\ new.text = ideas[i].text
        /\ new.edit_count = ideas[i].edit_count
        /\ new.last_edit_at = ideas[i].last_edit_at /\ new.previous = ideas[i].previous
    BY <1>0, <2>2 DEF IdeaRow
  <2>4. ideas' = [ideas EXCEPT ![i] = new]
    BY <1>0, <2>1, <2>2 DEF TypeOK
  <2>5. QED BY <1>1, <2>3, <2>4
<1>4. ASSUME NEW i \in Ideas, UpdateIdea(q, i)
      PROVE  RowLoaded(q)
  <2>1. PICK r : r = [Idle EXCEPT !.pc = "edit", !.i = i, !.row = ideas[i], !.began = now]
    OBVIOUS
  <2>2. r \in Request /\ r.pc = "edit" /\ r.row = ideas[i] /\ r.i = i /\ r.began = now
    BY <1>0, <2>1, InitialRows DEF Request, TypeOK
  <2>3. Goto(q, r) /\ (ideas[i].status = "approved" => MayEditApproved(ideas[i], now))
    BY <1>4, <2>1 DEF UpdateIdea
  <2>4. QED BY <2>2, <2>3 DEF RowLoaded
<1>5. ASSUME NEW i \in Ideas, NEW decision \in Decisions, ModerateIdea(q, i, decision)
      PROVE  RowLoaded(q)
  <2>1. PICK r : r = [Idle EXCEPT !.pc = "moderate", !.i = i, !.row = ideas[i],
                                  !.decision = decision]
    OBVIOUS
  <2>2. decision \in IdeaStatus
    BY PeopleAssumption DEF IdeaStatus
  <2>3. r \in Request /\ r.pc = "moderate" /\ r.row = ideas[i] /\ r.i = i
        /\ r.decision = decision
    BY <1>0, <2>1, <2>2, InitialRows DEF Request
  <2>4. Goto(q, r)
    BY <1>5, <2>1 DEF ModerateIdea
  <2>5. QED BY <2>3, <2>4 DEF RowLoaded
<1>6. At(q, "idle") /\ UNCHANGED <<now, reviewed, edits, spanned>>
  BY DEF Arrival, Create, UpdateIdea, SoftDelete, Restore, ModerateIdea
<1>7. (\E i \in Ideas : Create(q, i) \/ SoftDelete(q, i) \/ Restore(q, i)) => UNCHANGED req
  BY DEF Create, SoftDelete, Restore
<1>8. (\E i \in Ideas : UpdateIdea(q, i) \/ \E decision \in Decisions : ModerateIdea(q, i, decision))
        => UNCHANGED ideas
  BY DEF UpdateIdea, ModerateIdea
<1>9. QED BY <1>2, <1>3, <1>4, <1>5, <1>6, <1>7, <1>8 DEF Arrival

\* A handler that starts has just read its row; one that ends has none; and
\* with one slot no other is at work.
LEMMA LoadedKept ==
  ASSUME OneAtATime, TypeOK, TypeOK', LoadedNow, [Next]_vars
  PROVE  LoadedNow'
<1>1. ASSUME NEW q \in Requests, Arrival(q) PROVE LoadedNow'
  <2>1. At(q, "idle") /\ \A p \in Requests : p = q
    BY <1>1, ArrivalFacts DEF OneAtATime
  <2>2. CASE UNCHANGED req
    BY <2>1, <2>2 DEF LoadedNow, At
  <2>3. CASE UNCHANGED ideas /\ RowLoaded(q)
    <3>1. PICK r \in Request : Goto(q, r) /\ r.row = ideas[r.i]
      BY <2>3 DEF RowLoaded
    <3>2. req'[q] = r
      BY <3>1 DEF Goto, TypeOK
    <3>3. QED BY <2>1, <2>3, <3>1, <3>2 DEF LoadedNow
  <2>4. QED BY <1>1, <2>2, <2>3, ArrivalFacts
<1>2. ASSUME NEW q \in Requests, Step(q) PROVE LoadedNow'
  <2>1. req'[q].pc = "idle" /\ \A p \in Requests : p = q
    BY <1>2 DEF Step, SaveEdit, SaveModeration, Finish, Goto, TypeOK, Idle, OneAtATime
  <2>2. QED BY <2>1 DEF LoadedNow, At
<1>3. CASE Tick \/ UNCHANGED vars
  <2>1. UNCHANGED <<ideas, req>>
    BY <1>3 DEF Tick, vars
  <2>2. QED BY <2>1 DEF LoadedNow, At
<1>4. QED BY <1>1, <1>2, <1>3 DEF Next

\* What an edit and a moderation leave of the status.
LEMMA EditedStatus ==
  ASSUME NEW row \in IdeaRow, NEW text, NEW at
  PROVE  /\ Edited(row, text, at).status # "approved"
         /\ Edited(row, text, at).status = "pending_edit" =>
              \/ Edited(row, text, at).previous = "approved"
              \/ row.status = "pending_edit" /\ Edited(row, text, at).previous = row.previous
<1>1. CASE row.status = "approved"
  BY <1>1 DEF Edited, IdeaRow
<1>2. CASE row.status = "rejected"
  BY <1>2 DEF Edited, IdeaRow
<1>3. CASE row.status \notin {"approved", "rejected"}
  BY <1>3 DEF Edited, IdeaRow
<1>4. QED BY <1>1, <1>2, <1>3

ReviewedInv == TypeOK /\ LoadedNow /\ PublicTextWasReviewed

LEMMA ReviewedNext ==
  ASSUME OneAtATime, ReviewedInv, [Next]_vars
  PROVE  ReviewedInv'
<1>0. TypeOK /\ TypeOK' /\ LoadedNow /\ LoadedNow' /\ PublicTextWasReviewed
  BY NextTyped, LoadedKept DEF ReviewedInv
<1>1. ASSUME NEW q \in Requests, Arrival(q) PROVE PublicTextWasReviewed'
  <2>1. UNCHANGED reviewed
    BY <1>0, <1>1, ArrivalFacts
  <2>2. CASE RowTouched
    <3>1. PICK i \in Ideas, new \in IdeaRow :
            /\ ideas' = [ideas EXCEPT ![i] = new]
            /\ new.status = "pending" \/ (new.status = ideas[i].status /\ new.text = ideas[i].text)
      BY <2>2 DEF RowTouched
    <3>2. \A j \in Ideas : ideas'[j] = IF j = i THEN new ELSE ideas[j]
      BY <1>0, <3>1 DEF TypeOK
    <3>3. QED BY <1>0, <2>1, <3>1, <3>2 DEF PublicTextWasReviewed
  <2>3. CASE UNCHANGED ideas
    BY <1>0, <2>1, <2>3 DEF PublicTextWasReviewed
  <2>4. QED BY <1>0, <1>1, <2>2, <2>3, ArrivalFacts
<1>2. ASSUME NEW q \in Requests, SaveEdit(q) PROVE PublicTextWasReviewed'
  <2>1. req[q].i \in Ideas /\ ideas[req[q].i] \in IdeaRow
    BY <1>0, RequestFacts
  <2>2. PICK at \in Nat : ideas' = [ideas EXCEPT ![req[q].i] = Edited(@, lastText + 1, at)]
    BY <1>0, <1>2, SavedRows DEF Step
  <2>3. \A j \in Ideas :
          ideas'[j] = IF j = req[q].i THEN Edited(ideas[j], lastText + 1, at) ELSE ideas[j]
    BY <1>0, <2>1, <2>2 DEF TypeOK
  <2>4. ideas'[req[q].i].status # "approved"
    BY <2>1, <2>3, EditedStatus
  <2>5. QED BY <1>0, <1>2, <2>3, <2>4 DEF PublicTextWasReviewed, SaveEdit
<1>3. ASSUME NEW q \in Requests, SaveModeration(q) PROVE PublicTextWasReviewed'
  <2>1. /\ req[q].i \in Ideas /\ ideas[req[q].i] \in IdeaRow /\ req[q].decision \in IdeaStatus
        /\ req[q].row = ideas[req[q].i]
    BY <1>0, <1>3, RequestFacts DEF LoadedNow, SaveModeration, At
  <2>2. PICK new : new = Moderated(ideas[req[q].i], req[q].decision)
    OBVIOUS
  <2>3. ideas' = [ideas EXCEPT ![req[q].i] = Moderated(@, req[q].decision)]
    BY <1>0, <1>3, SavedRows DEF Step
  <2>4. \A j \in Ideas : ideas'[j] = IF j = req[q].i THEN new ELSE ideas[j]
    BY <1>0, <2>1, <2>2, <2>3 DEF TypeOK
  <2>5. /\ new.status = "approved" =>
             reviewed' = [reviewed EXCEPT ![req[q].i] = ideas[req[q].i].text]
        /\ new.status # "approved" => UNCHANGED reviewed
    BY <1>3, <2>1, <2>2 DEF SaveModeration
  <2>6. new.text = ideas[req[q].i].text
    BY <2>1, <2>2 DEF Moderated, Restored, IdeaRow
  <2>7. QED BY <1>0, <2>1, <2>4, <2>5, <2>6 DEF PublicTextWasReviewed, TypeOK
<1>4. ASSUME Tick \/ UNCHANGED vars PROVE PublicTextWasReviewed'
  <2>1. UNCHANGED <<ideas, reviewed>>
    BY <1>4 DEF Tick, vars
  <2>2. QED BY <1>0, <2>1 DEF PublicTextWasReviewed
<1>5. PublicTextWasReviewed'
  BY <1>1, <1>2, <1>3, <1>4 DEF Next, Step
<1>6. QED BY <1>0, <1>5 DEF ReviewedInv

LEMMA LoadedInit == Init => LoadedNow
BY DEF Init, LoadedNow, At, Idle

\* With one handler at a time, a public idea shows the text that the admin who
\* approved it last has read (update_idea, moderate_idea).
THEOREM PublicTextIsReviewed ==
  ASSUME OneAtATime
  PROVE  Spec => []PublicTextWasReviewed
<1>1. Init => ReviewedInv
  <2>1. Init => PublicTextWasReviewed
    BY DEF Init, PublicTextWasReviewed, NewIdea
  <2>2. QED BY <2>1, InitTyped, LoadedInit DEF ReviewedInv
<1>2. ReviewedInv /\ [Next]_vars => ReviewedInv'
  BY ReviewedNext
<1>3. ReviewedInv => PublicTextWasReviewed
  BY DEF ReviewedInv
<1>4. QED BY <1>1, <1>2, <1>3, PTL DEF Spec

-----------------------------------------------------------------------------
(* One handler at a time: an edited idea can be approved again *)

\* No moderator sends "pending_edit" as a decision.
DecidedInv ==
  /\ TypeOK /\ LoadedNow /\ PendingEditsCanBeApproved
  /\ \A q \in Requests : req[q].pc = "moderate" => req[q].decision \in Decisions

LEMMA DecidedNext ==
  ASSUME OneAtATime, "pending_edit" \notin Decisions, DecidedInv, [Next]_vars
  PROVE  DecidedInv'
<1>0. /\ TypeOK /\ TypeOK' /\ LoadedNow /\ LoadedNow' /\ PendingEditsCanBeApproved
      /\ \A q \in Requests : req[q].pc = "moderate" => req[q].decision \in Decisions
  BY NextTyped, LoadedKept DEF DecidedInv
<1> DEFINE decided == \A q \in Requests : req'[q].pc = "moderate" => req'[q].decision \in Decisions
<1>1. ASSUME NEW q \in Requests, Arrival(q) PROVE PendingEditsCanBeApproved' /\ decided
  <2>1. ASSUME RowTouched PROVE PendingEditsCanBeApproved'
    <3>1. PICK i \in Ideas, new \in IdeaRow :
            /\ ideas' = [ideas EXCEPT ![i] = new] /\ new.previous = ideas[i].previous
            /\ new.status = "pending" \/ new.status = ideas[i].status
      BY <2>1 DEF RowTouched
    <3>2. \A j \in Ideas : ideas'[j] = IF j = i THEN new ELSE ideas[j]
      BY <1>0, <3>1 DEF TypeOK
    <3>3. QED BY <1>0, <3>1, <3>2 DEF PendingEditsCanBeApproved
  <2>2. CASE UNCHANGED req /\ RowTouched
    BY <1>0, <2>1, <2>2
  <2>3. CASE UNCHANGED ideas /\ RowLoaded(q)
    <3>1. PICK r \in Request : Goto(q, r) /\ (r.pc = "moderate" => r.decision \in Decisions)
      BY <2>3 DEF RowLoaded
    <3>2. \A p \in Requests : req'[p] = IF p = q THEN r ELSE req[p]
      BY <1>0, <3>1 DEF Goto, TypeOK
    <3>3. QED BY <1>0, <2>3, <3>1, <3>2 DEF PendingEditsCanBeApproved
  <2>4. QED BY <1>0, <1>1, <2>2, <2>3, ArrivalFacts
<1>2. ASSUME NEW q \in Requests, Step(q) PROVE decided
  <2>1. \A p \in Requests : req'[p] = IF p = q THEN Idle ELSE req[p]
    BY <1>0, <1>2 DEF Step, SaveEdit, SaveModeration, Finish, Goto, TypeOK
  <2>2. Idle.pc = "idle"
    BY DEF Idle
  <2>3. QED BY <1>0, <2>1, <2>2
<1>3. ASSUME NEW q \in Requests, SaveEdit(q) PROVE PendingEditsCanBeApproved'
  <2>1. req[q].i \in Ideas /\ ideas[req[q].i] \in IdeaRow
    BY <1>0, RequestFacts
  <2>2. PICK at \in Nat : ideas' = [ideas EXCEPT ![req[q].i] = Edited(@, lastText + 1, at)]
    BY <1>0, <1>3, SavedRows DEF Step
  <2>3. \A j \in Ideas :
          ideas'[j] = IF j = req[q].i THEN Edited(ideas[j], lastText + 1, at) ELSE ideas[j]
    BY <1>0, <2>1, <2>2 DEF TypeOK
  <2>4. ideas'[req[q].i].status = "pending_edit" => ideas'[req[q].i].previous = "approved"
    BY <1>0, <2>1, <2>3, EditedStatus DEF PendingEditsCanBeApproved
  <2>5. QED BY <1>0, <2>3, <2>4 DEF PendingEditsCanBeApproved
<1>4. ASSUME NEW q \in Requests, SaveModeration(q) PROVE PendingEditsCanBeApproved'
  <2>1. /\ req[q].i \in Ideas /\ ideas[req[q].i] \in IdeaRow /\ req[q].decision \in IdeaStatus
        /\ req[q].decision # "pending_edit"
    BY <1>0, <1>4, RequestFacts DEF SaveModeration, At
  <2>2. PICK new : new = Moderated(ideas[req[q].i], req[q].decision)
    OBVIOUS
  <2>3. ideas' = [ideas EXCEPT ![req[q].i] = Moderated(@, req[q].decision)]
    BY <1>0, <1>4, SavedRows DEF Step
  <2>4. \A j \in Ideas : ideas'[j] = IF j = req[q].i THEN new ELSE ideas[j]
    BY <1>0, <2>1, <2>2, <2>3 DEF TypeOK
  <2>5. ideas[req[q].i].status = "pending_edit" => ideas[req[q].i].previous = "approved"
    BY <1>0, <2>1 DEF PendingEditsCanBeApproved
  <2>6. new.status # "pending_edit"
    BY <2>1, <2>2, <2>5 DEF Moderated, Restored, IdeaRow
  <2>7. QED BY <1>0, <2>4, <2>6 DEF PendingEditsCanBeApproved
<1>5. ASSUME Tick \/ UNCHANGED vars PROVE PendingEditsCanBeApproved' /\ decided
  <2>1. UNCHANGED <<ideas, req>>
    BY <1>5 DEF Tick, vars
  <2>2. QED BY <1>0, <2>1 DEF PendingEditsCanBeApproved
<1>6. PendingEditsCanBeApproved' /\ decided
  BY <1>1, <1>2, <1>3, <1>4, <1>5 DEF Next, Step
<1>7. QED BY <1>0, <1>6 DEF DecidedInv

\* With one handler at a time, and moderators who approve or reject, an idea
\* that was edited while public keeps the status that an approval restores
\* (restore_previous_status): it can always be published again.
THEOREM PendingEditsStayApprovable ==
  ASSUME OneAtATime, "pending_edit" \notin Decisions
  PROVE  Spec => []PendingEditsCanBeApproved
<1>1. Init => DecidedInv
  <2>1. Init => PendingEditsCanBeApproved
    BY DEF Init, PendingEditsCanBeApproved, NewIdea
  <2>2. Init => \A q \in Requests : req[q].pc = "idle"
    BY DEF Init, Idle
  <2>3. QED BY <2>1, <2>2, InitTyped, LoadedInit DEF DecidedInv
<1>2. DecidedInv /\ [Next]_vars => DecidedInv'
  BY DecidedNext
<1>3. DecidedInv => PendingEditsCanBeApproved
  BY DEF DecidedInv
<1>4. QED BY <1>1, <1>2, <1>3, PTL DEF Spec

-----------------------------------------------------------------------------
(* One handler at a time: the limits of edits *)

\* What the row knows of the edits that were made: how many in the month of the
\* last one, at least, and when that was.
LimitSound(i) ==
  /\ ideas[i].last_edit_at <= now
  /\ \A k \in DOMAIN edits[i] : edits[i][k] # Never /\ edits[i][k] <= ideas[i].last_edit_at
  /\ Len(edits[i]) > 0 => ideas[i].last_edit_at = edits[i][Len(edits[i])]
  /\ Cardinality(InMonth(edits[i], ideas[i].last_edit_at)) <= ideas[i].edit_count
\* EditsAreLimited of one idea's edits.
Limited(times) ==
  /\ \A k \in DOMAIN times : Cardinality(InMonth(times, times[k])) <= MAX_EDITS_PER_MONTH
  /\ \A k \in 1..(Len(times) - 1) : times[k + 1] >= times[k] + EDIT_COOLDOWN
LimitInv ==
  /\ TypeOK /\ LoadedNow /\ now # Never
  /\ \A i \in Ideas : LimitSound(i) /\ Limited(edits[i])
  /\ \A q \in Requests :
       At(q, "edit") /\ req[q].row.status = "approved" =>
         /\ MayEditApproved(req[q].row, req[q].began)
         /\ req[q].row.last_edit_at <= req[q].began /\ req[q].began # Never

LEMMA MonthsApart ==
  ASSUME NEW times \in Seq(Nat), NEW s \in Nat, NEW t \in Nat, s <= t, Month(s) # Month(t),
         \A k \in DOMAIN times : times[k] <= s
  PROVE  InMonth(times, t) = {}
<1>1. SUFFICES ASSUME NEW k \in DOMAIN times PROVE Month(times[k]) # Month(t)
  BY DEF InMonth
<1>2. times[k] \in Nat
  OBVIOUS
<1>3. Month(times[k]) <= Month(s) /\ Month(s) <= Month(t) /\ Month(times[k]) \in Nat
      /\ Month(s) \in Nat /\ Month(t) \in Nat
  BY <1>2, MonthsFollow
<1>4. QED BY <1>3

\* One more edit, after the others, of an idea: it began at time began, when
\* the limits were checked, and is of time at.
LEMMA OneMoreLimited ==
  ASSUME NEW times \in Seq(Nat), Limited(times), NEW row \in IdeaRow,
         NEW began \in Nat, NEW at \in Nat, began <= at, at # Never,
         MayEditApproved(row, began), row.last_edit_at <= began,
         \A k \in DOMAIN times : times[k] # Never /\ times[k] <= row.last_edit_at,
         Len(times) > 0 => row.last_edit_at = times[Len(times)],
         Cardinality(InMonth(times, row.last_edit_at)) <= row.edit_count
  PROVE  LET more == Append(times, at)
         IN  /\ Limited(more)
             /\ \A k \in DOMAIN more : more[k] # Never /\ more[k] <= at
             /\ Len(more) > 0 /\ at = more[Len(more)]
             /\ Cardinality(InMonth(more, at)) <= EditCount(row, at)
<1>0. /\ row.last_edit_at <= at /\ row.last_edit_at \in Nat /\ row.edit_count \in Nat
      /\ MAX_EDITS_PER_MONTH \in Nat /\ MAX_EDITS_PER_MONTH >= 1 /\ EDIT_COOLDOWN \in Nat
  BY LimitAssumption DEF IdeaRow
<1>1. PICK more : more = Append(times, at)
  OBVIOUS
<1>2. /\ more \in Seq(Nat) /\ Len(more) = Len(times) + 1 /\ Len(times) \in Nat
      /\ DOMAIN more = DOMAIN times \cup {Len(times) + 1} /\ DOMAIN times = 1..Len(times)
      /\ more[Len(times) + 1] = at /\ \A k \in DOMAIN times : more[k] = times[k]
  BY <1>0, <1>1
<1>3. \A k \in DOMAIN times : times[k] \in Nat
  OBVIOUS
<1>4. \A k \in DOMAIN more : more[k] # Never /\ more[k] <= at
  BY <1>0, <1>2, <1>3
<1>5. Cardinality(InMonth(times, at)) \in Nat
      /\ Cardinality(InMonth(more, at)) = Cardinality(InMonth(times, at)) + 1
  BY <1>0, <1>1, InMonthType, OneMoreEdit
<1>6. /\ Cardinality(InMonth(more, at)) <= EditCount(row, at)
      /\ Cardinality(InMonth(more, at)) <= MAX_EDITS_PER_MONTH
  <2>1. CASE EditedInMonth(row, at)
    <3>1. InMonth(times, row.last_edit_at) = InMonth(times, at)
      BY <2>1 DEF InMonth, EditedInMonth
    <3>0. EditedInMonth(row, began)
      <4>1. /\ Month(row.last_edit_at) = Month(at) /\ row.last_edit_at # Never
            /\ Month(row.last_edit_at) <= Month(began) /\ Month(began) <= Month(at)
            /\ Month(began) \in Nat /\ Month(at) \in Nat
        BY <1>0, <2>1, MonthsFollow DEF EditedInMonth
      <4>2. QED BY <4>1 DEF EditedInMonth
    <3>2. EditCount(row, at) = row.edit_count + 1 /\ row.edit_count < MAX_EDITS_PER_MONTH
      BY <2>1, <3>0 DEF EditCount, MayEditApproved
    <3>3. QED BY <1>0, <1>5, <3>1, <3>2
  <2>2. CASE ~EditedInMonth(row, at)
    <3>1. InMonth(times, at) = {}
      <4>1. CASE row.last_edit_at = Never
        <5>1. DOMAIN times = {}
          BY <1>3, <4>1 DEF Never
        <5>2. QED BY <5>1 DEF InMonth
      <4>2. CASE row.last_edit_at # Never
        <5>1. Month(row.last_edit_at) # Month(at)
          BY <2>2, <4>2 DEF EditedInMonth
        <5>2. QED BY <1>0, <5>1, MonthsApart
      <4>3. QED BY <4>1, <4>2
    <3>2. EditCount(row, at) = 1
      BY <2>2 DEF EditCount
    <3>3. Cardinality(InMonth(times, at)) = 0
      BY <3>1, FS_EmptySet
    <3>4. QED BY <1>0, <1>5, <3>2, <3>3
  <2>3. QED BY <2>1, <2>2
<1>7. \A k \in DOMAIN more : Cardinality(InMonth(more, more[k])) <= MAX_EDITS_PER_MONTH
  <2>1. SUFFICES ASSUME NEW k \in DOMAIN more, Month(more[k]) # Month(at)
                 PROVE  Cardinality(InMonth(more, more[k])) <= MAX_EDITS_PER_MONTH
    <3>1. ASSUME NEW k \in DOMAIN more, Month(more[k]) = Month(at)
          PROVE  InMonth(more, more[k]) = InMonth(more, at)
      BY <3>1 DEF InMonth
    <3>2. QED BY <1>6, <3>1
  <2>2. k \in DOMAIN times /\ more[k] = times[k]
    BY <1>2, <2>1
  <2>3. InMonth(more, times[k]) = InMonth(times, times[k])
    BY <1>2, <2>1, <2>2 DEF InMonth
  <2>4. QED BY <2>2, <2>3 DEF Limited
<1>8. \A k \in 1..(Len(more) - 1) : more[k + 1] >= more[k] + EDIT_COOLDOWN
  <2>0. Len(more) - 1 = Len(times) /\ \A k \in 1..Len(times) : more[k] = times[k]
    <3>1. Len(more) = Len(times) + 1 /\ Len(times) \in Nat
      BY <1>2
    <3>2. Len(more) - 1 = Len(times)
      BY <3>1
    <3>3. DOMAIN times = 1..Len(times) /\ \A k \in DOMAIN times : more[k] = times[k]
      BY <1>2
    <3>4. QED BY <3>2, <3>3
  <2>1. SUFFICES ASSUME NEW k \in 1..Len(times) PROVE more[k + 1] >= times[k] + EDIT_COOLDOWN
    BY <2>0
  <2>2. CASE k = Len(times)
    <3>1. row.last_edit_at = times[k] /\ times[k] # Never /\ times[k] \in Nat
      BY <1>2, <2>1, <2>2, <1>3
    <3>2. at >= times[k] + EDIT_COOLDOWN
      BY <1>0, <3>1 DEF MayEditApproved
    <3>3. QED BY <1>2, <2>2, <3>2
  <2>3. CASE k < Len(times)
    <3>1. k \in 1..(Len(times) - 1) /\ k + 1 \in DOMAIN times
      BY <1>2, <2>3
    <3>2. QED BY <1>2, <3>1 DEF Limited
  <2>4. k = Len(times) \/ k < Len(times)
    <3>1. Len(times) \in Nat
      BY <1>2
    <3>2. k \in Int /\ k <= Len(times)
      BY <2>1, <3>1
    <3>3. QED BY <3>1, <3>2
  <2>5. QED BY <2>2, <2>3, <2>4
<1>9. Limited(more)
  BY <1>7, <1>8 DEF Limited
<1>10. QED BY <1>1, <1>2, <1>4, <1>6, <1>9

\* Steps that touch neither an edit nor the counters of a row.
LEMMA LimitSame ==
  ASSUME LimitInv, UNCHANGED edits, now \in Nat, now' \in Nat, now' >= now,
         \A i \in Ideas : /\ ideas[i].last_edit_at \in Nat
                          /\ ideas'[i].edit_count = ideas[i].edit_count
                          /\ ideas'[i].last_edit_at = ideas[i].last_edit_at
  PROVE  now' # Never /\ \A i \in Ideas : LimitSound(i)' /\ Limited(edits[i])'
<1>1. now' # Never
  BY DEF LimitInv, Never
<1>2. ASSUME NEW i \in Ideas PROVE LimitSound(i)' /\ Limited(edits[i])'
  <2>1. LimitSound(i) /\ Limited(edits[i])
    BY DEF LimitInv
  <2>2. /\ ideas'[i].last_edit_at = ideas[i].last_edit_at /\ edits'[i] = edits[i]
        /\ ideas'[i].edit_count = ideas[i].edit_count /\ ideas[i].last_edit_at \in Nat
    OBVIOUS
  <2>3. Limited(edits[i])'
    BY <2>1, <2>2 DEF Limited, InMonth
  <2>4. InMonth(edits'[i], ideas'[i].last_edit_at) = InMonth(edits[i], ideas[i].last_edit_at)
    BY <2>2
  <2>5. LimitSound(i)'
    BY <2>1, <2>2, <2>4 DEF LimitSound
  <2>6. QED BY <2>3, <2>5
<1>3. QED BY <1>1, <1>2

LEMMA LimitNext ==
  ASSUME OneAtATime, LimitInv, [Next]_vars
  PROVE  LimitInv'
<1> DEFINE checked == \A q \in Requests :
             At(q, "edit") /\ req[q].row.status = "approved" =>
               /\ MayEditApproved(req[q].row, req[q].began)
               /\ req[q].row.last_edit_at <= req[q].began /\ req[q].began # Never
           limits == now # Never /\ \A i \in Ideas : LimitSound(i) /\ Limited(edits[i])
<1>0. /\ TypeOK /\ TypeOK' /\ LoadedNow /\ LoadedNow' /\ checked /\ limits
      /\ now \in Nat /\ \A i \in Ideas : ideas[i] \in IdeaRow /\ ideas[i].last_edit_at \in Nat
  BY NextTyped, LoadedKept DEF LimitInv, TypeOK, IdeaRow
<1>1. ASSUME NEW q \in Requests, Arrival(q) PROVE limits' /\ checked'
  <2>1. UNCHANGED <<now, edits>> /\ now' >= now
    BY <1>0, <1>1, ArrivalFacts
  <2>2. ASSUME RowTouched PROVE limits'
    <3>1. PICK i \in Ideas, new \in IdeaRow :
            /\ ideas' = [ideas EXCEPT ![i] = new]
            /\ new.edit_count = ideas[i].edit_count /\ new.last_edit_at = ideas[i].last_edit_at
      BY <2>2 DEF RowTouched
    <3>2. \A j \in Ideas : ideas'[j] = IF j = i THEN new ELSE ideas[j]
      BY <1>0, <3>1 DEF TypeOK
    <3>3. \A j \in Ideas : /\ ideas'[j].edit_count = ideas[j].edit_count
                           /\ ideas'[j].last_edit_at = ideas[j].last_edit_at
      BY <3>1, <3>2
    <3>4. QED BY <1>0, <2>1, <3>3, LimitSame
  <2>3. CASE UNCHANGED req /\ RowTouched
    BY <1>0, <2>1, <2>2, <2>3 DEF At
  <2>4. CASE UNCHANGED ideas /\ RowLoaded(q)
    <3>1. PICK r \in Request :
            /\ Goto(q, r) /\ r.row = ideas[r.i]
            /\ r.pc = "edit" /\ r.row.status = "approved" => MayEditApproved(r.row, r.began)
            /\ r.pc = "edit" => r.began = now
      BY <2>4 DEF RowLoaded
    <3>2. \A p \in Requests : req'[p] = IF p = q THEN r ELSE req[p]
      BY <1>0, <3>1 DEF Goto, TypeOK
    <3>6. ideas[r.i].last_edit_at <= now
      BY <1>0 DEF Request, LimitSound
    <3>3. checked'
      BY <1>0, <3>1, <3>2, <3>6 DEF At
    <3>4. limits'
      BY <1>0, <2>1, <2>4, LimitSame
    <3>5. QED BY <3>3, <3>4
  <2>5. QED BY <1>0, <1>1, <2>3, <2>4, ArrivalFacts
<1>2. ASSUME NEW q \in Requests, Step(q) PROVE checked'
  <2>1. \A p \in Requests : req'[p] = IF p = q THEN Idle ELSE req[p]
    BY <1>0, <1>2 DEF Step, SaveEdit, SaveModeration, Finish, Goto, TypeOK
  <2>2. Idle.pc = "idle" /\ \A p \in Requests : p = q
    BY DEF Idle, OneAtATime
  <2>3. QED BY <2>1, <2>2 DEF At
<1>3. ASSUME NEW q \in Requests, SaveModeration(q) PROVE limits'
  <2> DEFINE r == req[q]
             merged == Merged(ideas[r.i], r.row, Moderated(r.row, r.decision))
  <2>1. r.row \in IdeaRow /\ r.i \in Ideas /\ ideas[r.i] \in IdeaRow
    BY <1>0, RequestFacts
  <2>2. \A i \in Ideas : ideas'[i] = IF i = r.i THEN merged ELSE ideas[i]
    BY <1>0, <1>3, <2>1 DEF TypeOK, SaveModeration
  <2>3. \A i \in Ideas : /\ ideas'[i].edit_count = ideas[i].edit_count
                         /\ ideas'[i].last_edit_at = ideas[i].last_edit_at
    BY <2>1, <2>2, ModeratedCounters
  <2>4. now' = now /\ edits' = edits /\ now' >= now
    BY <1>0, <1>3 DEF SaveModeration
  <2>5. QED BY <1>0, <2>3, <2>4, LimitSame
<1>4. ASSUME NEW q \in Requests, SaveEdit(q) PROVE limits'
  <2> DEFINE r == req[q]
  <2>0. PICK at \in Nat :
          /\ r.began <= at /\ at <= now
          /\ ideas' = [ideas EXCEPT ![r.i] = Merged(@, r.row, Edited(r.row, lastText + 1, at))]
          /\ IF r.row.status = "approved" THEN edits' = [edits EXCEPT ![r.i] = Append(@, at)]
                                          ELSE UNCHANGED edits
    BY <1>0, <1>4, EditSaved
  <2> DEFINE merged == Merged(ideas[r.i], r.row, Edited(r.row, lastText + 1, at))
  <2>1. /\ r.row \in IdeaRow /\ r.i \in Ideas /\ ideas[r.i] \in IdeaRow /\ r.row = ideas[r.i]
        /\ edits[r.i] \in Seq(Nat) /\ r.began \in Nat
    BY <1>0, <1>4, RequestFacts DEF LoadedNow, SaveEdit, At, TypeOK, Request
  <2>2. \A i \in Ideas : ideas'[i] = IF i = r.i THEN merged ELSE ideas[i]
    BY <1>0, <2>0, <2>1 DEF TypeOK
  <2>3. now' = now /\ now' >= now
    BY <1>0, <1>4 DEF SaveEdit
  <2>4. CASE r.row.status # "approved"
    <3>1. \A i \in Ideas : /\ ideas'[i].edit_count = ideas[i].edit_count
                           /\ ideas'[i].last_edit_at = ideas[i].last_edit_at
      BY <2>1, <2>2, <2>4, EditedCounters
    <3>2. edits' = edits
      BY <2>0, <2>4
    <3>3. QED BY <1>0, <2>3, <3>1, <3>2, LimitSame
  <2>5. CASE r.row.status = "approved"
    <3>1. \A i \in Ideas : edits'[i] = IF i = r.i THEN Append(edits[i], at) ELSE edits[i]
      BY <1>0, <2>0, <2>1, <2>5 DEF TypeOK
    <3>2. /\ merged.edit_count = EditCount(r.row, at) /\ merged.last_edit_at = at
      BY <2>1, <2>5, EditedCounters DEF Changed
    <3>3. /\ MayEditApproved(r.row, r.began) /\ r.row.last_edit_at <= r.began
          /\ r.began # Never /\ LimitSound(r.i) /\ Limited(edits[r.i])
      BY <1>0, <1>4, <2>1, <2>5 DEF SaveEdit
    <3>4. PICK more : more = Append(edits[r.i], at)
      OBVIOUS
    <3>11. at # Never
      BY <2>0, <2>1, <3>3 DEF Never
    <3>5. /\ Limited(more) /\ \A k \in DOMAIN more : more[k] # Never /\ more[k] <= at
          /\ Len(more) > 0 /\ at = more[Len(more)]
          /\ Cardinality(InMonth(more, at)) <= EditCount(r.row, at)
      BY <2>0, <2>1, <3>3, <3>4, <3>11, OneMoreLimited DEF LimitSound
    <3>6. PICK e \in Ideas : e = r.i
      BY <2>1
    <3>7. LimitSound(e)'
      <4>1. at <= now
        BY <2>0
      <4>2. /\ ideas'[e].last_edit_at = at /\ ideas'[e].edit_count = EditCount(r.row, at)
            /\ edits'[e] = more
        BY <2>1, <2>2, <3>1, <3>2, <3>4, <3>6
      <4>3. QED BY <2>3, <3>5, <4>1, <4>2 DEF LimitSound
    <3>8. Limited(edits[e])'
      <4>1. edits'[e] = more
        BY <2>1, <3>1, <3>4, <3>6
      <4>2. QED BY <3>5, <4>1 DEF Limited, InMonth
    <3>9. ASSUME NEW i \in Ideas, i # e PROVE LimitSound(i)' /\ Limited(edits[i])'
      <4>1. ideas'[i] = ideas[i] /\ edits'[i] = edits[i] /\ LimitSound(i) /\ Limited(edits[i])
        BY <1>0, <2>2, <3>1, <3>6, <3>9
      <4>2. QED BY <2>3, <4>1 DEF LimitSound, Limited, InMonth
    <3>10. QED BY <1>0, <2>3, <3>7, <3>8, <3>9
  <2>6. QED BY <2>4, <2>5
<1>5. ASSUME Tick PROVE limits' /\ checked'
  <2>1. UNCHANGED <<ideas, req, edits>> /\ now' = now + 1
    BY <1>5 DEF Tick
  <2>2. now' \in Nat /\ now' >= now
    BY <1>0, <2>1
  <2>3. limits'
    BY <1>0, <2>1, <2>2, LimitSame
  <2>4. QED BY <1>0, <2>1, <2>3 DEF At
<1>6. ASSUME UNCHANGED vars PROVE limits' /\ checked'
  <2>1. UNCHANGED <<ideas, req, edits, now>> /\ now' >= now
    BY <1>0, <1>6 DEF vars
  <2>2. limits'
    BY <1>0, <2>1, LimitSame
  <2>3. QED BY <1>0, <2>1, <2>2 DEF At
<1>7. limits' /\ checked'
  BY <1>1, <1>2, <1>3, <1>4, <1>5, <1>6 DEF Next, Step
<1>8. QED BY <1>0, <1>7 DEF LimitInv

\* With one handler at a time, an approved idea is edited no more often in a
\* month, and no sooner after its last edit, than the limits say: the count, its
\* reset in a new month and the time of the last edit are enough to know it
\* (update_idea, update_edit_tracking).
THEOREM EditsStayLimited ==
  ASSUME OneAtATime
  PROVE  Spec => []EditsAreLimited
<1>1. Init => LimitInv
  <2>1. SUFFICES ASSUME Init PROVE LimitInv
    OBVIOUS
  <2>2. TypeOK /\ LoadedNow
    BY <2>1, InitTyped, LoadedInit
  <2>3. /\ now = 1 /\ \A i \in Ideas : edits[i] = <<>> /\ ideas[i].last_edit_at = 0
                                       /\ ideas[i].edit_count = 0
        /\ \A q \in Requests : req[q].pc = "idle"
    BY <2>1 DEF Init, NewIdea, Idle, Never
  <2>4. \A t : Cardinality(InMonth(<<>>, t)) = 0
    <3>1. \A t : InMonth(<<>>, t) = {}
      BY DEF InMonth
    <3>2. QED BY <3>1, FS_EmptySet
  <2>5. \A i \in Ideas : LimitSound(i) /\ Limited(edits[i])
    BY <2>3, <2>4 DEF LimitSound, Limited
  <2>6. QED BY <2>2, <2>3, <2>5 DEF LimitInv, At, Never
<1>2. LimitInv /\ [Next]_vars => LimitInv'
  BY LimitNext
<1>3. LimitInv => EditsAreLimited
  BY DEF LimitInv, Limited, EditsAreLimited
<1>4. QED BY <1>1, <1>2, <1>3, PTL DEF Spec
=============================================================================
