---------------------------- MODULE IdeaLifecycle ----------------------------
(***************************************************************************)
(* An idea from its creation through moderation, edits by its author with  *)
(* a monthly limit and a cool-down, re-moderation, deletion and            *)
(* restoration: IdeaService and the edit tracking of IdeaRepository.       *)
(*                                                                         *)
(* A handler loads the row, decides, and commits what it changed: two      *)
(* steps of a request in a slot of req, between which other handlers run   *)
(* and the time goes on.                                                   *)
(***************************************************************************)
EXTENDS Integers, Sequences, FiniteSets

CONSTANTS
  Requests,             \* request slots: how many handlers run at once
  Ideas,
  Decisions,            \* the statuses that moderators send
  MAX_EDITS_PER_MONTH,  \* edits of an approved idea in a month; 3 in the code
  EDIT_COOLDOWN,        \* ticks between two such edits; 24 hours in the code
  MONTH,                \* ticks in a month
  MaxTime,              \* bound: the last tick
  MaxTexts              \* bound: texts ever written, by creation or edit

ASSUME LimitAssumption == /\ MAX_EDITS_PER_MONTH \in Nat \ {0} /\ EDIT_COOLDOWN \in Nat \ {0}
                          /\ MONTH \in Nat \ {0}
ASSUME BoundAssumption == MaxTime \in Nat /\ MaxTexts \in Nat
ASSUME PeopleAssumption ==
  Ideas # {} /\ Decisions \subseteq {"pending", "approved", "rejected", "pending_edit"}

VARIABLES
  now,       \* the time, in ticks from 1
  lastText,  \* texts are numbered in the order they are committed
  ideas,     \* the rows
  reviewed,  \* history: the text that the last approval of each idea read
  edits,     \* history: when each idea was edited while approved
  spanned,   \* history: the months at whose ends such an edit was running
  req        \* the request running in each slot

vars == <<now, lastText, ideas, reviewed, edits, spanned, req>>

-----------------------------------------------------------------------------
(* Rows *)

IdeaStatus == {"pending", "approved", "rejected", "pending_edit"}
Never == 0

\* text: title and description.  comment: the text that admin_comment is about,
\* or 0.  previous: previous_status, of which the code only ever writes one.
IdeaRow == [status : IdeaStatus \cup {"absent"}, previous : {"none", "approved"},
            deleted : BOOLEAN, text : Nat, comment : Nat,
            edit_count : Nat, last_edit_at : Nat]
NewIdea == [status |-> "absent", previous |-> "none", deleted |-> FALSE, text |-> 0,
            comment |-> 0, edit_count |-> 0, last_edit_at |-> Never]

\* get_idea_by_id leaves deleted ideas out.
Found(i) == ideas[i].status # "absent" /\ ~ideas[i].deleted

Month(t) == t \div MONTH
EditedInMonth(row, t) == row.last_edit_at # Never /\ Month(row.last_edit_at) = Month(t)

\* SQLAlchemy's flush writes the columns that differ from what was loaded.
Changed(db, loaded, new) == IF new = loaded THEN db ELSE new
Merged(db, loaded, new) ==
  [db EXCEPT !.status       = Changed(@, loaded.status, new.status),
             !.previous     = Changed(@, loaded.previous, new.previous),
             !.text         = Changed(@, loaded.text, new.text),
             !.comment      = Changed(@, loaded.comment, new.comment),
             !.edit_count   = Changed(@, loaded.edit_count, new.edit_count),
             !.last_edit_at = Changed(@, loaded.last_edit_at, new.last_edit_at)]

-----------------------------------------------------------------------------
(* Requests *)

\* began: when an edit loaded its row and checked the limits.
Request == [pc : {"idle", "edit", "moderate"}, i : Ideas, row : IdeaRow, decision : IdeaStatus,
            began : Nat]
Idle == [pc |-> "idle", i |-> CHOOSE i \in Ideas : TRUE, row |-> NewIdea, decision |-> "pending",
         began |-> 0]

At(q, step) == req[q].pc = step
Goto(q, r) == req' = [req EXCEPT ![q] = r]
Finish(q) == Goto(q, Idle)

\* Texts that running requests will still write; keeps within MaxTexts.
RoomForText == lastText + Cardinality({q \in Requests : At(q, "edit")}) < MaxTexts

Init ==
  /\ now = 1
  /\ lastText = 0
  /\ ideas = [i \in Ideas |-> NewIdea]
  /\ reviewed = [i \in Ideas |-> 0]
  /\ edits = [i \in Ideas |-> <<>>]
  /\ spanned = [i \in Ideas |-> {}]
  /\ req = [q \in Requests |-> Idle]

-----------------------------------------------------------------------------
(* Requests that arrive *)

Create(q, i) ==
  /\ At(q, "idle") /\ ideas[i].status = "absent" /\ RoomForText
  /\ lastText' = lastText + 1
  /\ ideas' = [ideas EXCEPT ![i].status = "pending", ![i].text = lastText + 1]
  /\ UNCHANGED <<now, reviewed, edits, spanned, req>>

\* The limit and the cool-down of update_idea, at time t.
MayEditApproved(row, t) ==
  /\ EditedInMonth(row, t) => row.edit_count < MAX_EDITS_PER_MONTH
  /\ row.last_edit_at # Never => t >= row.last_edit_at + EDIT_COOLDOWN

\* update_idea up to its commit.
UpdateIdea(q, i) ==
  /\ At(q, "idle") /\ RoomForText
  /\ Found(i) /\ ideas[i].status # "pending_edit"
  /\ ideas[i].status = "approved" => MayEditApproved(ideas[i], now)
  /\ Goto(q, [Idle EXCEPT !.pc = "edit", !.i = i, !.row = ideas[i], !.began = now])
  /\ UNCHANGED <<now, lastText, ideas, reviewed, edits, spanned>>

\* moderate_idea up to its commit: an idea in any status may be moderated.
ModerateIdea(q, i, decision) ==
  /\ At(q, "idle")
  /\ Found(i)
  /\ Goto(q, [Idle EXCEPT !.pc = "moderate", !.i = i, !.row = ideas[i], !.decision = decision])
  /\ UNCHANGED <<now, lastText, ideas, reviewed, edits, spanned>>

\* soft_delete_idea and restore_idea write deleted_at alone, and whatever it is
\* by now, so each is one step.
SoftDelete(q, i) ==
  /\ At(q, "idle") /\ Found(i)
  /\ ideas' = [ideas EXCEPT ![i].deleted = TRUE]
  /\ UNCHANGED <<now, lastText, reviewed, edits, spanned, req>>

Restore(q, i) ==
  /\ At(q, "idle") /\ ideas[i].deleted
  /\ ideas' = [ideas EXCEPT ![i].deleted = FALSE]
  /\ UNCHANGED <<now, lastText, reviewed, edits, spanned, req>>

-----------------------------------------------------------------------------
(* The commit of a running request *)

\* update_edit_tracking, which reads the clock again: at is that time.
\* Mutants of EditCount: the count is not carried on, or not begun anew.
EditCountOne(row, at) == 1
EditCountOn(row, at) == row.edit_count + 1
EditCount(row, at) == IF EditedInMonth(row, at) THEN row.edit_count + 1 ELSE 1

\* Mutant of Edited: previous_status is not stored.
EditedForgetting(row, text, at) ==
  [row EXCEPT !.text = text,
              !.status = IF row.status = "approved" THEN "pending_edit" ELSE "pending"]
\* Mutant of Edited: an edited idea stays in the status it had.
EditedInPlace(row, text, at) == [row EXCEPT !.text = text]
\* Mutant of Edited: any edit has an approved status to come back to.
EditedTracked(row, text, at) ==
  [row EXCEPT !.text = text, !.status = "pending_edit", !.previous = "approved"]
Edited(row, text, at) ==
  CASE row.status = "approved" ->
         [row EXCEPT !.text = text, !.status = "pending_edit", !.previous = "approved",
                     !.edit_count = EditCount(row, at), !.last_edit_at = at]
    [] row.status = "rejected" ->
         [row EXCEPT !.text = text, !.status = "pending", !.comment = 0]
    [] OTHER -> [row EXCEPT !.text = text]

\* The months that an edit took part in, if a month ended while it ran.
Spanned(r) == IF Month(r.began) < Month(now) THEN Month(r.began)..Month(now) ELSE {}

SaveEdit(q) ==
  /\ At(q, "edit") /\ Finish(q)
  /\ lastText' = lastText + 1
  /\ LET r == req[q]
     IN \E at \in r.began..now :
          /\ ideas' = [ideas EXCEPT ![r.i] = Merged(@, r.row, Edited(r.row, lastText + 1, at))]
          /\ IF r.row.status = "approved"
             THEN /\ edits' = [edits EXCEPT ![r.i] = Append(@, at)]
                  /\ spanned' = [spanned EXCEPT ![r.i] = @ \cup Spanned(r)]
             ELSE UNCHANGED <<edits, spanned>>
  /\ UNCHANGED <<now, reviewed>>

\* restore_previous_status: without a previous status the status stays.  The
\* admin's comment is assigned after that commit, and no other follows.
\* Mutant of Restored: the test for a previous status is missing.
RestoredAlways(row) == [row EXCEPT !.status = row.previous, !.previous = "none"]
Restored(row) ==
  [row EXCEPT !.status = IF row.previous = "none" THEN @ ELSE row.previous,
              !.previous = "none"]

Moderated(row, decision) ==
  IF row.status = "pending_edit" /\ decision = "approved"
  THEN Restored(row)
  ELSE [row EXCEPT !.status = decision, !.comment = row.text]

SaveModeration(q) ==
  /\ At(q, "moderate") /\ Finish(q)
  /\ LET r == req[q]  new == Moderated(r.row, r.decision)
     IN /\ ideas' = [ideas EXCEPT ![r.i] = Merged(@, r.row, new)]
        /\ reviewed' = IF new.status = "approved" THEN [reviewed EXCEPT ![r.i] = r.row.text]
                                                  ELSE reviewed
  /\ UNCHANGED <<now, lastText, edits, spanned>>

\* The time does not wait for handlers.
Tick ==
  /\ now < MaxTime
  /\ now' = now + 1
  /\ UNCHANGED <<lastText, ideas, reviewed, edits, spanned, req>>

-----------------------------------------------------------------------------
Arrival(q) ==
  \/ \E i \in Ideas : Create(q, i) \/ UpdateIdea(q, i) \/ SoftDelete(q, i) \/ Restore(q, i)
  \/ \E i \in Ideas, decision \in Decisions : ModerateIdea(q, i, decision)

Step(q) == SaveEdit(q) \/ SaveModeration(q)

Next == Tick \/ \E q \in Requests : Arrival(q) \/ Step(q)

Spec == Init /\ [][Next]_vars

-----------------------------------------------------------------------------
(* Properties *)

TypeOK ==
  /\ now \in Nat
  /\ lastText \in Nat
  /\ ideas \in [Ideas -> IdeaRow]
  /\ reviewed \in [Ideas -> Nat]
  /\ edits \in [Ideas -> Seq(Nat)]
  /\ spanned \in [Ideas -> SUBSET Nat]
  /\ req \in [Requests -> Request]

\* The edits, of a sequence of times, in the month of time t.
InMonth(times, t) == {k \in DOMAIN times : Month(times[k]) = Month(t)}

\* The count of a row is at most the edits made in the month of its last one,
\* unless an edit ran over an end of that month.
CountIsSound(i, row) ==
  \/ row.edit_count <= Cardinality(InMonth(edits[i], row.last_edit_at))
  \/ Month(row.last_edit_at) \in spanned[i]

\* However edits race, the stored count is no overcount, and nobody is refused
\* an edit that the limit allows, in a month at whose ends no edit was running:
\* update_edit_tracking adds one to a count loaded earlier, or begins anew and
\* may not be written.  An edit loaded in one month and saved in the next may
\* leave the count of the month before.
EditsNeverOvercounted == \A i \in Ideas : CountIsSound(i, ideas[i])

\* Whatever handlers overlap, nothing is public, or has a public status to come
\* back to, that no admin ever approved (restore_previous_status).
OnlyAdminsPublish ==
  \A i \in Ideas :
    ideas[i].status = "approved" \/ ideas[i].previous = "approved" => reviewed[i] # 0

\* "Max 3 edits per month per idea", "24-hour cool-down between edits": what
\* update_idea enforces with a count, a reset and a time, run one at a time.
EditsAreLimited ==
  \A i \in Ideas :
    /\ \A k \in DOMAIN edits[i] :
         Cardinality(InMonth(edits[i], edits[i][k])) <= MAX_EDITS_PER_MONTH
    /\ \A k \in 1..(Len(edits[i]) - 1) : edits[i][k + 1] >= edits[i][k] + EDIT_COOLDOWN

\* Run one at a time, handlers keep an idea that awaits re-moderation able to
\* be approved: the status to restore is there (restore_previous_status).
PendingEditsCanBeApproved ==
  \A i \in Ideas : ideas[i].status = "pending_edit" => ideas[i].previous = "approved"

\* "APPROVED ideas: edit with re-moderation": a public idea shows the text that
\* its last approval read.
PublicTextWasReviewed ==
  \A i \in Ideas : ideas[i].status = "approved" => ideas[i].text = reviewed[i]

\* "PENDING ideas: direct edit, resets to PENDING", and other edits set a status
\* too: whatever is edited awaits moderation afterwards (update_idea).
EditsAwaitModeration ==
  [][\A i \in Ideas : ideas'[i].text # ideas[i].text => ideas'[i].status # "approved"]_vars

\* An approved idea carries the comment of its approval, as the test of the
\* edit workflow asserts: admin_comment is about the text shown.
CommentIsOnPublicText ==
  \A i \in Ideas : ideas[i].status = "approved" => ideas[i].comment = ideas[i].text

-----------------------------------------------------------------------------
(* What the safety properties rest on, checked with them and proved inductive. *)

\* What OnlyAdminsPublish rests on: a row that is there has a text and stays
\* there, and a request loaded one that an admin had approved if it looks so.
Published(row) == row.status = "approved" \/ row.previous = "approved"
RowIsSound(i, row) ==
  /\ row.status # "absent" => row.text # 0
  /\ Published(row) => reviewed[i] # 0
RowsAreSound ==
  /\ \A i \in Ideas : RowIsSound(i, ideas[i])
  /\ \A q \in Requests : ~At(q, "idle") =>
       req[q].row.status # "absent" /\ ideas[req[q].i].status # "absent"
  /\ \A q \in Requests : RowIsSound(req[q].i, req[q].row)
PublishInv == TypeOK /\ RowsAreSound

\* What EditsNeverOvercounted rests on: the count that an edit loaded was no
\* overcount, and if the row has another count by now, then it was edited in this
\* edit's month or later, or over the beginning of that month.
EditIsSound(r) ==
  r.pc = "edit" =>
    /\ r.began <= now /\ CountIsSound(r.i, r.row)
    /\ r.row.status = "approved" => r.row.last_edit_at < r.began
    /\ \/ ideas[r.i].edit_count = r.row.edit_count
       \/ Month(ideas[r.i].last_edit_at) >= Month(r.began)
       \/ Month(r.began) \in spanned[r.i]
CountInv ==
  /\ TypeOK /\ EditsNeverOvercounted
  /\ now > 0 /\ \A i \in Ideas : ideas[i].last_edit_at <= now
  /\ \A q \in Requests : EditIsSound(req[q])
=============================================================================
