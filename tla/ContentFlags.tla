---------------------------- MODULE ContentFlags ----------------------------
(***************************************************************************)
(* Flagging and flag review: FlagService, ModerationService.review_flags,  *)
(* the trust-score counters they maintain, and the watchlist auto-flag.    *)
(*                                                                         *)
(* Every endpoint is a synchronous function run in a thread of the server  *)
(* pool with a database session of its own, and commits several times.     *)
(* The atomic step here is one transaction of that session, cut again      *)
(* between a read and the write computed from it: at READ COMMITTED, with  *)
(* no row locks, other sessions commit in between.  A request is a record  *)
(* in req: the step it is at and what its session has read.                *)
(***************************************************************************)
EXTENDS Integers, FiniteSets

CONSTANTS
  Requests,        \* request slots: how many handlers run at once
  Contents,        \* the comments and ideas that may be flagged
  Users,
  System,          \* SYSTEM_USER_ID, the reporter of watchlist auto-flags and,
                   \* being user 1, also the account of an admin
  Author,          \* Author[c] is the user who wrote content c
  Standing,        \* Standing[u]: the part of u's trust score that other
                   \* services maintain (account age, comments, penalty)
  FLAG_THRESHOLD,  \* pending flags at which content is hidden; 3 in the code
  MaxFlags,        \* bound: rows ever inserted into content_flags
  MaxReviews,      \* bound: review requests
  PartialReviews,  \* may an admin review some flags of a content only?
  Failures         \* may a request die between two of its steps?

ASSUME ThresholdAssumption == FLAG_THRESHOLD \in Nat \ {0}
ASSUME BoundAssumption == MaxFlags \in Nat /\ MaxReviews \in Nat
ASSUME PeopleAssumption ==
  /\ Contents # {}
  /\ System \in Users
  /\ Author \in [Contents -> Users]
  /\ Standing \in [Users -> Int]
ASSUME ModeAssumption == PartialReviews \in BOOLEAN /\ Failures \in BOOLEAN

VARIABLES
  lastId,   \* the id sequence of content_flags
  flags,    \* the rows ever inserted, by id; a deleted row keeps a tombstone
  content,  \* the flag-related columns of each comment or idea
  users,    \* the flag-related columns of each user
  reviews,  \* review requests accepted so far
  req       \* the request running in each slot

vars == <<lastId, flags, content, users, reviews, req>>

-----------------------------------------------------------------------------
(* Rows *)

FlagStatus == {"pending", "dismissed", "actioned", "deleted"}
\* auto: put there by the watchlist, as its details say.
FlagRow == [content : Contents, reporter : Users, status : FlagStatus, auto : BOOLEAN]

\* state: not yet posted, in the table, or hard-deleted by its author.
\* removed: deleted_at is set (soft deletion by a moderator).
ContentRow == [state : {"absent", "live", "gone"}, flag_count : Nat,
               is_hidden : BOOLEAN, removed : BOOLEAN]
NewContent == [state |-> "absent", flag_count |-> 0, is_hidden |-> FALSE,
               removed |-> FALSE]

Clamp(n) == IF n < 0 THEN 0 ELSE IF n > 100 THEN 100 ELSE n
ReporterBonus(n) == IF 2 * n > 10 THEN 10 ELSE 2 * n

\* calculate_trust_score, with what other services maintain in Standing.
TrustScore(u, row) ==
  Clamp(50 + Standing[u] + ReporterBonus(row.validated) - 10 * row.valid)

UserRow == [total : Nat, valid : Nat, validated : Nat, trust : 0..100]
NewUser(u) == [total |-> 0, valid |-> 0, validated |-> 0,
               trust |-> TrustScore(u, [validated |-> 0, valid |-> 0])]

Ids == 1..lastId
Live(i) == flags[i].status # "deleted"
LiveIds == {i \in Ids : Live(i)}
Pending(c) == {i \in Ids : flags[i].content = c /\ flags[i].status = "pending"}
EverFlagged(c) == {flags[i].reporter : i \in {j \in Ids : flags[j].content = c}}
Flagged(c, u) ==
  \E i \in Ids : Live(i) /\ flags[i].content = c /\ flags[i].reporter = u

\* The columns that a request loads, recomputes and writes back.
Columns == [flag_count : Nat, is_hidden : BOOLEAN]
ColumnsOf(row) == [flag_count |-> row.flag_count, is_hidden |-> row.is_hidden]

\* SQLAlchemy's flush writes the columns whose value differs from the one
\* loaded, and leaves the others as the database now has them.
Changed(now, loaded, new) == IF new = loaded THEN now ELSE new

MergedContent(db, loaded, new) ==
  [db EXCEPT !.flag_count = Changed(@, loaded.flag_count, new.flag_count),
             !.is_hidden  = Changed(@, loaded.is_hidden, new.is_hidden)]

MergedUser(db, loaded, new) ==
  [db EXCEPT !.total     = Changed(@, loaded.total, new.total),
             !.valid     = Changed(@, loaded.valid, new.valid),
             !.validated = Changed(@, loaded.validated, new.validated),
             !.trust     = Changed(@, loaded.trust, new.trust)]

WriteContent(c, loaded, new) ==
  content' = [content EXCEPT ![c] = MergedContent(@, loaded, new)]
WriteUser(u, loaded, new) ==
  users' = [users EXCEPT ![u] = MergedUser(@, loaded, new)]

-----------------------------------------------------------------------------
(* Requests *)

Steps == {"idle", "watch", "insert", "delete", "mark", "count", "load",
          "save", "remove", "reward", "load_user", "save_user"}
Counters == {"none", "total", "valid", "validated"}

\* op and c, who: the operation, its content, the user it acts as or updates;
\* ids: the flag rows it names; todo: reporters still to be rewarded;
\* counter: the counter to increment; n, row, user: what its session read.
Request == [pc : Steps, op : {"none", "post", "create", "retract", "dismiss", "action"},
            c : Contents, who : Users, ids : SUBSET (Nat \ {0}),
            todo : SUBSET Users, counter : Counters, n : Nat,
            row : Columns, user : UserRow]

AnyContent == CHOOSE c \in Contents : TRUE
Idle == [pc |-> "idle", op |-> "none", c |-> AnyContent, who |-> System,
         ids |-> {}, todo |-> {}, counter |-> "none", n |-> 0,
         row |-> ColumnsOf(NewContent), user |-> NewUser(System)]

At(q, step) == req[q].pc = step
Goto(q, r) == req' = [req EXCEPT ![q] = r]
Finish(q) == Goto(q, Idle)

\* Rows that a running request may still insert; keeps within MaxFlags.
Inserting == {q \in Requests : req[q].pc \in {"watch", "insert"}}
RoomForFlag == lastId + Cardinality(Inserting) < MaxFlags

Insert(c, u, auto) ==
  /\ lastId' = lastId + 1
  /\ flags' = [i \in 1..(lastId + 1) |->
       IF i = lastId + 1
       THEN [content |-> c, reporter |-> u, status |-> "pending", auto |-> auto]
       ELSE flags[i]]

Mark(ids, status) ==
  flags' = [i \in Ids |-> IF i \in ids /\ Live(i) THEN [flags[i] EXCEPT !.status = status]
                                                  ELSE flags[i]]

Init ==
  /\ lastId = 0
  /\ flags = [i \in 1..0 |-> 0]
  /\ content = [c \in Contents |-> NewContent]
  /\ users = [u \in Users |-> NewUser(u)]
  /\ reviews = 0
  /\ req = [q \in Requests |-> Idle]

-----------------------------------------------------------------------------
(* Requests that arrive *)

\* The author creates the comment or idea (first commit of the handler).
Post(q, c) ==
  /\ At(q, "idle") /\ content[c].state = "absent" /\ RoomForFlag
  /\ content' = [content EXCEPT ![c].state = "live"]
  /\ Goto(q, [Idle EXCEPT !.pc = "watch", !.op = "post", !.c = c])
  /\ UNCHANGED <<lastId, flags, users, reviews>>

\* create_flag up to its duplicate check: reads only.
MayFlag(c, u) ==
  /\ content[c].state = "live"
  /\ Author[c] # u
  /\ ~Flagged(c, u)

CreateFlag(q, c, u) ==
  /\ At(q, "idle") /\ RoomForFlag
  /\ MayFlag(c, u)
  /\ Goto(q, [Idle EXCEPT !.pc = "insert", !.op = "create", !.c = c, !.who = u])
  /\ UNCHANGED <<lastId, flags, content, users, reviews>>

\* retract_flag up to the deletion: the caller owns the flag, still pending.
\* Mutant of MayRetract: the status check is missing.
MayRetractAny(i, u) == Live(i) /\ flags[i].reporter = u
MayRetract(i, u) == Live(i) /\ flags[i].reporter = u /\ flags[i].status = "pending"

RetractFlag(q, i, u) ==
  /\ At(q, "idle")
  /\ MayRetract(i, u)
  /\ Goto(q, [Idle EXCEPT !.pc = "delete", !.op = "retract", !.c = flags[i].content,
                          !.who = u, !.ids = {i}])
  /\ UNCHANGED <<lastId, flags, content, users, reviews>>

\* review_flags up to its first write.  The rows need not be pending, nor of
\* one content: the content is that of the first row the query returns.
Reviewable(ids) ==
  IF PartialReviews THEN ids \subseteq LiveIds
                    ELSE \E c \in Contents : ids = Pending(c)

ReviewFlags(q, ids, c, action) ==
  /\ At(q, "idle") /\ reviews < MaxReviews
  /\ ids # {} /\ Reviewable(ids)
  /\ \E i \in ids : flags[i].content = c
  /\ reviews' = reviews + 1
  /\ Goto(q, [Idle EXCEPT !.pc = "mark", !.op = action, !.c = c, !.ids = ids])
  /\ UNCHANGED <<lastId, flags, content, users>>

\* restore_comment / restore: the admin clears deleted_at.
Restore(q, c) ==
  /\ At(q, "idle") /\ content[c].state = "live" /\ content[c].removed
  /\ content' = [content EXCEPT ![c].removed = FALSE]
  /\ UNCHANGED <<lastId, flags, users, reviews, req>>

\* delete_comment: the author hard-deletes the row; its flags stay.
Erase(q, c) ==
  /\ At(q, "idle") /\ content[c].state = "live"
  /\ content' = [content EXCEPT ![c].state = "gone"]
  /\ UNCHANGED <<lastId, flags, users, reviews, req>>

-----------------------------------------------------------------------------
(* Steps of a running request *)

\* check_content_for_keywords, after the content is committed: one matching
\* keyword inserts an auto-flag.  No match inserts nothing, and neither do two
\* or more, or one when System has flagged it by then: their rows break the
\* unique constraint and are rolled back.
Watch(q) ==
  /\ At(q, "watch") /\ Finish(q)
  /\ \/ ~Flagged(req[q].c, System) /\ Insert(req[q].c, System, TRUE)
     \/ UNCHANGED <<lastId, flags>>
  /\ UNCHANGED <<content, users, reviews>>

\* FlagRepository.create; uq_flag_content_reporter refuses a second row.
InsertFlag(q) ==
  /\ At(q, "insert")
  /\ IF Flagged(req[q].c, req[q].who)
     THEN Finish(q) /\ UNCHANGED <<lastId, flags>>
     ELSE Insert(req[q].c, req[q].who, FALSE) /\ Goto(q, [req[q] EXCEPT !.pc = "count"])
  /\ UNCHANGED <<content, users, reviews>>

\* delete_flag: DELETE by primary key, whatever the status is by now.
DeleteRow(q) ==
  /\ At(q, "delete")
  /\ Mark(req[q].ids, "deleted")
  /\ Goto(q, [req[q] EXCEPT !.pc = "count"])
  /\ UNCHANGED <<lastId, content, users, reviews>>

\* update_flags_status: UPDATE ... WHERE id IN flag_ids.
MarkRows(q) ==
  /\ At(q, "mark")
  /\ IF req[q].op = "dismiss"
     THEN Mark(req[q].ids, "dismissed") /\ Goto(q, [req[q] EXCEPT !.pc = "load"])
     ELSE Mark(req[q].ids, "actioned") /\ Goto(q, [req[q] EXCEPT !.pc = "remove"])
  /\ UNCHANGED <<lastId, content, users, reviews>>

\* _update_content_flag_count: the count is one query, the row the next.
PendingCount(c) == Cardinality(Pending(c))

CountPending(q) ==
  /\ At(q, "count")
  /\ Goto(q, [req[q] EXCEPT !.pc = "load", !.n = PendingCount(req[q].c)])
  /\ UNCHANGED <<lastId, flags, content, users, reviews>>

\* Mutant of AfterContent: a retraction counts as one more flag received.
AfterContentCounting(r) ==
  [Idle EXCEPT !.pc = "load_user", !.op = r.op, !.c = r.c, !.who = Author[r.c],
               !.counter = IF r.op = "dismiss" THEN "none" ELSE "total"]
AfterContent(r) ==
  IF r.op = "retract" THEN Idle
  ELSE [Idle EXCEPT !.pc = "load_user", !.op = r.op, !.c = r.c, !.who = Author[r.c],
                    !.counter = IF r.op = "create" THEN "total" ELSE "none"]

LoadContent(q) ==
  /\ At(q, "load")
  /\ Goto(q, IF content[req[q].c].state = "live"
             THEN [req[q] EXCEPT !.pc = "save", !.row = ColumnsOf(content[req[q].c])]
             ELSE AfterContent(req[q]))
  /\ UNCHANGED <<lastId, flags, content, users, reviews>>

\* The columns create_flag and retract_flag recompute, and those that the
\* dismissal's unhide resets.
\* Mutants of Recounted: hidden one flag too early, or one too late.
RecountedEarly(n) == [flag_count |-> n, is_hidden |-> n + 1 >= FLAG_THRESHOLD]
RecountedLate(n) == [flag_count |-> n, is_hidden |-> n > FLAG_THRESHOLD]
Recounted(n) == [flag_count |-> n, is_hidden |-> n >= FLAG_THRESHOLD]
Unhidden == [flag_count |-> 0, is_hidden |-> FALSE]

\* Mutant of SavedContent: a dismissal resets the count and not is_hidden.
SavedContentHidden(r) ==
  IF r.op = "dismiss" THEN [Unhidden EXCEPT !.is_hidden = r.row.is_hidden] ELSE Recounted(r.n)
SavedContent(r) == IF r.op = "dismiss" THEN Unhidden ELSE Recounted(r.n)

\* An UPDATE that matches no row, its content erased since, raises.
SaveContent(q) ==
  /\ At(q, "save")
  /\ LET r == req[q]  new == SavedContent(r)
     IN IF content[r.c].state = "gone" /\ new # r.row
        THEN Finish(q) /\ UNCHANGED content
        ELSE WriteContent(r.c, r.row, new) /\ Goto(q, AfterContent(r))
  /\ UNCHANGED <<lastId, flags, users, reviews>>

\* soft_delete_for_moderation.  A content erased before the lookup has no
\* author to blame; one erased between lookup and UPDATE raises.
Remove(q) ==
  /\ At(q, "remove")
  /\ LET c == req[q].c
     IN IF content[c].state = "live"
        THEN /\ content' = [content EXCEPT ![c].removed = TRUE]
             /\ Goto(q, [req[q] EXCEPT !.pc = "load_user", !.who = Author[c],
                                       !.counter = "valid"])
        ELSE /\ UNCHANGED content
             /\ \/ Goto(q, [req[q] EXCEPT !.pc = "reward"])
                \/ Finish(q)
  /\ UNCHANGED <<lastId, flags, users, reviews>>

\* reporter_ids: every commit expired the flag objects, so each is read anew,
\* and one that was retracted meanwhile raises.
Reward(q) ==
  /\ At(q, "reward")
  /\ Goto(q, IF req[q].ids \subseteq LiveIds
             THEN [Idle EXCEPT !.pc = "load_user", !.op = "action", !.c = req[q].c,
                               !.counter = "validated",
                               !.todo = {flags[i].reporter : i \in req[q].ids}]
             ELSE Idle)
  /\ UNCHANGED <<lastId, flags, content, users, reviews>>

\* The user row whose counter is next: a reporter still to reward, in any
\* order, or the author.
Targets(r) == IF r.counter = "validated" THEN r.todo ELSE {r.who}

\* A dismissal whose content is gone by now finds no author and stops.
NoAuthor(r) == r.op = "dismiss" /\ content[r.c].state = "gone"

LoadUser(q) ==
  /\ At(q, "load_user")
  /\ IF NoAuthor(req[q]) THEN Finish(q)
     ELSE \E u \in Targets(req[q]) :
            Goto(q, [req[q] EXCEPT !.pc = "save_user", !.who = u, !.user = users[u],
                                   !.todo = @ \ {u}])
  /\ UNCHANGED <<lastId, flags, content, users, reviews>>

\* _increment_author_flags, increment_flags_received, increment_successful_reports
\* and update_user_trust_score: all but the first rescore the user.
\* Mutants of Counted: the two review counters swapped, or the total lowered.
CountedSwapped(u, counter) ==
  CASE counter = "total" -> [u EXCEPT !.total = @ + 1]
    [] counter = "valid" -> [u EXCEPT !.validated = @ + 1]
    [] counter = "validated" -> [u EXCEPT !.valid = @ + 1]
    [] counter = "none" -> u
CountedDown(u, counter) == IF counter = "total" THEN [u EXCEPT !.total = @ - 1] ELSE u
Counted(u, counter) ==
  CASE counter = "total" -> [u EXCEPT !.total = @ + 1]
    [] counter = "valid" -> [u EXCEPT !.valid = @ + 1]
    [] counter = "validated" -> [u EXCEPT !.validated = @ + 1]
    [] counter = "none" -> u

\* Mutant of Rescored: a validated report is counted and not scored.
RescoredSeldom(who, u, counter) ==
  IF counter \in {"total", "validated"} THEN u ELSE [u EXCEPT !.trust = TrustScore(who, u)]
Rescored(who, u, counter) ==
  IF counter = "total" THEN u ELSE [u EXCEPT !.trust = TrustScore(who, u)]

\* Mutant of AfterUser: the last reporter's reward is followed by another.
AfterUserAgain(r) ==
  IF r.counter = "validated" THEN [r EXCEPT !.pc = "load_user"] ELSE Idle
AfterUser(r) ==
  CASE r.counter = "valid" -> [r EXCEPT !.pc = "reward", !.counter = "none", !.who = System,
                                        !.user = NewUser(System)]
    [] r.counter = "validated" /\ r.todo # {} -> [r EXCEPT !.pc = "load_user"]
    [] OTHER -> Idle

SaveUser(q) ==
  /\ At(q, "save_user")
  /\ LET r == req[q]
     IN /\ WriteUser(r.who, r.user, Rescored(r.who, Counted(r.user, r.counter), r.counter))
        /\ Goto(q, AfterUser(r))
  /\ UNCHANGED <<lastId, flags, content, reviews>>

\* The process is killed or the connection lost: the open transaction is gone,
\* the committed ones stay.
Fail(q) ==
  /\ Failures /\ ~At(q, "idle")
  /\ Finish(q)
  /\ UNCHANGED <<lastId, flags, content, users, reviews>>

-----------------------------------------------------------------------------
Arrival(q) ==
  \/ \E c \in Contents : Post(q, c) \/ Restore(q, c) \/ Erase(q, c)
  \/ \E c \in Contents, u \in Users : CreateFlag(q, c, u)
  \/ \E i \in Ids, u \in Users : RetractFlag(q, i, u)
  \/ \E ids \in SUBSET Ids, c \in Contents, action \in {"dismiss", "action"} :
       ReviewFlags(q, ids, c, action)

Step(q) ==
  \/ Watch(q) \/ InsertFlag(q) \/ DeleteRow(q) \/ MarkRows(q)
  \/ CountPending(q) \/ LoadContent(q) \/ SaveContent(q)
  \/ Remove(q) \/ Reward(q) \/ LoadUser(q) \/ SaveUser(q)

Next == \E q \in Requests : Arrival(q) \/ Step(q) \/ Fail(q)

Spec == Init /\ [][Next]_vars

\* A request that was accepted is run to its end by its thread.
Fairness == \A q \in Requests : WF_vars(Step(q))
FairSpec == Spec /\ Fairness

-----------------------------------------------------------------------------
(* Properties *)

TypeOK ==
  /\ lastId \in Nat
  /\ flags \in [Ids -> FlagRow]
  /\ content \in [Contents -> ContentRow]
  /\ users \in [Users -> UserRow]
  /\ reviews \in Nat
  /\ req \in [Requests -> Request]

\* Content is hidden only after FLAG_THRESHOLD different users flagged it: no
\* interleaving of flags, retractions and reviews hides it with fewer, and the
\* displayed flag_count never exceeds the users who ever flagged it
\* (_update_content_flag_count writes a count taken in an earlier step).
HiddenByDistinctReporters ==
  \A c \in Contents :
    /\ content[c].flag_count <= Cardinality(EverFlagged(c))
    /\ content[c].is_hidden => Cardinality(EverFlagged(c)) >= FLAG_THRESHOLD

\* The scores move only for a cause, however requests interleave and fail: a
\* user rewarded for a validated report has reported something, and a user
\* charged with a valid flag wrote something that was flagged (review_flags).
CountersHaveCause ==
  \A u \in Users :
    /\ users[u].validated > 0 => \E i \in Ids : flags[i].reporter = u
    /\ users[u].valid > 0 => \E i \in Ids : Author[flags[i].content] = u

\* Lost updates may lose a count, and never invent one: the author's
\* total_flags_received is at most the flags ever put on the author's contents
\* (_increment_author_flags reads the total and writes it back plus one), and
\* no user gets more than one validated report or valid flag from a review.
CountersNeverOvercount ==
  \A u \in Users :
    /\ users[u].total <= Cardinality({i \in Ids : Author[flags[i].content] = u})
    /\ users[u].valid <= reviews
    /\ users[u].validated <= reviews

\* No request is running.
Quiet == \A q \in Requests : At(q, "idle")

\* What the model docstring promises: "When flag_count reaches threshold (3),
\* content is auto-hidden."  Stated between requests, of content still there.
PendingFlagsHide ==
  Quiet => \A c \in Contents :
    content[c].state = "live" /\ PendingCount(c) >= FLAG_THRESHOLD => content[c].is_hidden

\* Run one at a time, requests keep the author's total exact: every flag put on
\* a content by a user's request is counted once, and an auto-flag never.
TotalIsExact ==
  Quiet => \A u \in Users :
    users[u].total =
      Cardinality({i \in Ids : Author[flags[i].content] = u /\ ~flags[i].auto})

\* Run one at a time, requests leave each stored trust score equal to the
\* formula over the stored counters (calculate_trust_score).
TrustIsCurrent == Quiet => \A u \in Users : users[u].trust = TrustScore(u, users[u])

\* "Retract a flag (only if not yet reviewed)": a reviewed flag is never deleted.
ReviewedNeverDeleted ==
  [][\A i \in Ids : flags[i].status \in {"dismissed", "actioned"}
       => flags'[i].status # "deleted"]_vars

\* Every request that is accepted ends, whatever other requests do to the rows
\* it works on.
RequestsEnd == \A q \in Requests : ~At(q, "idle") ~> At(q, "idle")

-----------------------------------------------------------------------------
(* Requests that run one at a time implement FlagBoard. *)

\* The requests whose change of the rows is committed while the content is not
\* yet changed: not yet visible on the board.
Underway(c) ==
  {q \in Requests : req[q].c = c /\
     req[q].pc \in {"count", "load", "save", "remove"}}

\* Pending flags before the request under way takes effect.
OpenBefore(c) ==
  LET now == {flags[i].reporter : i \in Pending(c)}
  IN IF Underway(c) = {} THEN now
     ELSE LET r == req[CHOOSE q \in Underway(c) : TRUE]
          IN IF r.op = "create" THEN now \ {r.who}
             ELSE now \cup {flags[i].reporter : i \in r.ids}

Reviewed(c) ==
  {flags[i].reporter : i \in {j \in Ids : /\ flags[j].content = c
                                          /\ flags[j].status \in {"dismissed", "actioned"}}}

Board == INSTANCE FlagBoard WITH
  state   <- [c \in Contents |-> content[c].state],
  open    <- [c \in Contents |-> OpenBefore(c)],
  closed  <- [c \in Contents |-> Reviewed(c) \ OpenBefore(c)],
  hidden  <- [c \in Contents |-> content[c].is_hidden],
  removed <- [c \in Contents |-> content[c].removed]

\* Run one at a time, flag requests have the effect of one atomic step each:
\* flags are counted, hide and unhide content and are closed by a review as
\* FlagBoard says (FlagService, ModerationService.review_flags).
ImplementsBoard == Board!Spec
-----------------------------------------------------------------------------
(* What the safety properties rest on: an inductive invariant in three parts. *)

Reported(u) == \E i \in Ids : flags[i].reporter = u
WasFlagged(u) == \E i \in Ids : Author[flags[i].content] = u

\* A reporter has at most one flag on a content (create_flag checks before it
\* inserts, and two requests can pass the check; reviewed flags count).
OneFlagPerReporter ==
  \A i, j \in LiveIds :
    /\ flags[i].content = flags[j].content
    /\ flags[i].reporter = flags[j].reporter
    => i = j

\* What a running request will blame or reward somebody for has happened.
HasCause(r) ==
  /\ r.ids \subseteq Ids
  /\ \A u \in r.todo : Reported(u)
  /\ r.pc \in {"mark", "remove"} => WasFlagged(Author[r.c])
  /\ r.pc \in {"load_user", "save_user"} /\ r.counter = "valid" => WasFlagged(r.who)
  /\ r.pc = "save_user" /\ r.counter = "validated" => Reported(r.who)

RequestsHaveCause == \A q \in Requests : HasCause(req[q])

\* The count a request carries was at most the users who had flagged by then.
CountIsSound(r) == r.n <= Cardinality(EverFlagged(r.c))
CountsAreOfDistinctReporters == \A q \in Requests : CountIsSound(req[q])

UniqueInv == TypeOK /\ OneFlagPerReporter
CauseInv == TypeOK /\ CountersHaveCause /\ RequestsHaveCause
HiddenInv == UniqueInv /\ HiddenByDistinctReporters /\ CountsAreOfDistinctReporters
=============================================================================
