----------------------------- MODULE CommentDesk -----------------------------
(***************************************************************************)
(* Comments between their author and the moderators, and the likes they    *)
(* get: CommentService, CommentLikeService, the part of TrustScoreService  *)
(* that holds comments back, and what account deletion does to both.       *)
(*                                                                         *)
(* A handler that commits once and writes constants is one step.  Creation *)
(* decides on the author's row and commits later; an approval, and a like, *)
(* commit their row first and a counter that was read in between after it. *)
(***************************************************************************)
EXTENDS Integers, Sequences, Workers

CONSTANTS
  Commenters,       \* users who comment
  Likers,           \* users who like comments
  Guarded,          \* users set to require approval, or with a low trust score
  COMMENTS_NEEDED,  \* approved comments that free a user from approval
  MaxComments,      \* bound: comments ever created, one fewer with two workers
  MaxLikeCount      \* bound: the like_count that a comment may drift to

ASSUME CommentDeskAssumption ==
  /\ Commenters # {} /\ Guarded \subseteq Commenters
  /\ {COMMENTS_NEEDED, MaxComments, MaxLikeCount} \subseteq Nat

VARIABLES
  comments,   \* the rows, by id; a hard deletion leaves "gone"
  likes,      \* by id, the users with a like row
  likeCount,  \* by id, Comment.like_count
  approved,   \* User.approved_comments_count
  left,       \* users who deleted their account
  cutShort,   \* history: whether a handler died between two commits
  deskReq     \* the handler that each worker runs

deskVars == <<workers, comments, likes, likeCount, approved, left, cutShort, deskReq>>

-----------------------------------------------------------------------------
CommentId == 1..MaxComments
DeskUser == Commenters \cup Likers
\* "cleared" is a history: whether a moderator has ever made the comment visible.
CommentRow == [author : Commenters, state : {"live", "deleted", "gone"},
               is_moderated : BOOLEAN, requires_approval : BOOLEAN,
               approved_at : BOOLEAN, cleared : BOOLEAN]

DeskRequest == [pc : {"idle", "create", "approve", "credit", "credited",
                      "like", "unlike", "count", "counted"},
                user : DeskUser, id : 0..MaxComments, held : BOOLEAN, liked : BOOLEAN,
                n : Nat]
DeskIdle == [pc |-> "idle", user |-> CHOOSE u \in DeskUser : TRUE, id |-> 0,
             held |-> FALSE, liked |-> FALSE, n |-> 0]
DeskAt(q, step) == q \in workers /\ deskReq[q].pc = step
DeskGoto(q, r) == deskReq' = [deskReq EXCEPT ![q] = r]
DeskEnds(q) == DeskGoto(q, DeskIdle)

Exists(c) == c \in DOMAIN comments /\ comments[c].state # "gone"

CommentDeskInit ==
  /\ WorkersInit
  /\ comments = <<>>
  /\ likes = <<>>
  /\ likeCount = <<>>
  /\ approved = [u \in Commenters |-> 0]
  /\ left = {}
  /\ cutShort = FALSE
  /\ deskReq = [q \in Worker |-> DeskIdle]

-----------------------------------------------------------------------------
(* Creation and moderation *)

\* requires_comment_approval
HeldBack(u) == u \in Guarded \/ approved[u] < COMMENTS_NEEDED

\* create_comment up to its commit: the decision is made on what is stored now.
CreateComment(q, u) ==
  /\ DeskAt(q, "idle") /\ u \in Commenters \ left
  /\ DeskGoto(q, [DeskIdle EXCEPT !.pc = "create", !.user = u, !.held = HeldBack(u)])
  /\ UNCHANGED <<comments, likes, likeCount, approved, left, cutShort>>

CommentCreated(q) ==
  /\ DeskAt(q, "create") /\ DeskEnds(q) /\ Len(comments) + Cardinality(workers) <= MaxComments
  /\ comments' = Append(comments, [author |-> deskReq[q].user, state |-> "live",
                                   is_moderated |-> deskReq[q].held,
                                   requires_approval |-> deskReq[q].held,
                                   approved_at |-> FALSE, cleared |-> FALSE])
  /\ likes' = Append(likes, {})
  /\ likeCount' = Append(likeCount, 0)
  /\ UNCHANGED <<approved, left, cutShort>>

\* Handlers that write one comment in one commit.
\* Mutant of Shown: restoring a comment also shows it.
ShownModerated(c) == [c EXCEPT !.state = "live", !.is_moderated = FALSE]
Shown(c) == [c EXCEPT !.state = "live"]
SetComment(q, c, row) ==
  /\ DeskAt(q, "idle") /\ Exists(c)
  /\ comments' = [comments EXCEPT ![c] = row]
  /\ UNCHANGED <<likes, likeCount, approved, left, cutShort, deskReq>>
\* moderate_comment
ModerateComment(q, c, on) ==
  /\ Exists(c)
  /\ SetComment(q, c, [comments[c] EXCEPT !.is_moderated = on, !.cleared = @ \/ ~on])
\* admin_delete_comment, and reject_pending_comment, which doesn't ask whether
\* the comment is pending and leaves it so.
RemoveComment(q, c) == Exists(c) /\ SetComment(q, c, [comments[c] EXCEPT !.state = "deleted"])
\* restore_comment
RestoreComment(q, c) == Exists(c) /\ SetComment(q, c, Shown(comments[c]))

\* delete_comment: a hard deletion by the author, with the comment's likes.
DeleteComment(q, c) ==
  /\ Exists(c) /\ comments[c].author \notin left
  /\ DeskAt(q, "idle")
  /\ comments' = [comments EXCEPT ![c].state = "gone"]
  /\ likes' = [likes EXCEPT ![c] = {}]
  /\ UNCHANGED <<likeCount, approved, left, cutShort, deskReq>>

\* approve_comment: a comment that is not pending is left alone; a deleted one
\* may be approved.
ApproveComment(q, c) ==
  /\ DeskAt(q, "idle") /\ Exists(c) /\ comments[c].requires_approval
  /\ DeskGoto(q, [DeskIdle EXCEPT !.pc = "approve", !.id = c, !.user = comments[c].author])
  /\ UNCHANGED <<comments, likes, likeCount, approved, left, cutShort>>

CommentApproved(q) ==
  /\ DeskAt(q, "approve")
  /\ LET c == deskReq[q].id
     IN IF Exists(c)
        THEN /\ comments' = [comments EXCEPT ![c].is_moderated = FALSE,
                                             ![c].requires_approval = FALSE,
                                             ![c].approved_at = TRUE, ![c].cleared = TRUE]
             /\ DeskGoto(q, [deskReq[q] EXCEPT !.pc = "credit"])
        ELSE comments' = comments /\ DeskEnds(q)
  /\ UNCHANGED <<likes, likeCount, approved, left, cutShort>>

\* increment_approved_comments reads the author, then commits one more.
Credit(q) ==
  /\ DeskAt(q, "credit")
  /\ DeskGoto(q, [deskReq[q] EXCEPT !.pc = "credited", !.n = approved[deskReq[q].user]])
  /\ UNCHANGED <<comments, likes, likeCount, approved, left, cutShort>>
Credited(q) ==
  /\ DeskAt(q, "credited") /\ DeskEnds(q)
  /\ approved' = [approved EXCEPT ![deskReq[q].user] = deskReq[q].n + 1]
  /\ UNCHANGED <<comments, likes, likeCount, left, cutShort>>

-----------------------------------------------------------------------------
(* Likes *)

\* toggle_like finds the user's like, or none.
ToggleLike(q, c, u) ==
  /\ DeskAt(q, "idle") /\ c \in DOMAIN comments /\ comments[c].state = "live"
  /\ u \in Likers \ left /\ comments[c].author # u
  /\ DeskGoto(q, [DeskIdle EXCEPT !.id = c, !.user = u,
                                  !.pc = IF u \in likes[c] THEN "unlike" ELSE "like"])
  /\ UNCHANGED <<comments, likes, likeCount, approved, left, cutShort>>

\* The row is committed.  A second row for the user is refused; deleting a row
\* that is gone is no error.
ToggleRow(q) ==
  /\ q \in workers /\ deskReq[q].pc \in {"like", "unlike"}
  /\ LET r == deskReq[q]
         add == r.pc = "like"
     IN IF add /\ (~Exists(r.id) \/ r.user \in likes[r.id])
        THEN likes' = likes /\ DeskEnds(q)
        ELSE /\ likes' = [likes EXCEPT ![r.id] = IF add THEN @ \cup {r.user} ELSE @ \ {r.user}]
             /\ DeskGoto(q, [r EXCEPT !.pc = "count", !.liked = add])
  /\ UNCHANGED <<comments, likeCount, approved, left, cutShort>>

\* The commit expired the comment: its count is read anew, then committed.
ReadCount(q) ==
  /\ DeskAt(q, "count")
  /\ IF Exists(deskReq[q].id)
     THEN DeskGoto(q, [deskReq[q] EXCEPT !.pc = "counted", !.n = likeCount[deskReq[q].id]])
     ELSE DeskEnds(q)
  /\ UNCHANGED <<comments, likes, likeCount, approved, left, cutShort>>

\* Mutants of Recount: taking a like back leaves the count, or takes one off 0.
RecountUp(n, liked) == IF liked THEN n + 1 ELSE n
RecountBelow(n, liked) == IF liked THEN n + 1 ELSE n - 1
Recount(n, liked) == IF liked THEN n + 1 ELSE IF n > 0 THEN n - 1 ELSE 0
WriteCount(q) ==
  /\ DeskAt(q, "counted") /\ DeskEnds(q) /\ deskReq[q].n < MaxLikeCount
  /\ LET r == deskReq[q]
     IN IF Exists(r.id) THEN likeCount' = [likeCount EXCEPT ![r.id] = Recount(r.n, r.liked)]
                        ELSE UNCHANGED likeCount
  /\ UNCHANGED <<comments, likes, approved, left, cutShort>>

-----------------------------------------------------------------------------
\* delete_account, as far as comments and likes see it: the user's likes are
\* deleted and no count is written; their comments are deleted if they ask.
LeaveDesk(q, u, withContent) ==
  /\ DeskAt(q, "idle") /\ u \notin left
  /\ left' = left \cup {u}
  /\ likes' = [c \in DOMAIN likes |-> likes[c] \ {u}]
  /\ comments' = [c \in DOMAIN comments |->
                    IF withContent /\ Exists(c) /\ comments[c].author = u
                    THEN [comments[c] EXCEPT !.state = "deleted"] ELSE comments[c]]
  /\ UNCHANGED <<likeCount, approved, cutShort, deskReq>>

\* The process dies: what is committed stays.
DeskDies(q) ==
  /\ q \in workers /\ deskReq[q].pc # "idle" /\ DeskEnds(q)
  /\ cutShort' = (cutShort \/ deskReq[q].pc \in {"credit", "credited", "count", "counted"})
  /\ UNCHANGED <<comments, likes, likeCount, approved, left>>

DeskStep(q) ==
  \/ \E u \in Commenters : CreateComment(q, u)
  \/ CommentCreated(q) \/ CommentApproved(q) \/ Credit(q) \/ Credited(q)
  \/ \E c \in DOMAIN comments :
       \/ \E on \in BOOLEAN : ModerateComment(q, c, on)
       \/ RemoveComment(q, c) \/ RestoreComment(q, c) \/ DeleteComment(q, c)
       \/ ApproveComment(q, c)
       \/ \E u \in Likers : ToggleLike(q, c, u)
  \/ ToggleRow(q) \/ ReadCount(q) \/ WriteCount(q) \/ DeskDies(q)
  \/ \E u \in DeskUser, b \in BOOLEAN : LeaveDesk(q, u, b)
CommentDeskNext == UNCHANGED workers /\ \E q \in workers : DeskStep(q)
CommentDeskSpec == CommentDeskInit /\ [][CommentDeskNext]_deskVars

CommentDeskTypeOK ==
  /\ DOMAIN comments \in {1..n : n \in 0..MaxComments}
  /\ \A c \in DOMAIN comments : comments[c] \in CommentRow /\ likes[c] \subseteq Likers
                                /\ likeCount[c] \in 0..MaxLikeCount
  /\ approved \in [Commenters -> Nat]
  /\ left \subseteq DeskUser
  /\ deskReq \in [Worker -> DeskRequest]

AtRest == \A q \in workers : deskReq[q].pc = "idle"

\* With one handler at a time, an unguarded comment that is visible without a
\* moderator's word has an author with enough comments that were approved:
\* restoring, approving twice or deleting comments gives nobody that freedom.
FirstCommentsReviewed ==
  Serial => \A c \in DOMAIN comments :
    LET row == comments[c]
        own == {d \in DOMAIN comments : comments[d].author = row.author}
    IN row.state = "live" /\ ~row.is_moderated /\ ~row.cleared
         => /\ row.author \notin Guarded
            /\ Cardinality({d \in own : comments[d].approved_at}) >= COMMENTS_NEEDED

\* With one handler at a time and none cut short, a comment's like_count is the
\* number of its likes, but for those that left with their users' accounts.
LikesCounted ==
  Serial /\ AtRest /\ ~cutShort => \A c \in DOMAIN comments : Exists(c) =>
    /\ Cardinality(likes[c]) <= likeCount[c]
    /\ likeCount[c] <= Cardinality(likes[c]) + Cardinality(left)
=============================================================================
