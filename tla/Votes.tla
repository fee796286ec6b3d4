-------------------------------- MODULE Votes --------------------------------
(***************************************************************************)
(* Votes on ideas, and the merge of a duplicate idea into another one with *)
(* its votes and comments: VoteService and IdeaService.merge_ideas.        *)
(*                                                                         *)
(* A vote is a row with a key of its own, unique by idea and user.  What a *)
(* handler changed reaches the database at its next commit; the session    *)
(* doesn't flush by itself.                                                *)
(***************************************************************************)
EXTENDS Integers, Workers

CONSTANTS
  VotedIdeas,   \* ideas
  Voters,       \* users
  Departing,    \* those of them who may delete their accounts
  IdeaAuthor,   \* the author of each idea
  Remarks,      \* comments that may be posted
  MaxVoteId, MaxRemarks  \* bounds: votes and comments ever inserted, one fewer with two workers

ASSUME VotesAssumption ==
  /\ VotedIdeas # {} /\ Voters # {} /\ Departing \subseteq Voters
  /\ DOMAIN IdeaAuthor = VotedIdeas /\ {MaxVoteId, MaxRemarks} \subseteq Nat
  /\ {"unposted", "deleted"} \cap VotedIdeas = {}

VARIABLES
  ideaStatus,  \* "approved", "pending", or "gone" once merged into another
  votes,       \* the row of each idea and user
  lastVoteId,
  departed,    \* users who have deleted their accounts
  remarks,     \* the idea of each comment, "unposted" or "deleted"
  said,        \* history: the vote each user last gave an idea, or had moved there
  overlap,     \* history: whether two merges ever ran at once
  voteReq      \* the handler that each worker runs

votesVars == <<workers, ideaStatus, votes, lastVoteId, departed, remarks, said, overlap, voteReq>>

-----------------------------------------------------------------------------
VoteType == {"up", "down"}
NoVote == [id |-> 0, type |-> "none"]
VoteRow == [id : 0..MaxVoteId, type : VoteType \cup {"none"}]
There(row) == row.id # 0

\* Votes that a merge read, by user and key.
SourceVote == [user : Voters, id : 1..MaxVoteId]
On(i) == {v \in SourceVote : v.id = votes[i][v.user].id}

VoteRequest ==
  [pc : {"idle", "vote", "remove", "votes", "comments", "delete"},
   idea : VotedIdeas, user : Voters, type : VoteType \cup {"none"}, row : 0..MaxVoteId,
   target : VotedIdeas, todo : SUBSET SourceVote, moved : SUBSET SourceVote, fresh : BOOLEAN,
   taken : SUBSET Remarks, doomed : SUBSET Voters]
VoteIdle ==
  [pc |-> "idle", idea |-> CHOOSE i \in VotedIdeas : TRUE, user |-> CHOOSE u \in Voters : TRUE,
   type |-> "none", row |-> 0, target |-> CHOOSE i \in VotedIdeas : TRUE,
   todo |-> {}, moved |-> {}, fresh |-> TRUE, taken |-> {}, doomed |-> {}]

VoteAt(q, step) == q \in workers /\ voteReq[q].pc = step
VoteGoto(q, r) == voteReq' = [voteReq EXCEPT ![q] = r]
VoteEnds(q) == VoteGoto(q, VoteIdle)

VotesInit ==
  /\ WorkersInit
  /\ ideaStatus = [i \in VotedIdeas |-> "pending"]
  /\ votes = [i \in VotedIdeas |-> [u \in Voters |-> NoVote]]
  /\ lastVoteId = 0
  /\ departed = {}
  /\ remarks = [c \in Remarks |-> "unposted"]
  /\ said = [i \in VotedIdeas |-> [u \in Voters |-> "nothing"]]
  /\ overlap = FALSE
  /\ voteReq = [q \in Worker |-> VoteIdle]

-----------------------------------------------------------------------------
(* Voting *)

\* vote_on_idea up to its commit.  The qualities chosen with a vote are flushed
\* after it and no commit follows: they are not part of the state.  A vote of
\* the type that is stored writes nothing.
MayVote(i, u) == ideaStatus[i] = "approved" /\ IdeaAuthor[i] # u
Vote(q, i, u, type) ==
  /\ VoteAt(q, "idle") /\ MayVote(i, u) /\ u \notin departed /\ votes[i][u].type # type
  /\ VoteGoto(q, [VoteIdle EXCEPT !.pc = "vote", !.idea = i, !.user = u, !.type = type,
                                  !.row = votes[i][u].id])
  /\ UNCHANGED <<ideaStatus, votes, lastVoteId, remarks, said, overlap, departed>>

\* Commit of the update by key, which fails if the row is no longer there, or
\* moved with its key by a merge.
UpdateVote(q) ==
  /\ VoteAt(q, "vote") /\ voteReq[q].row # 0 /\ VoteEnds(q)
  /\ LET r == voteReq[q]
         here == {i \in VotedIdeas : votes[i][r.user].id = r.row}
     IN /\ votes' = [i \in VotedIdeas |->
                       IF i \in here THEN [votes[i] EXCEPT ![r.user].type = r.type] ELSE votes[i]]
        /\ said' = [i \in VotedIdeas |->
                      IF i \in here THEN [said[i] EXCEPT ![r.user] = r.type] ELSE said[i]]
  /\ UNCHANGED <<ideaStatus, lastVoteId, remarks, overlap, departed>>

\* Commit of the insert: refused if the idea is gone, or has the user's vote.
InsertVote(q) ==
  /\ VoteAt(q, "vote") /\ voteReq[q].row = 0 /\ VoteEnds(q)
  /\ LET r == voteReq[q]
     IN IF ideaStatus[r.idea] # "gone" /\ ~There(votes[r.idea][r.user])
        THEN /\ lastVoteId + Cardinality(workers) <= MaxVoteId
             /\ lastVoteId' = lastVoteId + 1
             /\ votes' = [votes EXCEPT ![r.idea][r.user] =
                                         [id |-> lastVoteId + 1, type |-> r.type]]
             /\ said' = [said EXCEPT ![r.idea][r.user] = r.type]
        ELSE UNCHANGED <<votes, lastVoteId, said>>
  /\ UNCHANGED <<ideaStatus, remarks, overlap, departed>>

\* remove_vote
RemoveVote(q, i, u) ==
  /\ VoteAt(q, "idle") /\ There(votes[i][u]) /\ u \notin departed
  /\ VoteGoto(q, [VoteIdle EXCEPT !.pc = "remove", !.idea = i, !.user = u, !.row = votes[i][u].id])
  /\ UNCHANGED <<ideaStatus, votes, lastVoteId, remarks, said, overlap, departed>>

\* Commit of the deletion by key; a row that is no longer there is no error.
DeleteVote(q) ==
  /\ VoteAt(q, "remove") /\ VoteEnds(q)
  /\ LET r == voteReq[q]
         here == {i \in VotedIdeas : votes[i][r.user].id = r.row}
     IN /\ votes' = [i \in VotedIdeas |->
                       IF i \in here THEN [votes[i] EXCEPT ![r.user] = NoVote] ELSE votes[i]]
        /\ said' = [i \in VotedIdeas |->
                      IF i \in here THEN [said[i] EXCEPT ![r.user] = "nothing"] ELSE said[i]]
  /\ UNCHANGED <<ideaStatus, lastVoteId, remarks, overlap, departed>>

\* delete_account deletes the user's votes; what the user's other requests do
\* goes on.
LeaveVotes(q, u) ==
  /\ VoteAt(q, "idle") /\ u \in Departing \ departed
  /\ departed' = departed \cup {u}
  /\ votes' = [i \in VotedIdeas |-> [votes[i] EXCEPT ![u] = NoVote]]
  /\ said' = [i \in VotedIdeas |-> [said[i] EXCEPT ![u] = "nothing"]]
  /\ UNCHANGED <<ideaStatus, lastVoteId, remarks, overlap, voteReq>>

\* create_comment, as far as a merge sees it.
Remark(q, c, i) ==
  /\ VoteAt(q, "idle") /\ remarks[c] = "unposted" /\ ideaStatus[i] = "approved"
  /\ Cardinality({d \in Remarks : remarks[d] # "unposted"}) + Cardinality(workers) <= MaxRemarks
  /\ remarks' = [remarks EXCEPT ![c] = i]
  /\ UNCHANGED <<ideaStatus, votes, lastVoteId, said, voteReq, overlap, departed>>

\* moderate_idea, as far as voting sees it.
Moderate(q, i) ==
  /\ VoteAt(q, "idle") /\ ideaStatus[i] = "pending"
  /\ ideaStatus' = [ideaStatus EXCEPT ![i] = "approved"]
  /\ UNCHANGED <<votes, lastVoteId, remarks, said, voteReq, overlap, departed>>

-----------------------------------------------------------------------------
(* Merging *)

\* merge_ideas reads the source's votes.
Merge(q, source, target) ==
  /\ VoteAt(q, "idle") /\ source # target
  /\ ideaStatus[source] # "gone" /\ ideaStatus[target] # "gone"
  /\ VoteGoto(q, [VoteIdle EXCEPT !.pc = "votes", !.idea = source, !.target = target,
                                  !.todo = On(source)])
  /\ overlap' = (overlap \/ \E p \in workers : voteReq[p].pc \in {"votes", "comments", "delete"})
  /\ UNCHANGED <<ideaStatus, votes, lastVoteId, remarks, said, departed>>

\* The votes read are as they were, "fresh", until a commit expires them: one
\* whose row is gone then fails the merge.
Held(v) == {i \in VotedIdeas : votes[i][v.user].id = v.id}
Readable(r, v) == r.fresh \/ Held(v) # {}
Moved(r) ==
  LET row(u) == CHOOSE x \in {votes[i][u] : i \in VotedIdeas} :
                  \E v \in r.moved : v.user = u /\ v.id = x.id
      at(i, u) == IF \A v \in r.moved : v.user # u THEN votes[i][u]
                  ELSE IF i = r.target THEN row(u)
                  ELSE IF votes[i][u] = row(u) THEN NoVote ELSE votes[i][u]
  IN [i \in VotedIdeas |-> [u \in Voters |-> at(i, u)]]
VoteGone(q, v) ==
  /\ VoteAt(q, "votes") /\ v \in voteReq[q].todo /\ ~Readable(voteReq[q], v) /\ VoteEnds(q)
  /\ UNCHANGED <<ideaStatus, votes, lastVoteId, remarks, said, overlap, departed>>

\* A vote whose user has none on the target is assigned to it, in the session.
MoveVote(q, v) ==
  /\ VoteAt(q, "votes") /\ v \in voteReq[q].todo /\ Readable(voteReq[q], v)
  /\ ~There(votes[voteReq[q].target][v.user])
  /\ VoteGoto(q, [voteReq[q] EXCEPT !.todo = @ \ {v}, !.moved = @ \cup {v}])
  /\ UNCHANGED <<ideaStatus, votes, lastVoteId, remarks, said, overlap, departed>>

\* The flush of the moves so far writes rows by key: each must be there, and the
\* target have no other vote of its user.  Or it raises, and all is rolled back.
CanFlush(r) ==
  /\ ideaStatus[r.target] # "gone"
  /\ \A v \in r.moved : /\ Held(v) # {}
                       /\ votes[r.target][v.user].id \in {0, v.id}

\* The vote of a user who has one on the target is deleted, by key, and the
\* commit of that deletion flushes the moves.
\* Mutant of Deduplicated: the target's vote is the one that is deleted.
DeduplicatedOther(r, v) == [Moved(r) EXCEPT ![r.target][v.user] = NoVote]
Deduplicated(r, v) ==
  [i \in VotedIdeas |-> IF i \in Held(v) THEN [Moved(r)[i] EXCEPT ![v.user] = NoVote]
                                         ELSE Moved(r)[i]]
DropVote(q, v) ==
  /\ VoteAt(q, "votes") /\ v \in voteReq[q].todo /\ Readable(voteReq[q], v)
  /\ There(votes[voteReq[q].target][v.user])
  /\ IF CanFlush(voteReq[q])
     THEN LET r == voteReq[q]
              out == {w.user : w \in r.moved}
              at(i, u) == IF i = r.target /\ u \in out THEN Moved(r)[i][u].type
                          ELSE IF i = r.idea /\ votes[i][u].id \in {w.id : w \in r.moved \cup {v}}
                          THEN "nothing"
                          ELSE said[i][u]
          IN /\ votes' = Deduplicated(r, v)
             /\ said' = [i \in VotedIdeas |-> [u \in Voters |-> at(i, u)]]
             /\ VoteGoto(q, [r EXCEPT !.todo = @ \ {v}, !.moved = {}, !.fresh = FALSE])
     ELSE UNCHANGED <<votes, said>> /\ VoteEnds(q)
  /\ UNCHANGED <<ideaStatus, lastVoteId, remarks, overlap, departed>>

\* bulk_update_comments_idea_id: in the transaction, not yet committed.
\* Mutant of Taken: the comments of an idea are left where they are.
TakenNone(source) == {}
Taken(source) == {c \in Remarks : remarks[c] = source}
MoveComments(q) ==
  /\ VoteAt(q, "votes") /\ voteReq[q].todo = {}
  /\ VoteGoto(q, [voteReq[q] EXCEPT !.pc = "comments", !.taken = Taken(voteReq[q].idea)])
  /\ UNCHANGED <<ideaStatus, votes, lastVoteId, remarks, said, overlap, departed>>

\* session.delete cascades to the votes and comments that the database still
\* holds for the source: the votes assigned to the target since the last flush
\* are among them, and so are comments posted since the update.
Cascade(q) ==
  /\ VoteAt(q, "comments")
  /\ LET r == voteReq[q]
     IN VoteGoto(q, [r EXCEPT !.pc = "delete",
                       !.doomed = {v.user : v \in On(r.idea)},
                       !.todo = {}])
  /\ UNCHANGED <<ideaStatus, votes, lastVoteId, remarks, said, overlap, departed>>

\* Commit: what refers to the source and was not loaded keeps it from being
\* deleted, and so does an assigned vote that is no longer there.
CanDelete(r) ==
  /\ {u \in Voters : There(votes[r.idea][u])} \subseteq r.doomed
  /\ {v.user : v \in r.moved} \subseteq r.doomed
  /\ {ideaStatus[r.idea], ideaStatus[r.target]} \cap {"gone"} = {}
DeleteSource(q) ==
  /\ VoteAt(q, "delete") /\ VoteEnds(q)
  /\ LET r == voteReq[q]
     IN IF CanDelete(r)
        THEN /\ ideaStatus' = [ideaStatus EXCEPT ![r.idea] = "gone"]
             /\ votes' = [votes EXCEPT ![r.idea] = [u \in Voters |-> NoVote]]
             /\ remarks' = [c \in Remarks |-> IF c \in r.taken THEN r.target
                                              ELSE IF remarks[c] = r.idea THEN "deleted"
                                              ELSE remarks[c]]
             /\ said' = [said EXCEPT ![r.idea] = [u \in Voters |-> "nothing"]]
        ELSE UNCHANGED <<ideaStatus, votes, remarks, said>>
  /\ UNCHANGED <<lastVoteId, overlap, departed>>

-----------------------------------------------------------------------------
VoteStep(q) ==
  \/ \E i \in VotedIdeas, u \in Voters :
       \/ \E type \in VoteType : Vote(q, i, u, type)
       \/ RemoveVote(q, i, u)
  \/ \E u \in Voters : LeaveVotes(q, u)
  \/ UpdateVote(q) \/ InsertVote(q) \/ DeleteVote(q)
  \/ \E i \in VotedIdeas : Moderate(q, i) \/ \E c \in Remarks : Remark(q, c, i)
  \/ \E i, j \in VotedIdeas : Merge(q, i, j)
  \/ \E v \in SourceVote : MoveVote(q, v) \/ DropVote(q, v) \/ VoteGone(q, v)
  \/ MoveComments(q) \/ Cascade(q) \/ DeleteSource(q)
VotesNext == UNCHANGED workers /\ \E q \in workers : VoteStep(q)
VotesSpec == VotesInit /\ [][VotesNext]_votesVars

VotesTypeOK ==
  /\ ideaStatus \in [VotedIdeas -> {"approved", "pending", "gone"}]
  /\ votes \in [VotedIdeas -> [Voters -> VoteRow]]
  /\ lastVoteId \in 0..MaxVoteId
  /\ departed \subseteq Departing
  /\ remarks \in [Remarks -> VotedIdeas \cup {"unposted", "deleted"}]
  /\ said \in [VotedIdeas -> [Voters -> VoteType \cup {"nothing"}]]
  /\ overlap \in BOOLEAN
  /\ voteReq \in [Worker -> VoteRequest]

\* What a user has said on an idea is what is stored for it: votes, changes of
\* mind and merges of other ideas into it, in any order, neither lose nor
\* replace it, and only its removal or a merge of the idea itself takes it.
\* Two merges at once may: the second deletes a vote that the first has moved.
VotesStand ==
  ~overlap => \A i \in VotedIdeas, u \in Voters :
    IF said[i][u] = "nothing" THEN votes[i][u] = NoVote ELSE votes[i][u].type = said[i][u]

\* With one handler at a time, no comment is lost when its idea is merged into
\* another.
CommentsSurviveMerge == Serial => \A c \in Remarks : remarks[c] # "deleted"
=============================================================================
