------------------------- MODULE Contributions_proofs -------------------------
(***************************************************************************)
(* Proofs about what users add to ideas: votes, and the comments on them.  *)
(***************************************************************************)
EXTENDS Votes, CommentDesk, Workers_proofs, SequenceTheorems

(* Votes: type correctness *)

\* A stored vote has a key and a type.
StoredVote == {NoVote} \cup [id : 1..MaxVoteId, type : VoteType]
VoteWork == {r \in VoteRequest : r.pc = "vote" => r.type # "none"}
VotesTyped ==
  /\ workers \in WorkerSets /\ VotesTypeOK
  /\ votes \in [VotedIdeas -> [Voters -> StoredVote]]
  /\ voteReq \in [Worker -> VoteWork]

LEMMA VoteFacts ==
  ASSUME VotesTyped
  PROVE  /\ MaxVoteId \in Nat /\ lastVoteId \in Nat /\ workers \subseteq Worker
         /\ Cardinality(workers) \in Nat /\ Cardinality(workers) >= 1
         /\ \A q \in workers : voteReq[q] \in VoteWork /\ voteReq[q] \in VoteRequest
         /\ \A i \in VotedIdeas, u \in Voters : votes[i][u] \in StoredVote
<1>1. MaxVoteId \in Nat
  BY VotesAssumption
<1>2. QED BY <1>1, WorkersCounted DEF VotesTyped, VotesTypeOK, VoteWork

LEMMA StoredVoteFacts ==
  ASSUME MaxVoteId \in Nat, NEW row \in StoredVote
  PROVE  /\ row \in VoteRow /\ row.id \in 0..MaxVoteId
         /\ row.id = 0 <=> row = NoVote
         /\ row.id # 0 => row.type \in VoteType
<1>1. CASE row = NoVote
  BY <1>1 DEF NoVote, VoteRow
<1>2. CASE row \in [id : 1..MaxVoteId, type : VoteType]
  BY <1>2 DEF NoVote, VoteRow
<1>3. QED BY <1>1, <1>2 DEF StoredVote

LEMMA VoteIdleType ==
  ASSUME MaxVoteId \in Nat
  PROVE  VoteIdle \in VoteRequest /\ VoteIdle \in VoteWork /\ VoteIdle.pc = "idle"
<1>1. (CHOOSE i \in VotedIdeas : TRUE) \in VotedIdeas /\ (CHOOSE u \in Voters : TRUE) \in Voters
  BY VotesAssumption
<1>2. QED BY <1>1 DEF VoteIdle, VoteRequest, VoteWork

LEMMA VoteGotoType ==
  ASSUME VotesTyped, NEW q \in workers, NEW s, VoteGoto(q, s)
  PROVE  /\ voteReq'[q] = s /\ \A p \in workers \ {q} : voteReq'[p] = voteReq[p]
         /\ s \in VoteWork => voteReq' \in [Worker -> VoteWork]
BY VoteFacts DEF VotesTyped, VoteGoto

\* The row that a merge moves for a user.
MovedRow(r, u) ==
  CHOOSE x \in {votes[i][u] : i \in VotedIdeas} : \E v \in r.moved : v.user = u /\ v.id = x.id
Moves(r, u) == \E v \in r.moved : v.user = u

LEMMA MovedAt ==
  ASSUME NEW r, NEW i \in VotedIdeas, NEW u \in Voters
  PROVE  Moved(r)[i][u] = IF ~Moves(r, u) THEN votes[i][u]
                          ELSE IF i = r.target THEN MovedRow(r, u)
                          ELSE IF votes[i][u] = MovedRow(r, u) THEN NoVote ELSE votes[i][u]
BY DEF Moved, MovedRow, Moves

LEMMA MovedShape ==
  ASSUME NEW r
  PROVE  /\ Moved(r) = [i \in VotedIdeas |-> [u \in Voters |-> Moved(r)[i][u]]]
         /\ DOMAIN Moved(r) = VotedIdeas
         /\ \A i \in VotedIdeas : DOMAIN Moved(r)[i] = Voters
BY DEF Moved

LEMMA MovedRowFound ==
  ASSUME VotesTyped, NEW r \in VoteRequest, CanFlush(r), NEW v \in r.moved
  PROVE  \E i \in VotedIdeas : /\ MovedRow(r, v.user) = votes[i][v.user]
                               /\ \E w \in r.moved : w.user = v.user /\ w.id = votes[i][v.user].id
<1> DEFINE P(x) == \E w \in r.moved : w.user = v.user /\ w.id = x.id
           S == {votes[i][v.user] : i \in VotedIdeas}
<1>1. PICK i \in VotedIdeas : votes[i][v.user].id = v.id
  BY DEF CanFlush, Held
<1>2. \E x \in S : P(x)
  BY <1>1
<1>3. (CHOOSE x \in S : P(x)) \in S /\ P(CHOOSE x \in S : P(x))
  BY <1>2
<1>4. QED BY <1>3 DEF MovedRow

LEMMA MovedRowStored ==
  ASSUME VotesTyped, NEW r \in VoteRequest, CanFlush(r), NEW u \in Voters, Moves(r, u)
  PROVE  MovedRow(r, u) \in StoredVote /\ MovedRow(r, u).type \in VoteType
<1>1. PICK v \in r.moved : v.user = u
  BY DEF Moves
<1>2. PICK i \in VotedIdeas : /\ MovedRow(r, u) = votes[i][u]
                              /\ \E w \in r.moved : w.user = u /\ w.id = votes[i][u].id
  BY <1>1, MovedRowFound
<1>3. votes[i][u] \in StoredVote /\ MaxVoteId \in Nat
  BY VoteFacts
<1>4. votes[i][u].id # 0
  BY <1>2, <1>3 DEF VoteRequest, SourceVote
<1>5. QED BY <1>2, <1>3, <1>4, StoredVoteFacts

LEMMA MovedTyped ==
  ASSUME VotesTyped, NEW r \in VoteRequest, CanFlush(r)
  PROVE  Moved(r) \in [VotedIdeas -> [Voters -> StoredVote]]
<1>1. ASSUME NEW i \in VotedIdeas, NEW u \in Voters PROVE Moved(r)[i][u] \in StoredVote
  BY <1>1, MovedAt, MovedRowStored, VoteFacts DEF StoredVote
<1>2. QED BY <1>1, MovedShape

LEMMA DeduplicatedAt ==
  ASSUME VotesTyped, NEW r, NEW v, NEW i \in VotedIdeas, NEW u \in Voters
  PROVE  Deduplicated(r, v)[i][u] = IF i \in Held(v) /\ u = v.user THEN NoVote ELSE Moved(r)[i][u]
BY MovedShape DEF Deduplicated

LEMMA DeduplicatedTyped ==
  ASSUME VotesTyped, NEW r \in VoteRequest, CanFlush(r), NEW v
  PROVE  Deduplicated(r, v) \in [VotedIdeas -> [Voters -> StoredVote]]
<1>1. \A i \in VotedIdeas : Moved(r)[i] \in [Voters -> StoredVote]
  BY MovedTyped
<1>2. \A i \in VotedIdeas : [Moved(r)[i] EXCEPT ![v.user] = NoVote] \in [Voters -> StoredVote]
  BY <1>1 DEF StoredVote
<1>3. QED BY <1>1, <1>2 DEF Deduplicated

\* The requests of a handler that starts.
LEMMA VoteStarts ==
  ASSUME MaxVoteId \in Nat, NEW i \in VotedIdeas, NEW u \in Voters, NEW row \in 0..MaxVoteId,
         NEW type \in VoteType
  PROVE  /\ [VoteIdle EXCEPT !.pc = "vote", !.idea = i, !.user = u, !.type = type,
                             !.row = row] \in VoteWork
         /\ [VoteIdle EXCEPT !.pc = "remove", !.idea = i, !.user = u, !.row = row] \in VoteWork
<1>1. VoteIdle \in VoteRequest
  BY VoteIdleType
<1>2. PICK s, t : /\ s = [VoteIdle EXCEPT !.pc = "vote", !.idea = i, !.user = u, !.type = type,
                                          !.row = row]
                  /\ t = [VoteIdle EXCEPT !.pc = "remove", !.idea = i, !.user = u, !.row = row]
  OBVIOUS
<1>3. s \in VoteRequest /\ t \in VoteRequest
  BY <1>1, <1>2 DEF VoteRequest
<1>4. s.type # "none" /\ t.pc = "remove"
  BY <1>1, <1>2 DEF VoteRequest, VoteType
<1>5. QED BY <1>2, <1>3, <1>4 DEF VoteWork

LEMMA MergeStarts ==
  ASSUME MaxVoteId \in Nat, NEW i \in VotedIdeas, NEW j \in VotedIdeas, NEW todo \in SUBSET SourceVote
  PROVE  [VoteIdle EXCEPT !.pc = "votes", !.idea = i, !.target = j, !.todo = todo] \in VoteWork
<1>1. VoteIdle \in VoteRequest
  BY VoteIdleType
<1>2. PICK s : s = [VoteIdle EXCEPT !.pc = "votes", !.idea = i, !.target = j, !.todo = todo]
  OBVIOUS
<1>3. s \in VoteRequest /\ s.pc = "votes"
  BY <1>1, <1>2 DEF VoteRequest
<1>4. QED BY <1>2, <1>3 DEF VoteWork

\* The requests that a merge goes on with.
LEMMA MergeGoesOn ==
  ASSUME NEW r \in VoteRequest, r.pc \in {"votes", "comments"}, NEW v \in SourceVote,
         NEW taken \in SUBSET Remarks, NEW doomed \in SUBSET Voters
  PROVE  /\ [r EXCEPT !.todo = @ \ {v}, !.moved = @ \cup {v}] \in VoteWork
         /\ [r EXCEPT !.todo = @ \ {v}, !.moved = {}, !.fresh = FALSE] \in VoteWork
         /\ [r EXCEPT !.pc = "comments", !.taken = taken] \in VoteWork
         /\ [r EXCEPT !.pc = "delete", !.doomed = doomed, !.todo = {}] \in VoteWork
<1>1. /\ [r EXCEPT !.todo = @ \ {v}, !.moved = @ \cup {v}] \in VoteWork
      /\ [r EXCEPT !.todo = @ \ {v}, !.moved = {}, !.fresh = FALSE] \in VoteWork
  BY DEF VoteRequest, VoteWork
<1>2. [r EXCEPT !.pc = "comments", !.taken = taken] \in VoteWork
  BY DEF VoteRequest, VoteWork
<1>3. [r EXCEPT !.pc = "delete", !.doomed = doomed, !.todo = {}] \in VoteWork
  BY DEF VoteRequest, VoteWork
<1>4. QED BY <1>1, <1>2, <1>3

LEMMA VotesTypedIf ==
  ASSUME VotesTyped, UNCHANGED workers,
         ideaStatus' \in [VotedIdeas -> {"approved", "pending", "gone"}],
         votes' \in [VotedIdeas -> [Voters -> StoredVote]],
         lastVoteId' \in 0..MaxVoteId, departed' \subseteq Departing,
         remarks' \in [Remarks -> VotedIdeas \cup {"unposted", "deleted"}],
         said' \in [VotedIdeas -> [Voters -> VoteType \cup {"nothing"}]],
         overlap' \in BOOLEAN, voteReq' \in [Worker -> VoteWork]
  PROVE  VotesTyped'
<1>1. MaxVoteId \in Nat
  BY VoteFacts
<1>2. \A i \in VotedIdeas, u \in Voters : votes'[i][u] \in VoteRow
  BY <1>1, StoredVoteFacts
<1>3. votes' \in [VotedIdeas -> [Voters -> VoteRow]]
  BY <1>2
<1>4. voteReq' \in [Worker -> VoteRequest]
  BY DEF VoteWork
<1>5. QED BY <1>3, <1>4 DEF VotesTyped, VotesTypeOK

LEMMA VoteStepTyped ==
  ASSUME VotesTyped, UNCHANGED workers, NEW q \in workers, VoteStep(q)
  PROVE  VotesTyped'
<1> DEFINE r == voteReq[q]
<1>0. /\ MaxVoteId \in Nat /\ lastVoteId \in Nat /\ r \in VoteWork /\ r \in VoteRequest
      /\ \A i \in VotedIdeas, u \in Voters : votes[i][u] \in StoredVote
      /\ ideaStatus \in [VotedIdeas -> {"approved", "pending", "gone"}]
      /\ votes \in [VotedIdeas -> [Voters -> StoredVote]]
      /\ lastVoteId \in 0..MaxVoteId /\ departed \subseteq Departing
      /\ remarks \in [Remarks -> VotedIdeas \cup {"unposted", "deleted"}]
      /\ said \in [VotedIdeas -> [Voters -> VoteType \cup {"nothing"}]]
      /\ overlap \in BOOLEAN /\ voteReq \in [Worker -> VoteWork]
  BY VoteFacts DEF VotesTyped, VotesTypeOK
<1>1. ASSUME NEW s, s \in VoteWork, VoteGoto(q, s) PROVE voteReq' \in [Worker -> VoteWork]
  BY <1>1, VoteGotoType
<1>2. VoteEnds(q) => voteReq' \in [Worker -> VoteWork]
  BY <1>0, <1>1, VoteIdleType DEF VoteEnds
<1>3. ASSUME UNCHANGED <<ideaStatus, votes, lastVoteId, remarks, said, departed>>,
             overlap' \in BOOLEAN, voteReq' \in [Worker -> VoteWork]
      PROVE  VotesTyped'
  BY <1>0, <1>3, VotesTypedIf
<1>4. ASSUME NEW i \in VotedIdeas, NEW u \in Voters,
             RemoveVote(q, i, u) \/ \E type \in VoteType : Vote(q, i, u, type)
      PROVE  VotesTyped'
  <2>1. votes[i][u].id \in 0..MaxVoteId
    BY <1>0, StoredVoteFacts
  <2>2. voteReq' \in [Worker -> VoteWork]
    BY <1>0, <1>1, <1>4, <2>1, VoteStarts DEF RemoveVote, Vote, VoteType
  <2>3. QED BY <1>0, <1>3, <1>4, <2>2 DEF RemoveVote, Vote
<1>5. ASSUME NEW u \in Voters, LeaveVotes(q, u) PROVE VotesTyped'
  <2>1. /\ votes' \in [VotedIdeas -> [Voters -> StoredVote]]
        /\ said' \in [VotedIdeas -> [Voters -> VoteType \cup {"nothing"}]]
    BY <1>0, <1>5 DEF LeaveVotes, StoredVote
  <2>2. departed' \subseteq Departing
    BY <1>0, <1>5 DEF LeaveVotes
  <2>3. QED BY <1>0, <1>5, <2>1, <2>2, VotesTypedIf DEF LeaveVotes
<1>6. CASE UpdateVote(q)
  <2>1. PICK here : here = {i \in VotedIdeas : votes[i][r.user].id = r.row}
    OBVIOUS
  <2>2. r.row # 0 /\ r.pc = "vote" /\ r.type \in VoteType /\ r.user \in Voters
    BY <1>0, <1>6 DEF UpdateVote, VoteAt, VoteWork, VoteRequest
  <2>3. /\ votes' = [i \in VotedIdeas |->
                       IF i \in here THEN [votes[i] EXCEPT ![r.user].type = r.type] ELSE votes[i]]
        /\ said' = [i \in VotedIdeas |->
                      IF i \in here THEN [said[i] EXCEPT ![r.user] = r.type] ELSE said[i]]
    BY <1>6, <2>1 DEF UpdateVote
  <2>4. ASSUME NEW i \in here PROVE [votes[i] EXCEPT ![r.user].type = r.type] \in [Voters -> StoredVote]
    <3>1. votes[i][r.user] \in StoredVote /\ votes[i][r.user] # NoVote
      BY <1>0, <2>1, <2>2, <2>4 DEF NoVote
    <3>2. [votes[i][r.user] EXCEPT !.type = r.type] \in StoredVote
      BY <2>2, <3>1 DEF StoredVote
    <3>3. QED BY <1>0, <2>1, <2>4, <3>2
  <2>5. votes' \in [VotedIdeas -> [Voters -> StoredVote]]
    BY <1>0, <2>3, <2>4
  <2>6. said' \in [VotedIdeas -> [Voters -> VoteType \cup {"nothing"}]]
    BY <1>0, <2>2, <2>3
  <2>7. QED BY <1>0, <1>2, <1>6, <2>5, <2>6, VotesTypedIf DEF UpdateVote
<1>7. CASE InsertVote(q)
  <2>1. r.pc = "vote" /\ r.type \in VoteType /\ r.user \in Voters /\ r.idea \in VotedIdeas
    BY <1>0, <1>7 DEF InsertVote, VoteAt, VoteWork, VoteRequest
  <2>2. CASE UNCHANGED <<votes, lastVoteId, said>>
    BY <1>0, <1>2, <1>3, <1>7, <2>2 DEF InsertVote
  <2>3. CASE /\ lastVoteId + Cardinality(workers) <= MaxVoteId
             /\ lastVoteId' = lastVoteId + 1
             /\ votes' = [votes EXCEPT ![r.idea][r.user] =
                                         [id |-> lastVoteId + 1, type |-> r.type]]
             /\ said' = [said EXCEPT ![r.idea][r.user] = r.type]
    <3>1. lastVoteId + 1 \in 1..MaxVoteId /\ lastVoteId' \in 0..MaxVoteId
      BY <1>0, <2>3, VoteFacts
    <3>2. [id |-> lastVoteId + 1, type |-> r.type] \in StoredVote
      BY <2>1, <3>1 DEF StoredVote
    <3>3. /\ votes' \in [VotedIdeas -> [Voters -> StoredVote]]
          /\ said' \in [VotedIdeas -> [Voters -> VoteType \cup {"nothing"}]]
      BY <1>0, <2>1, <2>3, <3>2
    <3>4. QED BY <1>0, <1>2, <1>7, <3>1, <3>3, VotesTypedIf DEF InsertVote
  <2>4. QED BY <1>7, <2>2, <2>3 DEF InsertVote
<1>8. CASE DeleteVote(q)
  <2>1. PICK here : here = {i \in VotedIdeas : votes[i][r.user].id = r.row}
    OBVIOUS
  <2>2. /\ votes' = [i \in VotedIdeas |->
                       IF i \in here THEN [votes[i] EXCEPT ![r.user] = NoVote] ELSE votes[i]]
        /\ said' = [i \in VotedIdeas |->
                      IF i \in here THEN [said[i] EXCEPT ![r.user] = "nothing"] ELSE said[i]]
    BY <1>8, <2>1 DEF DeleteVote
  <2>3. /\ votes' \in [VotedIdeas -> [Voters -> StoredVote]]
        /\ said' \in [VotedIdeas -> [Voters -> VoteType \cup {"nothing"}]]
    BY <1>0, <2>2 DEF StoredVote
  <2>4. QED BY <1>0, <1>2, <1>8, <2>3, VotesTypedIf DEF DeleteVote
<1>9. ASSUME NEW i \in VotedIdeas, Moderate(q, i) \/ \E c \in Remarks : Remark(q, c, i)
      PROVE  VotesTyped'
  <2>1. /\ ideaStatus' \in [VotedIdeas -> {"approved", "pending", "gone"}]
        /\ remarks' \in [Remarks -> VotedIdeas \cup {"unposted", "deleted"}]
    BY <1>0, <1>9 DEF Moderate, Remark
  <2>2. QED BY <1>0, <1>9, <2>1, VotesTypedIf DEF Moderate, Remark
<1>10. ASSUME NEW i \in VotedIdeas, NEW j \in VotedIdeas, Merge(q, i, j) PROVE VotesTyped'
  <2>1. On(i) \in SUBSET SourceVote
    BY DEF On
  <2>2. voteReq' \in [Worker -> VoteWork]
    BY <1>0, <1>1, <1>10, <2>1, MergeStarts DEF Merge
  <2>3. overlap' \in BOOLEAN
    BY <1>0, <1>10 DEF Merge
  <2>4. QED BY <1>3, <1>10, <2>2, <2>3 DEF Merge
<1>11. ASSUME NEW v \in SourceVote, MoveVote(q, v) \/ VoteGone(q, v) PROVE VotesTyped'
  <2>1. MoveVote(q, v) => r.pc = "votes"
    BY DEF MoveVote, VoteAt
  <2>2. voteReq' \in [Worker -> VoteWork]
    BY <1>0, <1>1, <1>2, <1>11, <2>1, MergeGoesOn DEF MoveVote, VoteGone
  <2>3. QED BY <1>0, <1>3, <1>11, <2>2 DEF MoveVote, VoteGone
<1>12. ASSUME NEW v \in SourceVote, DropVote(q, v) PROVE VotesTyped'
  <2>1. CASE UNCHANGED <<votes, said>> /\ VoteEnds(q)
    BY <1>0, <1>2, <1>3, <1>12, <2>1 DEF DropVote
  <2>2. CASE CanFlush(r)
    <3>1. PICK out, ids : /\ out = {w.user : w \in r.moved}
                          /\ ids = {w.id : w \in r.moved \cup {v}}
      OBVIOUS
    <3>2. /\ votes' = Deduplicated(r, v)
          /\ said' = [i \in VotedIdeas |-> [u \in Voters |->
               IF i = r.target /\ u \in out THEN Moved(r)[i][u].type
               ELSE IF i = r.idea /\ votes[i][u].id \in ids THEN "nothing"
               ELSE said[i][u]]]
          /\ VoteGoto(q, [r EXCEPT !.todo = @ \ {v}, !.moved = {}, !.fresh = FALSE])
      BY <1>12, <2>2, <3>1 DEF DropVote
    <3>3. votes' \in [VotedIdeas -> [Voters -> StoredVote]]
      BY <1>0, <2>2, <3>2, DeduplicatedTyped
    <3>4. ASSUME NEW u \in Voters, u \in out PROVE Moved(r)[r.target][u].type \in VoteType
      <4>1. Moves(r, u) /\ r.target \in VotedIdeas
        BY <1>0, <3>1, <3>4 DEF Moves, VoteRequest
      <4>2. Moved(r)[r.target][u] = MovedRow(r, u)
        BY <4>1, MovedAt
      <4>3. QED BY <1>0, <2>2, <4>1, <4>2, MovedRowStored
    <3>5. said' \in [VotedIdeas -> [Voters -> VoteType \cup {"nothing"}]]
      BY <1>0, <3>2, <3>4
    <3>6. r.pc = "votes"
      BY <1>12 DEF DropVote, VoteAt
    <3>7. [r EXCEPT !.todo = @ \ {v}, !.moved = {}, !.fresh = FALSE] \in VoteWork
      BY <1>0, <3>6, MergeGoesOn
    <3>8. voteReq' \in [Worker -> VoteWork]
      BY <1>1, <3>2, <3>7
    <3>9. QED BY <1>0, <1>12, <3>3, <3>5, <3>8, VotesTypedIf DEF DropVote
  <2>3. QED BY <1>12, <2>1, <2>2 DEF DropVote
<1>13. CASE MoveComments(q) \/ Cascade(q)
  <2>1. /\ Taken(r.idea) \in SUBSET Remarks
        /\ {v.user : v \in On(r.idea)} \in SUBSET Voters
    BY DEF Taken, On, SourceVote
  <2>2. r.pc \in {"votes", "comments"}
    BY <1>13 DEF MoveComments, Cascade, VoteAt
  <2>3. ASSUME NEW taken \in SUBSET Remarks, NEW doomed \in SUBSET Voters
        PROVE  /\ [r EXCEPT !.pc = "comments", !.taken = taken] \in VoteWork
               /\ [r EXCEPT !.pc = "delete", !.doomed = doomed, !.todo = {}] \in VoteWork
    BY <1>0, <2>2 DEF VoteRequest, VoteWork
  <2>4. voteReq' \in [Worker -> VoteWork]
    BY <1>1, <1>13, <2>1, <2>3 DEF MoveComments, Cascade
  <2>5. QED BY <1>0, <1>3, <1>13, <2>4 DEF MoveComments, Cascade
<1>14. CASE DeleteSource(q)
  <2>1. CASE UNCHANGED <<ideaStatus, votes, remarks, said>>
    BY <1>0, <1>2, <1>3, <1>14, <2>1 DEF DeleteSource
  <2>2. CASE CanDelete(r)
    <3>1. /\ ideaStatus' = [ideaStatus EXCEPT ![r.idea] = "gone"]
          /\ votes' = [votes EXCEPT ![r.idea] = [u \in Voters |-> NoVote]]
          /\ remarks' = [c \in Remarks |-> IF c \in r.taken THEN r.target
                                           ELSE IF remarks[c] = r.idea THEN "deleted"
                                           ELSE remarks[c]]
          /\ said' = [said EXCEPT ![r.idea] = [u \in Voters |-> "nothing"]]
      BY <1>14, <2>2 DEF DeleteSource
    <3>2. /\ ideaStatus' \in [VotedIdeas -> {"approved", "pending", "gone"}]
          /\ votes' \in [VotedIdeas -> [Voters -> StoredVote]]
          /\ said' \in [VotedIdeas -> [Voters -> VoteType \cup {"nothing"}]]
      BY <1>0, <3>1 DEF StoredVote
    <3>3. r.target \in VotedIdeas
      BY <1>0 DEF VoteRequest
    <3>4. remarks' \in [Remarks -> VotedIdeas \cup {"unposted", "deleted"}]
      BY <1>0, <3>1, <3>3
    <3>5. QED BY <1>0, <1>2, <1>14, <3>2, <3>4, VotesTypedIf DEF DeleteSource
  <2>3. QED BY <1>14, <2>1, <2>2 DEF DeleteSource
<1>15. QED
  BY <1>4, <1>5, <1>6, <1>7, <1>8, <1>9, <1>10, <1>11, <1>12, <1>13, <1>14 DEF VoteStep

\* What a step does to the requests.
LEMMA VoteStepMoves ==
  ASSUME VotesTyped, NEW q \in workers, VoteStep(q)
  PROVE  /\ \A p \in workers \ {q} : voteReq'[p] = voteReq[p]
         /\ \/ MoveComments(q) \/ Cascade(q) \/ DeleteSource(q)
            \/ \E i, j \in VotedIdeas : Merge(q, i, j)
            \/ \E v \in SourceVote : MoveVote(q, v) \/ DropVote(q, v)
            \/ voteReq'[q].pc \in {"idle", "vote", "remove"} /\ UNCHANGED overlap
<1> DEFINE r == voteReq[q]
           Frame == \A p \in workers \ {q} : voteReq'[p] = voteReq[p]
<1>1. ASSUME NEW s, VoteGoto(q, s) PROVE voteReq'[q] = s /\ Frame
  BY <1>1, VoteGotoType
<1>2. ASSUME VoteEnds(q) PROVE voteReq'[q].pc = "idle" /\ Frame
  BY <1>1, <1>2, VoteIdleType, VoteFacts DEF VoteEnds
<1>3. VoteIdle \in VoteRequest
  BY VoteIdleType, VoteFacts
<1>4. ASSUME NEW i \in VotedIdeas, NEW u \in Voters, NEW type, Vote(q, i, u, type)
      PROVE  Frame /\ voteReq'[q].pc = "vote" /\ UNCHANGED overlap
  <2>1. PICK s : s = [VoteIdle EXCEPT !.pc = "vote", !.idea = i, !.user = u, !.type = type,
                                      !.row = votes[i][u].id]
    OBVIOUS
  <2>2. s.pc = "vote"
    BY <1>3, <2>1 DEF VoteRequest
  <2>3. QED BY <1>1, <1>4, <2>1, <2>2 DEF Vote
<1>5. ASSUME NEW i \in VotedIdeas, NEW u \in Voters, RemoveVote(q, i, u)
      PROVE  Frame /\ voteReq'[q].pc = "remove" /\ UNCHANGED overlap
  <2>1. PICK s : s = [VoteIdle EXCEPT !.pc = "remove", !.idea = i, !.user = u,
                                      !.row = votes[i][u].id]
    OBVIOUS
  <2>2. s.pc = "remove"
    BY <1>3, <2>1 DEF VoteRequest
  <2>3. QED BY <1>1, <1>5, <2>1, <2>2 DEF RemoveVote
<1>6. ASSUME UNCHANGED voteReq, VoteAt(q, "idle") PROVE Frame /\ voteReq'[q].pc = "idle"
  BY <1>6 DEF VoteAt
<1>7. ASSUME \/ \E u \in Voters : LeaveVotes(q, u)
             \/ \E i \in VotedIdeas : Moderate(q, i) \/ \E c \in Remarks : Remark(q, c, i)
      PROVE  Frame /\ voteReq'[q].pc = "idle" /\ UNCHANGED overlap
  BY <1>6, <1>7 DEF LeaveVotes, Moderate, Remark
<1>8. ASSUME \/ UpdateVote(q) \/ InsertVote(q) \/ DeleteVote(q)
             \/ \E v \in SourceVote : VoteGone(q, v)
      PROVE  Frame /\ voteReq'[q].pc = "idle" /\ UNCHANGED overlap
  BY <1>2, <1>8 DEF UpdateVote, InsertVote, DeleteVote, VoteGone
<1>9. MoveComments(q) \/ Cascade(q) \/ DeleteSource(q) => Frame
  BY <1>1, <1>2 DEF MoveComments, Cascade, DeleteSource
<1>10. ASSUME NEW i \in VotedIdeas, NEW j \in VotedIdeas, Merge(q, i, j) PROVE Frame
  BY <1>1, <1>10 DEF Merge
<1>11. ASSUME NEW v \in SourceVote, MoveVote(q, v) \/ DropVote(q, v) PROVE Frame
  BY <1>1, <1>2, <1>11 DEF MoveVote, DropVote
<1>12. QED
  BY <1>4, <1>5, <1>7, <1>8, <1>9, <1>10, <1>11 DEF VoteStep

LEMMA VotesInitTyped == VotesInit => VotesTyped
<1>1. SUFFICES ASSUME VotesInit PROVE VotesTyped
  OBVIOUS
<1>2. MaxVoteId \in Nat
  BY VotesAssumption
<1>3. NoVote \in StoredVote /\ NoVote \in VoteRow /\ VoteIdle \in VoteWork /\ VoteIdle \in VoteRequest
  BY <1>2, VoteIdleType, StoredVoteFacts DEF StoredVote
<1>4. /\ votes \in [VotedIdeas -> [Voters -> StoredVote]]
      /\ votes \in [VotedIdeas -> [Voters -> VoteRow]]
      /\ voteReq \in [Worker -> VoteWork] /\ voteReq \in [Worker -> VoteRequest]
  BY <1>1, <1>3 DEF VotesInit
<1>5. /\ ideaStatus \in [VotedIdeas -> {"approved", "pending", "gone"}]
      /\ remarks \in [Remarks -> VotedIdeas \cup {"unposted", "deleted"}]
      /\ said \in [VotedIdeas -> [Voters -> VoteType \cup {"nothing"}]]
  BY <1>1 DEF VotesInit
<1>6. lastVoteId \in 0..MaxVoteId /\ departed \subseteq Departing
  BY <1>1, <1>2 DEF VotesInit
<1>7. workers \in WorkerSets /\ overlap \in BOOLEAN
  BY <1>1, Zenon DEF VotesInit, WorkersInit
<1>8. QED BY <1>4, <1>5, <1>6, <1>7 DEF VotesTyped, VotesTypeOK

LEMMA VotesNextTyped == VotesTyped /\ [VotesNext]_votesVars => VotesTyped'
<1>1. SUFFICES ASSUME VotesTyped, [VotesNext]_votesVars PROVE VotesTyped'
  OBVIOUS
<1>2. CASE UNCHANGED votesVars
  BY <1>1, <1>2 DEF votesVars, VotesTyped, VotesTypeOK
<1>3. CASE VotesNext
  BY <1>1, <1>3, VoteStepTyped DEF VotesNext
<1>4. QED BY <1>1, <1>2, <1>3

\* The rows and requests of voting and merging have their types, and a stored
\* vote has a key and a type.
THEOREM VotesTypeCorrect == VotesSpec => []VotesTypeOK
<1>1. VotesTyped => VotesTypeOK
  BY DEF VotesTyped
<1>2. QED BY <1>1, VotesInitTyped, VotesNextTyped, PTL DEF VotesSpec

-----------------------------------------------------------------------------
(* Votes: comments survive a merge *)

\* A merge that runs alone has taken all the comments of its source.
SurviveInv ==
  /\ VotesTyped
  /\ Serial => /\ \A c \in Remarks : remarks[c] # "deleted"
               /\ \A q \in workers : voteReq[q].pc \in {"comments", "delete"}
                                       => Taken(voteReq[q].idea) \subseteq voteReq[q].taken

\* With one handler at a time, no comment is lost when its idea is merged into
\* another.  A merge that runs alone updates every comment there is before the
\* deletion cascades.
THEOREM CommentsAreKept == VotesSpec => []CommentsSurviveMerge
<1>1. VotesInit => SurviveInv
  <2>1. SUFFICES ASSUME VotesInit PROVE SurviveInv
    OBVIOUS
  <2>2. VotesTyped
    BY <2>1, VotesInitTyped
  <2>3. \A q \in workers : voteReq[q].pc = "idle"
    BY <2>1, <2>2, VoteIdleType, VoteFacts DEF VotesInit
  <2>4. QED BY <2>1, <2>2, <2>3 DEF SurviveInv, VotesInit
<1>2. SurviveInv /\ [VotesNext]_votesVars => SurviveInv'
  <2>1. SUFFICES ASSUME SurviveInv, [VotesNext]_votesVars PROVE SurviveInv'
    OBVIOUS
  <2>2. VotesTyped /\ VotesTyped'
    BY <2>1, VotesNextTyped DEF SurviveInv
  <2>3. workers' = workers /\ (Serial' <=> Serial)
    BY <2>1 DEF VotesNext, votesVars, Serial
  <2>4. SUFFICES ASSUME Serial
                 PROVE  /\ \A c \in Remarks : remarks'[c] # "deleted"
                        /\ \A q \in workers :
                             voteReq'[q].pc \in {"comments", "delete"}
                               => Taken(voteReq[q].idea)' \subseteq voteReq'[q].taken
    BY <2>2, <2>3 DEF SurviveInv
  <2>5. CASE UNCHANGED votesVars
    BY <2>1, <2>4, <2>5 DEF SurviveInv, votesVars, Taken
  <2>6. ASSUME NEW q \in workers, VoteStep(q)
        PROVE  /\ \A c \in Remarks : remarks'[c] # "deleted"
               /\ voteReq'[q].pc \in {"comments", "delete"}
                    => Taken(voteReq[q].idea)' \subseteq voteReq'[q].taken
    <3>1. PICK r : r = voteReq[q]
      OBVIOUS
    <3>2. /\ r \in VoteRequest /\ voteReq \in [Worker -> VoteWork] /\ q \in Worker
          /\ \A c \in Remarks : remarks[c] # "deleted"
          /\ r.pc \in {"comments", "delete"} => Taken(r.idea) \subseteq r.taken
      BY <2>1, <2>2, <2>4, <2>6, <3>1, VoteFacts DEF SurviveInv, VotesTyped
    <3>3. ASSUME NEW s, VoteGoto(q, s), UNCHANGED remarks,
                 s.pc \in {"comments", "delete"} => Taken(s.idea) \subseteq s.taken
          PROVE  /\ \A c \in Remarks : remarks'[c] # "deleted"
                 /\ voteReq'[q].pc \in {"comments", "delete"}
                      => Taken(voteReq[q].idea)' \subseteq voteReq'[q].taken
      <4>1. voteReq'[q] = s
        BY <2>2, <3>3, VoteGotoType
      <4>2. QED BY <3>2, <3>3, <4>1 DEF Taken
    <3>4. CASE MoveComments(q)
      <4>1. PICK s : s = [r EXCEPT !.pc = "comments", !.taken = Taken(r.idea)]
        OBVIOUS
      <4>2. s.taken = Taken(s.idea)
        BY <3>2, <4>1 DEF VoteRequest
      <4>3. VoteGoto(q, s) /\ UNCHANGED remarks
        BY <3>1, <3>4, <4>1 DEF MoveComments
      <4>4. QED BY <3>3, <4>2, <4>3
    <3>5. CASE Cascade(q)
      <4>1. PICK s : s = [r EXCEPT !.pc = "delete", !.doomed = {v.user : v \in On(r.idea)},
                                   !.todo = {}]
        OBVIOUS
      <4>2. s.taken = r.taken /\ s.idea = r.idea /\ r.pc = "comments"
        BY <3>1, <3>2, <3>5, <4>1 DEF VoteRequest, Cascade, VoteAt
      <4>3. VoteGoto(q, s) /\ UNCHANGED remarks
        BY <3>1, <3>5, <4>1 DEF Cascade
      <4>4. QED BY <3>2, <3>3, <4>2, <4>3
    <3>6. CASE DeleteSource(q)
      <4>1. Taken(r.idea) \subseteq r.taken /\ r.target \in VotedIdeas
        BY <3>1, <3>2, <3>6 DEF DeleteSource, VoteAt, VoteRequest
      <4>2. \A c \in Remarks : remarks'[c] # "deleted"
        <5>1. \A c \in Remarks \ r.taken : remarks[c] # r.idea
          BY <4>1 DEF Taken
        <5>2. CASE UNCHANGED remarks
          BY <3>2, <5>2
        <5>3. CASE remarks' = [c \in Remarks |-> IF c \in r.taken THEN r.target
                                                ELSE IF remarks[c] = r.idea THEN "deleted"
                                                ELSE remarks[c]]
          <6>1. \A c \in Remarks : remarks'[c] = r.target \/ remarks'[c] = remarks[c]
            BY <5>1, <5>3
          <6>2. QED BY <3>2, <4>1, <6>1, VotesAssumption
        <5>4. QED BY <3>1, <3>6, <5>2, <5>3 DEF DeleteSource
      <4>3. voteReq'[q].pc = "idle"
        BY <2>2, <3>6, VoteGotoType, VoteIdleType, VoteFacts DEF DeleteSource, VoteEnds
      <4>4. QED BY <4>2, <4>3
    <3>7. CASE ~(MoveComments(q) \/ Cascade(q) \/ DeleteSource(q))
      <4>1. voteReq'[q].pc \notin {"comments", "delete"}
        <5>1. ASSUME NEW i \in VotedIdeas, NEW j \in VotedIdeas, Merge(q, i, j)
              PROVE  voteReq'[q].pc = "votes"
          <6>1. PICK s : s = [VoteIdle EXCEPT !.pc = "votes", !.idea = i, !.target = j,
                                              !.todo = On(i)]
            OBVIOUS
          <6>2. s.pc = "votes"
            BY <2>2, <6>1, VoteIdleType, VoteFacts DEF VoteRequest
          <6>3. QED BY <2>2, <5>1, <6>1, <6>2, VoteGotoType DEF Merge
        <5>2. ASSUME NEW v \in SourceVote, MoveVote(q, v) \/ DropVote(q, v)
              PROVE  voteReq'[q].pc \in {"votes", "idle"}
          <6>1. PICK s, t : /\ s = [r EXCEPT !.todo = @ \ {v}, !.moved = @ \cup {v}]
                            /\ t = [r EXCEPT !.todo = @ \ {v}, !.moved = {}, !.fresh = FALSE]
            OBVIOUS
          <6>2. s.pc = "votes" /\ t.pc = "votes" /\ VoteIdle.pc = "idle"
            BY <2>2, <3>1, <3>2, <5>2, <6>1, VoteIdleType, VoteFacts
               DEF VoteRequest, MoveVote, DropVote, VoteAt
          <6>3. VoteGoto(q, s) \/ VoteGoto(q, t) \/ VoteGoto(q, VoteIdle)
            BY <3>1, <5>2, <6>1 DEF MoveVote, DropVote, VoteEnds
          <6>4. QED BY <2>2, <6>2, <6>3, VoteGotoType
        <5>3. QED BY <2>2, <2>6, <3>7, <5>1, <5>2, VoteStepMoves
      <4>2. \A c \in Remarks : remarks'[c] = remarks[c] \/ remarks'[c] \in VotedIdeas
        <5>1. ASSUME NEW c \in Remarks, NEW i \in VotedIdeas, Remark(q, c, i)
              PROVE  \A d \in Remarks : remarks'[d] = remarks[d] \/ remarks'[d] \in VotedIdeas
          BY <2>2, <5>1 DEF Remark, VotesTyped, VotesTypeOK
        <5>2. \/ UNCHANGED remarks
              \/ \E c \in Remarks, i \in VotedIdeas : Remark(q, c, i)
          BY <2>6, <3>7 DEF VoteStep, Vote, RemoveVote, LeaveVotes, UpdateVote, InsertVote,
            DeleteVote, Moderate, Merge, MoveVote, DropVote, VoteGone
        <5>3. QED BY <5>1, <5>2
      <4>3. \A c \in Remarks : remarks'[c] # "deleted"
        BY <3>2, <4>2, VotesAssumption
      <4>4. QED BY <4>1, <4>3
    <3>8. QED BY <3>4, <3>5, <3>6, <3>7
  <2>7. CASE VotesNext
    <3>1. PICK q \in workers : VoteStep(q)
      BY <2>7 DEF VotesNext
    <3>2. \A p \in workers : p = q
      BY <2>2, <2>4, Alone DEF VotesTyped
    <3>3. QED BY <2>6, <3>1, <3>2
  <2>8. QED BY <2>1, <2>5, <2>7
<1>3. SurviveInv => CommentsSurviveMerge
  BY DEF SurviveInv, CommentsSurviveMerge
<1>4. QED BY <1>1, <1>2, <1>3, PTL DEF VotesSpec

-----------------------------------------------------------------------------
(* Votes: what users have said is what is stored *)

Merging(r) == r.pc \in {"votes", "comments", "delete"}

\* A key is of one row, and no more than the last one given.
KeysUnique ==
  \A i, j \in VotedIdeas, u, w \in Voters :
    votes[i][u].id # 0 /\ votes[i][u].id = votes[j][w].id => i = j /\ u = w
KeysGiven == \A i \in VotedIdeas, u \in Voters : votes[i][u].id <= lastVoteId

\* A vote that a merge has read from an idea is there, or nowhere.
InPlace(i, v) ==
  /\ v.id <= lastVoteId
  /\ \A j \in VotedIdeas, u \in Voters : votes[j][u].id = v.id => j = i /\ u = v.user
ReadVotes(r) ==
  /\ r.idea # r.target /\ r.todo \cap r.moved = {}
  /\ \A v, w \in r.todo \cup r.moved : v.user = w.user => v = w
  /\ \A v \in r.todo \cup r.moved : InPlace(r.idea, v)

\* While no two merges have ever run at once.
Orderly ==
  /\ KeysUnique /\ KeysGiven
  /\ \A p, q \in workers : Merging(voteReq[p]) /\ Merging(voteReq[q]) => p = q
  /\ \A q \in workers : voteReq[q].pc = "votes" => ReadVotes(voteReq[q])
StandInv == VotesTyped /\ VotesStand /\ (~overlap => Orderly)

\* Rows that change their types or go.
LEMMA KeysKept ==
  ASSUME VotesTyped, KeysUnique, KeysGiven, lastVoteId' = lastVoteId,
         \A i \in VotedIdeas, u \in Voters : votes'[i][u].id \in {votes[i][u].id, 0}
  PROVE  /\ KeysUnique' /\ KeysGiven'
         /\ \A i \in VotedIdeas, v \in SourceVote : InPlace(i, v) => InPlace(i, v)'
<1>1. lastVoteId \in Nat
  BY VoteFacts
<1>2. KeysUnique' /\ KeysGiven'
  BY <1>1 DEF KeysUnique, KeysGiven
<1>3. \A v \in SourceVote : v.id # 0
  BY VotesAssumption DEF SourceVote
<1>4. QED BY <1>2, <1>3 DEF InPlace

\* A row that is new.
LEMMA KeyInserted ==
  ASSUME VotesTyped, KeysUnique, KeysGiven, lastVoteId' = lastVoteId + 1,
         NEW d \in VotedIdeas, NEW o \in Voters, votes'[d][o].id = lastVoteId + 1,
         \A i \in VotedIdeas, u \in Voters : i # d \/ u # o => votes'[i][u] = votes[i][u]
  PROVE  /\ KeysUnique' /\ KeysGiven'
         /\ \A i \in VotedIdeas, v \in SourceVote : InPlace(i, v) => InPlace(i, v)'
<1>1. /\ lastVoteId \in Nat /\ MaxVoteId \in Nat
      /\ \A i \in VotedIdeas, u \in Voters : votes[i][u].id \in Nat
  BY VoteFacts, StoredVoteFacts
<1>2. \A i \in VotedIdeas, u \in Voters : votes[i][u].id < lastVoteId + 1
  BY <1>1 DEF KeysGiven
<1>3. KeysUnique'
  BY <1>1, <1>2 DEF KeysUnique
<1>4. KeysGiven'
  BY <1>1, <1>2 DEF KeysGiven
<1>5. ASSUME NEW i \in VotedIdeas, NEW v \in SourceVote, InPlace(i, v) PROVE InPlace(i, v)'
  <2>1. v.id \in Nat /\ v.id <= lastVoteId
    BY <1>1, <1>5 DEF SourceVote, InPlace
  <2>2. QED BY <1>1, <1>5, <2>1 DEF InPlace
<1>6. QED BY <1>3, <1>4, <1>5

\* Another request is as orderly as it was.
LEMMA OrderlyStep ==
  ASSUME VotesTyped, Orderly, UNCHANGED workers, NEW q \in workers,
         \A p \in workers \ {q} : voteReq'[p] = voteReq[p],
         KeysUnique', KeysGiven', 
         \A i \in VotedIdeas, v \in SourceVote : InPlace(i, v) => InPlace(i, v)',
         Merging(voteReq'[q]) => Merging(voteReq[q]),
         NEW s, s = voteReq'[q], s.pc = "votes" => ReadVotes(s)'
  PROVE  Orderly'
<1>1. ASSUME NEW p \in workers, voteReq'[p].pc = "votes" PROVE ReadVotes(voteReq[p])'
  <2>1. CASE p = q
    BY <1>1, <2>1 DEF ReadVotes
  <2>2. CASE p # q
    <3>1. PICK r : r = voteReq[p]
      OBVIOUS
    <3>2. /\ r \in VoteRequest /\ ReadVotes(r) /\ r = voteReq'[p]
      BY <1>1, <2>2, <3>1, VoteFacts DEF Orderly
    <3>3. r.idea \in VotedIdeas /\ r.todo \cup r.moved \subseteq SourceVote
      BY <3>2 DEF VoteRequest
    <3>4. ReadVotes(r)'
      BY <3>2, <3>3 DEF ReadVotes
    <3>5. QED BY <3>2, <3>4 DEF ReadVotes
  <2>3. QED BY <2>1, <2>2
<1>2. \A p, o \in workers : Merging(voteReq'[p]) /\ Merging(voteReq'[o]) => p = o
  BY DEF Orderly, Merging
<1>3. QED BY <1>1, <1>2 DEF Orderly, Merging

\* The rows after a vote is deleted and the moves before it are flushed.
Flushes(r, v, u) == Moves(r, u) \/ (u = v.user /\ votes[r.idea][u].id = v.id)

LEMMA FlushedRows ==
  ASSUME VotesTyped, NEW r \in VoteRequest, ReadVotes(r), CanFlush(r), NEW v \in r.todo
  PROVE  /\ ~Moves(r, v.user)
         /\ \A u \in Voters : Moves(r, u) => /\ votes[r.target][u] = NoVote
                                             /\ votes[r.idea][u].id # 0
                                             /\ Moved(r)[r.target][u] = votes[r.idea][u]
         /\ \A i \in VotedIdeas, u \in Voters :
              Deduplicated(r, v)[i][u] =
                IF i = r.idea /\ Flushes(r, v, u) THEN NoVote
                ELSE IF i = r.target /\ Moves(r, u) THEN votes[r.idea][u]
                ELSE votes[i][u]
         /\ \A u \in Voters : votes[r.idea][u].id \in {w.id : w \in r.moved \cup {v}}
                                <=> Flushes(r, v, u)
<1>1. /\ r.idea \in VotedIdeas /\ r.target \in VotedIdeas /\ r.idea # r.target
      /\ r.todo \subseteq SourceVote /\ r.moved \subseteq SourceVote /\ MaxVoteId \in Nat
      /\ \A i \in VotedIdeas, u \in Voters : votes[i][u] \in StoredVote
  BY VoteFacts DEF VoteRequest, ReadVotes
<1>2. \A w \in SourceVote : w.id # 0 /\ w.user \in Voters
  BY <1>1 DEF SourceVote
<1>3. ~Moves(r, v.user)
  BY DEF Moves, ReadVotes
<1>4. ASSUME NEW w \in r.moved
      PROVE  /\ votes[r.idea][w.user].id = w.id /\ votes[r.target][w.user] = NoVote
             /\ MovedRow(r, w.user) = votes[r.idea][w.user]
             /\ \A i \in VotedIdeas \ {r.idea} : votes[i][w.user].id # w.id
  <2>1. InPlace(r.idea, w) /\ w.user \in Voters /\ w.id # 0
    BY <1>1, <1>2 DEF ReadVotes
  <2>2. \E i \in VotedIdeas : votes[i][w.user].id = w.id
    BY DEF CanFlush, Held
  <2>3. votes[r.idea][w.user].id = w.id
    BY <2>1, <2>2 DEF InPlace
  <2>4. votes[r.target][w.user].id = 0
    BY <1>1, <2>1 DEF CanFlush, InPlace
  <2>5. votes[r.target][w.user] = NoVote
    BY <1>1, <2>1, <2>4, StoredVoteFacts
  <2>6. PICK i \in VotedIdeas : /\ MovedRow(r, w.user) = votes[i][w.user]
                                /\ \E x \in r.moved : x.user = w.user /\ x.id = votes[i][w.user].id
    BY MovedRowFound
  <2>7. i = r.idea
    BY <2>1, <2>6 DEF ReadVotes, InPlace
  <2>8. \A j \in VotedIdeas \ {r.idea} : votes[j][w.user].id # w.id
    BY <2>1 DEF InPlace
  <2>9. QED BY <2>3, <2>5, <2>6, <2>7, <2>8
<1>5. ASSUME NEW u \in Voters, Moves(r, u)
      PROVE  /\ votes[r.target][u] = NoVote /\ votes[r.idea][u].id # 0
             /\ MovedRow(r, u) = votes[r.idea][u]
             /\ Moved(r)[r.target][u] = votes[r.idea][u]
             /\ \A i \in VotedIdeas \ {r.idea} : votes[i][u] # votes[r.idea][u]
  <2>1. PICK w \in r.moved : w.user = u
    BY <1>5 DEF Moves
  <2>2. w.id # 0
    BY <1>1, <1>2
  <2>3. QED BY <1>1, <1>4, <1>5, <2>1, <2>2, MovedAt
<1>6. Held(v) = IF votes[r.idea][v.user].id = v.id THEN {r.idea} ELSE {}
  <2>1. InPlace(r.idea, v) /\ v.user \in Voters
    BY <1>1, <1>2 DEF ReadVotes
  <2>2. QED BY <1>1, <2>1 DEF InPlace, Held
<1>7. ASSUME NEW i \in VotedIdeas, NEW u \in Voters
      PROVE  Deduplicated(r, v)[i][u] =
                IF i = r.idea /\ Flushes(r, v, u) THEN NoVote
                ELSE IF i = r.target /\ Moves(r, u) THEN votes[r.idea][u]
                ELSE votes[i][u]
  <2>1. Deduplicated(r, v)[i][u] =
          IF i \in Held(v) /\ u = v.user THEN NoVote ELSE Moved(r)[i][u]
    BY DeduplicatedAt
  <2>2. CASE Moves(r, u)
    <3>1. u # v.user
      BY <1>3, <2>2
    <3>2. Moved(r)[i][u] = IF i = r.target THEN votes[r.idea][u]
                           ELSE IF i = r.idea THEN NoVote ELSE votes[i][u]
      BY <1>5, <2>2, MovedAt
    <3>3. QED BY <1>1, <2>1, <2>2, <3>1, <3>2 DEF Flushes
  <2>3. CASE ~Moves(r, u)
    <3>1. Moved(r)[i][u] = votes[i][u]
      BY <2>3, MovedAt
    <3>2. QED BY <1>6, <2>1, <2>3, <3>1 DEF Flushes
  <2>4. QED BY <2>2, <2>3
<1>8. ASSUME NEW u \in Voters
      PROVE  votes[r.idea][u].id \in {w.id : w \in r.moved \cup {v}} <=> Flushes(r, v, u)
  <2>1. ASSUME NEW w \in r.moved \cup {v}, votes[r.idea][u].id = w.id PROVE w.user = u
    BY <1>1, <2>1 DEF ReadVotes, InPlace
  <2>2. votes[r.idea][u].id \in {w.id : w \in r.moved \cup {v}} => Flushes(r, v, u)
    BY <2>1 DEF Flushes, Moves
  <2>3. Flushes(r, v, u) => votes[r.idea][u].id \in {w.id : w \in r.moved \cup {v}}
    BY <1>4 DEF Flushes, Moves
  <2>4. QED BY <2>2, <2>3
<1>9. QED BY <1>3, <1>5, <1>7, <1>8

Stands(i, u) ==
  IF said[i][u] = "nothing" THEN votes[i][u] = NoVote ELSE votes[i][u].type = said[i][u]
AllStand == \A i \in VotedIdeas, u \in Voters : Stands(i, u)

\* Dropping a vote and flushing the moves keeps what users have said.
LEMMA DropStands ==
  ASSUME VotesTyped, VotesTyped', UNCHANGED <<workers, lastVoteId>>, AllStand, Orderly,
         NEW q \in workers, NEW v \in SourceVote, DropVote(q, v)
  PROVE  AllStand' /\ Orderly'
<1>1. PICK r : r = voteReq[q]
  OBVIOUS
<1>2. /\ r \in VoteRequest /\ r.pc = "votes" /\ v \in r.todo /\ ReadVotes(r)
      /\ r.idea \in VotedIdeas /\ r.target \in VotedIdeas /\ r.idea # r.target
      /\ r.todo \cup r.moved \subseteq SourceVote
      /\ MaxVoteId \in Nat /\ \A i \in VotedIdeas, u \in Voters : votes[i][u] \in StoredVote
  BY <1>1, VoteFacts DEF DropVote, VoteAt, Orderly, ReadVotes, VoteRequest
<1>3. \A p \in workers \ {q} : voteReq'[p] = voteReq[p]
  BY VoteGotoType DEF DropVote, VoteEnds
<1>4. CASE UNCHANGED <<votes, said>> /\ VoteEnds(q)
  <2>1. AllStand'
    BY <1>4 DEF AllStand, Stands
  <2>2. /\ KeysUnique' /\ KeysGiven'
        /\ \A i \in VotedIdeas, w \in SourceVote : InPlace(i, w) => InPlace(i, w)'
    BY <1>4, KeysKept DEF Orderly
  <2>3. voteReq'[q] = VoteIdle /\ VoteIdle.pc = "idle"
    BY <1>2, <1>4, VoteGotoType, VoteIdleType DEF VoteEnds
  <2>4. QED BY <1>3, <2>1, <2>2, <2>3, OrderlyStep DEF Merging
<1>5. CASE CanFlush(r)
  <2>1. PICK s, out, ids : /\ s = [r EXCEPT !.todo = @ \ {v}, !.moved = {}, !.fresh = FALSE]
                           /\ out = {w.user : w \in r.moved}
                           /\ ids = {w.id : w \in r.moved \cup {v}}
    OBVIOUS
  <2>2. /\ votes' = Deduplicated(r, v) /\ VoteGoto(q, s)
        /\ said' = [i \in VotedIdeas |-> [u \in Voters |->
             IF i = r.target /\ u \in out THEN Moved(r)[i][u].type
             ELSE IF i = r.idea /\ votes[i][u].id \in ids THEN "nothing"
             ELSE said[i][u]]]
    BY <1>1, <1>5, <2>1 DEF DropVote
  <2>3. /\ ~Moves(r, v.user)
        /\ \A u \in Voters : Moves(r, u) => /\ votes[r.target][u] = NoVote
                                            /\ votes[r.idea][u].id # 0
                                            /\ Moved(r)[r.target][u] = votes[r.idea][u]
        /\ \A i \in VotedIdeas, u \in Voters :
             votes'[i][u] = IF i = r.idea /\ Flushes(r, v, u) THEN NoVote
                            ELSE IF i = r.target /\ Moves(r, u) THEN votes[r.idea][u]
                            ELSE votes[i][u]
        /\ \A u \in Voters : votes[r.idea][u].id \in ids <=> Flushes(r, v, u)
    BY <1>2, <1>5, <2>1, <2>2, FlushedRows
  <2>4. \A u : u \in out <=> Moves(r, u)
    BY <2>1 DEF Moves
  <2>5. ASSUME NEW i \in VotedIdeas, NEW u \in Voters
        PROVE  said'[i][u] = IF i = r.target /\ Moves(r, u) THEN votes[r.idea][u].type
                             ELSE IF i = r.idea /\ Flushes(r, v, u) THEN "nothing"
                             ELSE said[i][u]
    BY <2>2, <2>3, <2>4
  <2>6. ASSUME NEW i \in VotedIdeas, NEW u \in Voters PROVE Stands(i, u)'
    <3>1. CASE i = r.target /\ Moves(r, u)
      <4>1. votes[r.idea][u].type \in VoteType
        BY <1>2, <2>3, <3>1, StoredVoteFacts
      <4>2. votes'[i][u] = votes[r.idea][u] /\ said'[i][u] = votes[r.idea][u].type
        BY <1>2, <2>3, <2>5, <3>1
      <4>3. said'[i][u] # "nothing"
        BY <4>1, <4>2 DEF VoteType
      <4>4. QED BY <4>2, <4>3 DEF Stands
    <3>2. CASE i = r.idea /\ Flushes(r, v, u)
      <4>1. votes'[i][u] = NoVote /\ said'[i][u] = "nothing"
        BY <1>2, <2>3, <2>5, <3>2
      <4>2. QED BY <4>1 DEF Stands
    <3>3. CASE ~(i = r.target /\ Moves(r, u)) /\ ~(i = r.idea /\ Flushes(r, v, u))
      <4>1. votes'[i][u] = votes[i][u] /\ said'[i][u] = said[i][u]
        BY <2>3, <2>5, <3>3
      <4>2. Stands(i, u)
        BY DEF AllStand
      <4>3. QED BY <4>1, <4>2 DEF Stands
    <3>4. QED BY <3>1, <3>2, <3>3
  <2>7. AllStand'
    BY <2>6 DEF AllStand
  \* Where the row of i and u was.
  <2>8. ASSUME NEW i \in VotedIdeas, NEW u \in Voters, votes'[i][u].id # 0
        PROVE  \/ i = r.target /\ Moves(r, u) /\ votes'[i][u] = votes[r.idea][u]
               \/ /\ ~(i = r.target /\ Moves(r, u)) /\ ~(i = r.idea /\ Moves(r, u))
                  /\ votes'[i][u] = votes[i][u]
    BY <1>2, <2>3, <2>8 DEF NoVote, Flushes
  <2>9. KeysUnique'
    <3>1. SUFFICES ASSUME NEW i \in VotedIdeas, NEW j \in VotedIdeas, NEW u \in Voters,
                          NEW w \in Voters, votes'[i][u].id # 0,
                          votes'[i][u].id = votes'[j][w].id
                   PROVE  i = j /\ u = w
      BY DEF KeysUnique
    <3>2. PICK a \in VotedIdeas : votes'[i][u] = votes[a][u] /\ a = (IF i = r.target /\ Moves(r, u)
                                                                    THEN r.idea ELSE i)
      BY <1>2, <2>8, <3>1
    <3>3. PICK b \in VotedIdeas : votes'[j][w] = votes[b][w] /\ b = (IF j = r.target /\ Moves(r, w)
                                                                    THEN r.idea ELSE j)
      BY <1>2, <2>8, <3>1
    <3>4. a = b /\ u = w
      BY <3>1, <3>2, <3>3 DEF Orderly, KeysUnique
    <3>5. ~(i = r.idea /\ Moves(r, u)) /\ ~(j = r.idea /\ Moves(r, w))
      BY <1>2, <2>8, <3>1
    <3>6. QED BY <3>2, <3>3, <3>4, <3>5
  <2>10. KeysGiven'
    <3>1. lastVoteId \in Nat /\ NoVote.id = 0
      BY VoteFacts DEF NoVote
    <3>2. QED BY <1>2, <2>3, <3>1 DEF Orderly, KeysGiven
  <2>11. /\ s.pc = "votes" /\ s.idea = r.idea /\ s.target = r.target
         /\ s.todo = r.todo \ {v} /\ s.moved = {} /\ voteReq'[q] = s
    BY <1>2, <2>1, <2>2, VoteGotoType DEF VoteRequest
  <2>12. ASSUME NEW w \in s.todo PROVE InPlace(r.idea, w)'
    <3>1. InPlace(r.idea, w) /\ w \in r.todo /\ w.id # 0 /\ w.user \in Voters
      BY <1>2, <2>11, <2>12 DEF ReadVotes, SourceVote
    <3>2. ASSUME NEW j \in VotedIdeas, NEW u \in Voters, votes'[j][u].id = w.id
          PROVE  j = r.idea /\ u = w.user
      <4>1. ~Moves(r, w.user)
        BY <1>2, <3>1 DEF Moves, ReadVotes
      <4>2. CASE j = r.target /\ Moves(r, u) /\ votes'[j][u] = votes[r.idea][u]
        BY <1>2, <3>1, <3>2, <4>1, <4>2 DEF InPlace
      <4>3. CASE votes'[j][u] = votes[j][u]
        BY <3>1, <3>2, <4>3 DEF InPlace
      <4>4. QED BY <2>8, <3>1, <3>2, <4>2, <4>3
    <3>3. QED BY <3>1, <3>2 DEF InPlace
  <2>13. ReadVotes(s)'
    <3>1. s.idea # s.target /\ s.todo \cap s.moved = {} /\ s.todo \cup s.moved = s.todo
      BY <1>2, <2>11
    <3>2. \A w, x \in s.todo : w.user = x.user => w = x
      BY <1>2, <2>11 DEF ReadVotes
    <3>3. \A w \in s.todo : InPlace(s.idea, w)'
      BY <2>11, <2>12
    <3>4. QED BY <3>1, <3>2, <3>3 DEF ReadVotes
  \* The requests of others are no merges.
  <2>14. ASSUME NEW p \in workers, Merging(voteReq'[p]) PROVE p = q
    BY <1>1, <1>2, <1>3, <2>14 DEF Orderly, Merging
  <2>15. ASSUME NEW p \in workers, voteReq'[p].pc = "votes" PROVE ReadVotes(voteReq[p])'
    <3>1. p = q
      BY <2>14, <2>15 DEF Merging
    <3>2. QED BY <2>11, <2>13, <3>1 DEF ReadVotes
  <2>16. \A p, o \in workers : Merging(voteReq'[p]) /\ Merging(voteReq'[o]) => p = o
    BY <2>14
  <2>17. QED BY <2>7, <2>9, <2>10, <2>15, <2>16 DEF Orderly, Merging
<1>6. QED BY <1>1, <1>4, <1>5 DEF DropVote

\* A step of one handler that leaves the votes alone, or changes a user's vote and
\* what the user said together.
LEMMA StandStep ==
  ASSUME StandInv, VotesTyped', UNCHANGED workers, NEW q \in workers, VoteStep(q), ~overlap'
  PROVE  AllStand' /\ Orderly'
<1>1. PICK r : r = voteReq[q]
  OBVIOUS
<1>2. /\ VotesTyped /\ r \in VoteRequest /\ r \in VoteWork /\ MaxVoteId \in Nat
      /\ lastVoteId \in Nat /\ q \in Worker
      /\ votes \in [VotedIdeas -> [Voters -> StoredVote]]
      /\ said \in [VotedIdeas -> [Voters -> VoteType \cup {"nothing"}]]
      /\ \A i \in VotedIdeas, u \in Voters : votes[i][u] \in StoredVote
  BY <1>1, VoteFacts DEF StandInv, VotesTyped, VotesTypeOK
<1>3. ~overlap
  BY DEF VoteStep, Vote, RemoveVote, LeaveVotes, UpdateVote, InsertVote, DeleteVote, Moderate,
    Remark, Merge, MoveVote, DropVote, VoteGone, MoveComments, Cascade, DeleteSource
<1>4. AllStand /\ Orderly /\ KeysUnique /\ KeysGiven
  BY <1>3 DEF StandInv, VotesStand, AllStand, Stands, Orderly
<1>5. \A p \in workers \ {q} : voteReq'[p] = voteReq[p]
  BY <1>2, VoteStepMoves
\* A step that changes types or removes rows, and is not the reading of a merge.
<1>6. ASSUME lastVoteId' = lastVoteId, AllStand',
             \A i \in VotedIdeas, u \in Voters : votes'[i][u].id \in {votes[i][u].id, 0},
             Merging(voteReq'[q]) => Merging(r), voteReq'[q].pc # "votes"
      PROVE  AllStand' /\ Orderly'
  <2>1. /\ KeysUnique' /\ KeysGiven'
        /\ \A i \in VotedIdeas, v \in SourceVote : InPlace(i, v) => InPlace(i, v)'
    BY <1>2, <1>4, <1>6, KeysKept
  <2>2. QED BY <1>1, <1>2, <1>4, <1>5, <1>6, <2>1, OrderlyStep
<1>7. ASSUME UNCHANGED <<votes, said, lastVoteId>>,
             Merging(voteReq'[q]) => Merging(r), voteReq'[q].pc # "votes"
      PROVE  AllStand' /\ Orderly'
  <2>1. AllStand'
    BY <1>4, <1>7 DEF AllStand, Stands
  <2>2. QED BY <1>6, <1>7, <2>1
<1>8. VoteIdle.pc = "idle" /\ VoteIdle \in VoteRequest
  BY <1>2, VoteIdleType
<1>9. ASSUME VoteEnds(q) PROVE voteReq'[q] = VoteIdle /\ voteReq'[q].pc = "idle" /\ ~Merging(voteReq'[q])
  BY <1>2, <1>8, <1>9, VoteGotoType DEF VoteEnds, Merging
<1>10. ASSUME NEW i \in VotedIdeas, NEW u \in Voters,
              RemoveVote(q, i, u) \/ \E type \in VoteType : Vote(q, i, u, type)
       PROVE  AllStand' /\ Orderly'
  <2>1. ASSUME NEW type, Vote(q, i, u, type) PROVE voteReq'[q].pc = "vote"
    <3>1. PICK s : s = [VoteIdle EXCEPT !.pc = "vote", !.idea = i, !.user = u, !.type = type,
                                        !.row = votes[i][u].id]
      OBVIOUS
    <3>2. s.pc = "vote"
      BY <1>8, <3>1 DEF VoteRequest
    <3>3. QED BY <1>2, <2>1, <3>1, <3>2, VoteGotoType DEF Vote
  <2>2. ASSUME RemoveVote(q, i, u) PROVE voteReq'[q].pc = "remove"
    <3>1. PICK s : s = [VoteIdle EXCEPT !.pc = "remove", !.idea = i, !.user = u,
                                        !.row = votes[i][u].id]
      OBVIOUS
    <3>2. s.pc = "remove"
      BY <1>8, <3>1 DEF VoteRequest
    <3>3. QED BY <1>2, <2>2, <3>1, <3>2, VoteGotoType DEF RemoveVote
  <2>3. UNCHANGED <<votes, said, lastVoteId>>
    BY <1>10 DEF RemoveVote, Vote
  <2>4. voteReq'[q].pc \in {"vote", "remove"}
    BY <1>10, <2>1, <2>2
  <2>5. QED BY <1>7, <2>3, <2>4 DEF Merging
<1>11. ASSUME NEW u \in Voters, LeaveVotes(q, u) PROVE AllStand' /\ Orderly'
  <2>1. /\ voteReq'[q].pc = "idle" /\ lastVoteId' = lastVoteId
        /\ votes' = [i \in VotedIdeas |-> [votes[i] EXCEPT ![u] = NoVote]]
        /\ said' = [i \in VotedIdeas |-> [said[i] EXCEPT ![u] = "nothing"]]
    BY <1>11 DEF LeaveVotes, VoteAt
  <2>2. \A i \in VotedIdeas, w \in Voters :
          /\ votes'[i][w] = IF w = u THEN NoVote ELSE votes[i][w]
          /\ said'[i][w] = IF w = u THEN "nothing" ELSE said[i][w]
    BY <1>2, <2>1
  <2>3. AllStand'
    BY <1>4, <2>2 DEF AllStand, Stands
  <2>4. QED BY <1>6, <2>1, <2>2, <2>3 DEF Merging, NoVote
<1>12. CASE UpdateVote(q) \/ DeleteVote(q)
  <2>1. PICK here, u : here = {i \in VotedIdeas : votes[i][r.user].id = r.row} /\ u = r.user
    OBVIOUS
  <2>2. r.user \in Voters /\ lastVoteId' = lastVoteId /\ VoteEnds(q)
    BY <1>2, <1>12 DEF UpdateVote, DeleteVote, VoteRequest
  <2>3. CASE UpdateVote(q)
    <3>1. r.row # 0 /\ r.type \in VoteType
      BY <1>1, <1>2, <2>3 DEF UpdateVote, VoteAt, VoteWork, VoteRequest
    <3>2. /\ votes' = [i \in VotedIdeas |->
                         IF i \in here THEN [votes[i] EXCEPT ![u].type = r.type] ELSE votes[i]]
          /\ said' = [i \in VotedIdeas |->
                        IF i \in here THEN [said[i] EXCEPT ![u] = r.type] ELSE said[i]]
      BY <1>1, <2>1, <2>3 DEF UpdateVote
    <3>3. \A i \in VotedIdeas, w \in Voters :
            /\ votes'[i][w] = IF i \in here /\ w = u THEN [votes[i][w] EXCEPT !.type = r.type]
                                                     ELSE votes[i][w]
            /\ said'[i][w] = IF i \in here /\ w = u THEN r.type ELSE said[i][w]
      BY <1>2, <3>2
    <3>4. ASSUME NEW i \in VotedIdeas, NEW w \in Voters
          PROVE  /\ votes'[i][w].id = votes[i][w].id
                 /\ i \in here /\ w = u => votes'[i][w].type = r.type
      <4>1. votes[i][w] \in VoteRow
        BY <1>2, StoredVoteFacts
      <4>2. QED BY <3>3, <4>1 DEF VoteRow
    <3>5. ASSUME NEW i \in VotedIdeas, NEW w \in Voters PROVE Stands(i, w)'
      <4>1. CASE i \in here /\ w = u
        BY <3>1, <3>3, <3>4, <4>1 DEF Stands, VoteType
      <4>2. CASE ~(i \in here /\ w = u)
        BY <1>4, <3>3, <4>2 DEF AllStand, Stands
      <4>3. QED BY <4>1, <4>2
    <3>6. QED BY <1>6, <1>9, <2>2, <3>4, <3>5 DEF AllStand
  <2>4. CASE DeleteVote(q)
    <3>1. /\ votes' = [i \in VotedIdeas |->
                         IF i \in here THEN [votes[i] EXCEPT ![u] = NoVote] ELSE votes[i]]
          /\ said' = [i \in VotedIdeas |->
                        IF i \in here THEN [said[i] EXCEPT ![u] = "nothing"] ELSE said[i]]
      BY <1>1, <2>1, <2>4 DEF DeleteVote
    <3>2. \A i \in VotedIdeas, w \in Voters :
            /\ votes'[i][w] = IF i \in here /\ w = u THEN NoVote ELSE votes[i][w]
            /\ said'[i][w] = IF i \in here /\ w = u THEN "nothing" ELSE said[i][w]
      BY <1>2, <3>1
    <3>3. AllStand'
      BY <1>4, <3>2 DEF AllStand, Stands
    <3>4. QED BY <1>6, <1>9, <2>2, <3>2, <3>3 DEF NoVote
  <2>5. QED BY <1>12, <2>3, <2>4
<1>13. CASE InsertVote(q)
  <2>1. /\ VoteEnds(q) /\ r.type \in VoteType /\ r.user \in Voters /\ r.idea \in VotedIdeas
    BY <1>1, <1>2, <1>13 DEF InsertVote, VoteAt, VoteWork, VoteRequest
  <2>2. CASE UNCHANGED <<votes, lastVoteId, said>>
    BY <1>7, <1>9, <2>1, <2>2
  <2>3. CASE /\ lastVoteId' = lastVoteId + 1
             /\ votes' = [votes EXCEPT ![r.idea][r.user] =
                                         [id |-> lastVoteId + 1, type |-> r.type]]
             /\ said' = [said EXCEPT ![r.idea][r.user] = r.type]
    <3>1. PICK new : new = [id |-> lastVoteId + 1, type |-> r.type]
      OBVIOUS
    <3>2. new.id = lastVoteId + 1 /\ new.type = r.type /\ r.type # "nothing"
      BY <2>1, <3>1 DEF VoteType
    <3>3. \A i \in VotedIdeas, w \in Voters :
            /\ votes'[i][w] = IF i = r.idea /\ w = r.user THEN new ELSE votes[i][w]
            /\ said'[i][w] = IF i = r.idea /\ w = r.user THEN r.type ELSE said[i][w]
      BY <1>2, <2>1, <2>3, <3>1
    <3>4. ASSUME NEW i \in VotedIdeas, NEW w \in Voters PROVE Stands(i, w)'
      <4>1. CASE i = r.idea /\ w = r.user
        BY <3>2, <3>3, <4>1 DEF Stands
      <4>2. CASE ~(i = r.idea /\ w = r.user)
        BY <1>4, <3>3, <4>2 DEF AllStand, Stands
      <4>3. QED BY <4>1, <4>2
    <3>5. /\ KeysUnique' /\ KeysGiven'
          /\ \A i \in VotedIdeas, v \in SourceVote : InPlace(i, v) => InPlace(i, v)'
      BY <1>2, <1>4, <2>1, <2>3, <3>2, <3>3, KeyInserted
    <3>6. Orderly'
      BY <1>2, <1>4, <1>5, <1>9, <2>1, <3>5, OrderlyStep
    <3>7. QED BY <3>4, <3>6 DEF AllStand
  <2>4. QED BY <1>1, <1>13, <2>2, <2>3 DEF InsertVote
<1>14. ASSUME NEW i \in VotedIdeas, Moderate(q, i) \/ \E c \in Remarks : Remark(q, c, i)
       PROVE  AllStand' /\ Orderly'
  <2>1. voteReq'[q].pc = "idle" /\ UNCHANGED <<votes, said, lastVoteId>>
    BY <1>14 DEF Moderate, Remark, VoteAt
  <2>2. QED BY <1>7, <2>1 DEF Merging
<1>15. ASSUME NEW i \in VotedIdeas, NEW j \in VotedIdeas, Merge(q, i, j)
       PROVE  AllStand' /\ Orderly'
  <2>1. PICK s : s = [VoteIdle EXCEPT !.pc = "votes", !.idea = i, !.target = j, !.todo = On(i)]
    OBVIOUS
  <2>2. s.idea = i /\ s.target = j /\ s.todo = On(i) /\ s.moved = {}
    BY <1>8, <2>1 DEF VoteRequest, VoteIdle
  <2>3. voteReq'[q] = s /\ UNCHANGED <<votes, said, lastVoteId>> /\ i # j
    BY <1>2, <1>15, <2>1, VoteGotoType DEF Merge
  <2>4. AllStand' /\ KeysUnique' /\ KeysGiven'
    BY <1>4, <2>3 DEF AllStand, Stands, KeysUnique, KeysGiven
  <2>5. \A p \in workers : ~Merging(voteReq[p])
    BY <1>15 DEF Merge, Merging
  <2>6. \A p \in workers : Merging(voteReq'[p]) => p = q
    BY <1>5, <2>5 DEF Merging
  <2>7. ASSUME NEW v \in On(i) PROVE InPlace(i, v)'
    <3>1. v.id \in 1..MaxVoteId /\ v.user \in Voters /\ votes[i][v.user].id = v.id
      BY <2>7 DEF On, SourceVote
    <3>2. v.id # 0
      BY <1>2, <3>1
    <3>3. InPlace(i, v)
      BY <1>4, <3>1, <3>2 DEF InPlace, KeysUnique, KeysGiven
    <3>4. QED BY <2>3, <3>3 DEF InPlace
  <2>8. \A v, w \in On(i) : v.user = w.user => v = w
    BY DEF On, SourceVote
  <2>9. ReadVotes(s)'
    <3>1. s.todo \cup s.moved = On(i) /\ s.todo \cap s.moved = {}
      BY <2>2
    <3>2. QED BY <2>2, <2>3, <2>7, <2>8, <3>1 DEF ReadVotes
  <2>10. ASSUME NEW p \in workers, voteReq'[p].pc = "votes" PROVE ReadVotes(voteReq[p])'
    <3>1. p = q
      BY <2>6, <2>10 DEF Merging
    <3>2. QED BY <2>3, <2>9, <3>1 DEF ReadVotes
  <2>11. \A p, o \in workers : Merging(voteReq'[p]) /\ Merging(voteReq'[o]) => p = o
    BY <2>6
  <2>12. QED BY <2>4, <2>10, <2>11 DEF Orderly, Merging
<1>16. ASSUME NEW v \in SourceVote, MoveVote(q, v) PROVE AllStand' /\ Orderly'
  <2>1. PICK s : s = [r EXCEPT !.todo = @ \ {v}, !.moved = @ \cup {v}]
    OBVIOUS
  <2>2. r.pc = "votes" /\ v \in r.todo /\ UNCHANGED <<votes, said, lastVoteId>>
    BY <1>1, <1>16 DEF MoveVote, VoteAt
  <2>3. /\ s.pc = "votes" /\ s.idea = r.idea /\ s.target = r.target
        /\ s.todo = r.todo \ {v} /\ s.moved = r.moved \cup {v}
    BY <1>2, <2>1, <2>2 DEF VoteRequest
  <2>4. voteReq'[q] = s
    BY <1>1, <1>2, <1>16, <2>1, VoteGotoType DEF MoveVote
  <2>5. ReadVotes(r)
    BY <1>1, <1>4, <2>2 DEF Orderly
  <2>6. s.todo \cup s.moved = r.todo \cup r.moved /\ s.todo \cap s.moved = {}
    BY <2>2, <2>3, <2>5 DEF ReadVotes
  <2>7. ReadVotes(s)'
    BY <2>2, <2>3, <2>5, <2>6 DEF ReadVotes, InPlace
  <2>8. /\ AllStand' /\ KeysUnique' /\ KeysGiven'
        /\ \A i \in VotedIdeas, w \in SourceVote : InPlace(i, w) => InPlace(i, w)'
    BY <1>4, <2>2 DEF AllStand, Stands, KeysUnique, KeysGiven, InPlace
  <2>9. Merging(voteReq[q])
    BY <1>1, <2>2 DEF Merging
  <2>10. Orderly'
    BY <1>2, <1>4, <1>5, <2>4, <2>7, <2>8, <2>9, OrderlyStep
  <2>11. QED BY <2>8, <2>10
<1>17. ASSUME NEW v \in SourceVote, VoteGone(q, v) PROVE AllStand' /\ Orderly'
  BY <1>7, <1>9, <1>17 DEF VoteGone
<1>18. ASSUME NEW v \in SourceVote, DropVote(q, v) PROVE AllStand' /\ Orderly'
  BY <1>2, <1>4, <1>18, DropStands DEF DropVote
<1>19. CASE MoveComments(q) \/ Cascade(q)
  <2>1. PICK s, t : /\ s = [r EXCEPT !.pc = "comments", !.taken = Taken(r.idea)]
                    /\ t = [r EXCEPT !.pc = "delete", !.doomed = {v.user : v \in On(r.idea)},
                                     !.todo = {}]
    OBVIOUS
  <2>2. s.pc = "comments" /\ t.pc = "delete"
    BY <1>2, <2>1 DEF VoteRequest
  <2>3. Merging(r) /\ UNCHANGED <<votes, said, lastVoteId>>
    BY <1>1, <1>19 DEF MoveComments, Cascade, VoteAt, Merging
  <2>4. VoteGoto(q, s) \/ VoteGoto(q, t)
    BY <1>1, <1>19, <2>1 DEF MoveComments, Cascade
  <2>5. voteReq'[q].pc # "votes"
    BY <1>2, <2>2, <2>4, VoteGotoType
  <2>6. QED BY <1>7, <2>3, <2>5
<1>20. CASE DeleteSource(q)
  <2>1. VoteEnds(q) /\ lastVoteId' = lastVoteId /\ r.idea \in VotedIdeas
    BY <1>1, <1>2, <1>20 DEF DeleteSource, VoteRequest
  <2>2. CASE UNCHANGED <<votes, said>>
    BY <1>7, <1>9, <2>1, <2>2
  <2>3. CASE /\ votes' = [votes EXCEPT ![r.idea] = [u \in Voters |-> NoVote]]
             /\ said' = [said EXCEPT ![r.idea] = [u \in Voters |-> "nothing"]]
    <3>1. \A i \in VotedIdeas, w \in Voters :
            /\ votes'[i][w] = IF i = r.idea THEN NoVote ELSE votes[i][w]
            /\ said'[i][w] = IF i = r.idea THEN "nothing" ELSE said[i][w]
      BY <1>2, <2>1, <2>3
    <3>2. AllStand'
      BY <1>4, <3>1 DEF AllStand, Stands
    <3>3. QED BY <1>6, <1>9, <2>1, <3>1, <3>2 DEF NoVote
  <2>4. QED BY <1>1, <1>20, <2>2, <2>3 DEF DeleteSource
<1>21. QED
  BY <1>10, <1>11, <1>12, <1>13, <1>14, <1>15, <1>16, <1>17, <1>18, <1>19, <1>20 DEF VoteStep

\* Votes, changes of mind, removals, account deletions and merges of ideas, by any
\* number of handlers at once, neither lose nor replace what a user has said, as
\* long as no two merges have run at once: a merge then moves each vote by its key
\* to where its user has none.
THEOREM WhatWasSaidStands == VotesSpec => []VotesStand
<1>1. VotesInit => StandInv
  <2>1. SUFFICES ASSUME VotesInit PROVE StandInv
    OBVIOUS
  <2>2. VotesTyped
    BY <2>1, VotesInitTyped
  <2>3. /\ \A i \in VotedIdeas, u \in Voters : votes[i][u] = NoVote /\ said[i][u] = "nothing"
        /\ lastVoteId = 0
    BY <2>1 DEF VotesInit
  <2>4. \A q \in workers : voteReq[q].pc = "idle"
    BY <2>1, <2>2, VoteIdleType, VoteFacts DEF VotesInit
  <2>5. VotesStand
    BY <2>3 DEF VotesStand
  <2>6. Orderly
    BY <2>3, <2>4 DEF Orderly, KeysUnique, KeysGiven, Merging, NoVote
  <2>7. QED BY <2>2, <2>5, <2>6 DEF StandInv
<1>2. StandInv /\ [VotesNext]_votesVars => StandInv'
  <2>1. SUFFICES ASSUME StandInv, [VotesNext]_votesVars PROVE StandInv'
    OBVIOUS
  <2>2. VotesTyped /\ VotesTyped'
    BY <2>1, VotesNextTyped DEF StandInv
  <2>3. CASE UNCHANGED votesVars
    BY <2>1, <2>2, <2>3 DEF StandInv, VotesStand, Orderly, KeysUnique, KeysGiven, ReadVotes,
      InPlace, Merging, NoVote, votesVars
  <2>4. CASE VotesNext
    <3>1. SUFFICES ASSUME ~overlap' PROVE AllStand' /\ Orderly'
      BY <2>2 DEF StandInv, VotesStand, AllStand, Stands
    <3>2. QED BY <2>1, <2>2, <2>4, <3>1, StandStep DEF VotesNext
  <2>5. QED BY <2>1, <2>3, <2>4
<1>3. StandInv => VotesStand
  BY DEF StandInv
<1>4. QED BY <1>1, <1>2, <1>3, PTL DEF VotesSpec

-----------------------------------------------------------------------------
(* Comments and their likes: type correctness *)

\* A request names a comment that was created, and a user of its kind.
DeskWork(n) ==
  {r \in DeskRequest : /\ r.pc \in {"create", "approve", "credit", "credited"} => r.user \in Commenters
                       /\ r.pc \in {"like", "unlike"} => r.user \in Likers
                       /\ r.pc \in {"approve", "like", "unlike", "count", "counted"} => r.id \in 1..n}
\* The tables after n comments.
Desk(n) ==
  /\ n \in 0..MaxComments
  /\ comments \in [1..n -> CommentRow]
  /\ likes \in [1..n -> SUBSET Likers]
  /\ likeCount \in [1..n -> 0..MaxLikeCount]
  /\ deskReq \in [Worker -> DeskWork(n)]
DeskTyped ==
  /\ workers \in WorkerSets
  /\ approved \in [Commenters -> Nat]
  /\ left \subseteq DeskUser
  /\ cutShort \in BOOLEAN
  /\ \E n : Desk(n)

\* Appending to a sequence that is known as a function.
LEMMA Appended ==
  ASSUME NEW S, NEW n \in Nat, NEW f \in [1..n -> S], NEW e \in S
  PROVE  /\ Len(f) = n /\ Append(f, e) \in [1..n + 1 -> S]
         /\ Append(f, e)[n + 1] = e /\ \A c \in 1..n : Append(f, e)[c] = f[c]
<1>1. f \in Seq(S)
  BY SeqDef
<1>2. Len(f) = n
  BY <1>1, LenProperties
<1>3. /\ Append(f, e) \in Seq(S) /\ Len(Append(f, e)) = n + 1
      /\ \A i \in 1..n : Append(f, e)[i] = f[i]
      /\ Append(f, e)[n + 1] = e
  BY <1>1, <1>2, AppendProperties
<1>4. Append(f, e) \in [1..n + 1 -> S]
  BY <1>3, LenProperties
<1>5. QED BY <1>2, <1>3, <1>4

LEMMA DeskNumbers == COMMENTS_NEEDED \in Nat /\ MaxComments \in Nat /\ MaxLikeCount \in Nat
BY CommentDeskAssumption

LEMMA DeskIdleType ==
  ASSUME NEW n \in Nat
  PROVE  /\ DeskIdle \in DeskRequest /\ DeskIdle \in DeskWork(n) /\ DeskIdle.pc = "idle"
         /\ DeskIdle.n = 0
<1>1. (CHOOSE u \in DeskUser : TRUE) \in DeskUser
  BY CommentDeskAssumption DEF DeskUser
<1>2. DeskIdle \in DeskRequest /\ DeskIdle.pc = "idle" /\ DeskIdle.n = 0
  BY <1>1, DeskNumbers DEF DeskIdle, DeskRequest
<1>3. QED BY <1>2 DEF DeskWork

LEMMA DeskFacts ==
  ASSUME NEW n, Desk(n), workers \in WorkerSets
  PROVE  /\ n \in Nat /\ workers \subseteq Worker
         /\ DOMAIN comments = 1..n /\ DOMAIN likes = 1..n /\ DOMAIN likeCount = 1..n
         /\ \A c \in 1..n : comments[c] \in CommentRow /\ likes[c] \subseteq Likers
                            /\ likeCount[c] \in 0..MaxLikeCount /\ likeCount[c] \in Nat
         /\ \A q \in workers : deskReq[q] \in DeskWork(n) /\ deskReq[q] \in DeskRequest
BY WorkersCounted, DeskNumbers DEF Desk, DeskWork

LEMMA DeskGotoType ==
  ASSUME NEW n, Desk(n), workers \in WorkerSets, NEW q \in workers, NEW s, DeskGoto(q, s)
  PROVE  /\ deskReq'[q] = s /\ \A p \in workers \ {q} : deskReq'[p] = deskReq[p]
         /\ s \in DeskWork(n) => deskReq' \in [Worker -> DeskWork(n)]
BY DeskFacts DEF Desk, DeskGoto

\* The requests of a handler that starts.
LEMMA CreationStarts ==
  ASSUME NEW n \in Nat, NEW u \in Commenters, NEW b \in BOOLEAN
  PROVE  [DeskIdle EXCEPT !.pc = "create", !.user = u, !.held = b] \in DeskWork(n)
<1>1. ASSUME NEW s, s = [DeskIdle EXCEPT !.pc = "create", !.user = u, !.held = b]
      PROVE  s \in DeskRequest /\ s.pc = "create" /\ s.user = u
  BY <1>1, DeskIdleType, DeskNumbers DEF DeskRequest, DeskUser
<1>2. QED BY <1>1 DEF DeskWork

LEMMA DeskStarts ==
  ASSUME NEW n \in Nat, n <= MaxComments, NEW c \in 1..n
  PROVE  /\ \A u \in Commenters :
              [DeskIdle EXCEPT !.pc = "approve", !.id = c, !.user = u] \in DeskWork(n)
         /\ \A u \in Likers, pc \in {"like", "unlike"} :
              [DeskIdle EXCEPT !.id = c, !.user = u, !.pc = pc] \in DeskWork(n)
<1>0. c \in 0..MaxComments
  BY DeskNumbers
<1>1. ASSUME NEW u \in Commenters, NEW s,
             s = [DeskIdle EXCEPT !.pc = "approve", !.id = c, !.user = u]
      PROVE  s \in DeskWork(n)
  <2>1. s \in DeskRequest /\ s.pc = "approve" /\ s.user = u /\ s.id = c
    BY <1>0, <1>1, DeskIdleType DEF DeskRequest, DeskUser
  <2>2. QED BY <2>1 DEF DeskWork
<1>2. ASSUME NEW u \in Likers, NEW pc \in {"like", "unlike"}, NEW s,
             s = [DeskIdle EXCEPT !.id = c, !.user = u, !.pc = pc]
      PROVE  s \in DeskWork(n)
  <2>1. s \in DeskRequest /\ s.pc = pc /\ s.user = u /\ s.id = c
    BY <1>0, <1>2, DeskIdleType DEF DeskRequest, DeskUser
  <2>2. QED BY <2>1 DEF DeskWork
<1>3. QED BY <1>1, <1>2

\* A step that moves one request and writes no table.
LEMMA DeskKeeps ==
  ASSUME NEW n, Desk(n), workers \in WorkerSets, NEW q \in workers, NEW s \in DeskWork(n),
         DeskGoto(q, s), UNCHANGED <<comments, likes, likeCount>>
  PROVE  Desk(n)'
BY DeskGotoType DEF Desk

LEMMA CommentCreatedTyped ==
  ASSUME NEW n, Desk(n), workers \in WorkerSets, NEW q \in workers, CommentCreated(q)
  PROVE  Desk(n + 1)'
<1>1. n \in Nat /\ Len(comments) = n /\ n + 1 \in 0..MaxComments
  <2>1. n \in Nat /\ Len(comments) = n
    BY Appended, DeskFacts DEF Desk
  <2>2. QED BY <2>1, DeskNumbers, WorkersCounted DEF CommentCreated
<1>2. deskReq[q].user \in Commenters /\ deskReq[q].held \in BOOLEAN
  BY DeskFacts DEF CommentCreated, DeskAt, DeskWork, DeskRequest
<1>3. comments' \in [1..n + 1 -> CommentRow]
  <2>1. PICK row : row = [author |-> deskReq[q].user, state |-> "live",
                          is_moderated |-> deskReq[q].held, requires_approval |-> deskReq[q].held,
                          approved_at |-> FALSE, cleared |-> FALSE]
    OBVIOUS
  <2>2. row \in CommentRow
    BY <1>2, <2>1 DEF CommentRow
  <2>3. comments' = Append(comments, row)
    BY <2>1 DEF CommentCreated
  <2>4. QED BY <1>1, <2>2, <2>3, Appended DEF Desk
<1>4. likes' \in [1..n + 1 -> SUBSET Likers]
  BY <1>1, Appended DEF Desk, CommentCreated
<1>5. likeCount' \in [1..n + 1 -> 0..MaxLikeCount]
  <2>1. 0 \in 0..MaxLikeCount
    BY DeskNumbers
  <2>2. QED BY <1>1, <2>1, Appended DEF Desk, CommentCreated
<1>6. deskReq' \in [Worker -> DeskWork(n + 1)]
  <2>1. deskReq' \in [Worker -> DeskWork(n)]
    BY <1>1, DeskGotoType, DeskIdleType DEF CommentCreated, DeskEnds
  <2>2. DeskWork(n) \subseteq DeskWork(n + 1)
    BY <1>1 DEF DeskWork
  <2>3. QED BY <2>1, <2>2
<1>7. QED BY <1>1, <1>3, <1>4, <1>5, <1>6 DEF Desk

\* What a handler that is past its first step knows of its request.
LEMMA DeskWorkFacts ==
  ASSUME NEW n \in Nat, n <= MaxComments, NEW r \in DeskWork(n)
  PROVE  /\ r.pc = "approve" => r.id \in 1..n /\ [r EXCEPT !.pc = "credit"] \in DeskWork(n)
         /\ r.pc = "credit" =>
              \A k \in Nat : [r EXCEPT !.pc = "credited", !.n = k] \in DeskWork(n)
         /\ r.pc \in {"like", "unlike"} =>
              /\ r.id \in 1..n /\ r.user \in Likers
              /\ \A b \in BOOLEAN : [r EXCEPT !.pc = "count", !.liked = b] \in DeskWork(n)
         /\ r.pc = "count" =>
              /\ r.id \in 1..n
              /\ \A k \in Nat : [r EXCEPT !.pc = "counted", !.n = k] \in DeskWork(n)
         /\ r.pc = "counted" => r.id \in 1..n
<1>1. ASSUME r.pc = "approve", NEW s, s = [r EXCEPT !.pc = "credit"]
      PROVE  r.id \in 1..n /\ s \in DeskWork(n)
  <2>1. s \in DeskRequest /\ s.pc = "credit" /\ s.user = r.user
    BY <1>1 DEF DeskWork, DeskRequest
  <2>2. QED BY <1>1, <2>1 DEF DeskWork
<1>2. ASSUME r.pc = "credit", NEW k \in Nat, NEW s, s = [r EXCEPT !.pc = "credited", !.n = k]
      PROVE  s \in DeskWork(n)
  <2>1. s \in DeskRequest /\ s.pc = "credited" /\ s.user = r.user
    BY <1>2 DEF DeskWork, DeskRequest
  <2>2. QED BY <1>2, <2>1 DEF DeskWork
<1>3. ASSUME r.pc \in {"like", "unlike"}, NEW b \in BOOLEAN, NEW s,
             s = [r EXCEPT !.pc = "count", !.liked = b]
      PROVE  s \in DeskWork(n)
  <2>1. s \in DeskRequest /\ s.pc = "count" /\ s.id = r.id
    BY <1>3 DEF DeskWork, DeskRequest
  <2>2. QED BY <1>3, <2>1 DEF DeskWork
<1>4. ASSUME r.pc = "count", NEW k \in Nat, NEW s, s = [r EXCEPT !.pc = "counted", !.n = k]
      PROVE  s \in DeskWork(n)
  <2>1. s \in DeskRequest /\ s.pc = "counted" /\ s.id = r.id
    BY <1>4 DEF DeskWork, DeskRequest
  <2>2. QED BY <1>4, <2>1 DEF DeskWork
<1>5. r.pc \in {"like", "unlike"} => r.id \in 1..n /\ r.user \in Likers
  BY DEF DeskWork
<1>6. r.pc \in {"count", "counted"} => r.id \in 1..n
  BY DEF DeskWork
<1>7. QED BY <1>1, <1>2, <1>3, <1>4, <1>5, <1>6

LEMMA RecountType ==
  ASSUME NEW k \in Nat, k < MaxLikeCount, NEW b
  PROVE  Recount(k, b) \in 0..MaxLikeCount
BY DeskNumbers DEF Recount

\* What moderation writes into a comment.
LEMMA RowUpdates ==
  ASSUME NEW row \in CommentRow
  PROVE  /\ \A on \in BOOLEAN, b \in BOOLEAN :
              [row EXCEPT !.is_moderated = on, !.cleared = b] \in CommentRow
         /\ \A x \in {"live", "deleted", "gone"} : [row EXCEPT !.state = x] \in CommentRow
BY DEF CommentRow

\* Every step keeps the tables typed, and adds one comment at most.
LEMMA DeskStepTyped ==
  ASSUME NEW n, Desk(n), workers \in WorkerSets, approved \in [Commenters -> Nat],
         NEW q \in workers, DeskStep(q)
  PROVE  Desk(n)' \/ Desk(n + 1)'
<1> USE DeskFacts, DeskNumbers
<1>0. n \in Nat /\ n <= MaxComments /\ DOMAIN comments = 1..n
  BY DEF Desk
<1>1. DeskIdle \in DeskWork(n)
  BY <1>0, DeskIdleType
<1>2. deskReq[q] \in DeskWork(n)
  OBVIOUS
<1>3. ASSUME NEW u \in Commenters, CreateComment(q, u) PROVE Desk(n)'
  <2>1. HeldBack(u) \in BOOLEAN
    BY DEF HeldBack
  <2>2. PICK b \in BOOLEAN : b = HeldBack(u)
    BY <2>1
  <2>3. [DeskIdle EXCEPT !.pc = "create", !.user = u, !.held = b] \in DeskWork(n)
    BY <1>0, CreationStarts
  <2>4. DeskGoto(q, [DeskIdle EXCEPT !.pc = "create", !.user = u, !.held = b])
    BY <1>3, <2>2 DEF CreateComment
  <2>5. QED BY <1>3, <2>3, <2>4, DeskKeeps DEF CreateComment
<1>4. CASE CommentCreated(q)
  BY <1>4, CommentCreatedTyped
<1>5. ASSUME CommentApproved(q) PROVE Desk(n)'
  <2>1. UNCHANGED <<likes, likeCount>> /\ deskReq[q].pc = "approve"
    BY <1>5 DEF CommentApproved, DeskAt
  <2>2. CASE Exists(deskReq[q].id)
    <3>1. deskReq[q].id \in 1..n /\ [deskReq[q] EXCEPT !.pc = "credit"] \in DeskWork(n)
      BY <1>0, <1>2, <2>1, DeskWorkFacts
    <3>2. comments' \in [1..n -> CommentRow]
      <4>1. PICK c \in 1..n : c = deskReq[q].id
        BY <3>1
      <4>2. comments' = [comments EXCEPT ![c].is_moderated = FALSE, ![c].requires_approval = FALSE,
                                         ![c].approved_at = TRUE, ![c].cleared = TRUE]
        BY <1>5, <2>2, <4>1 DEF CommentApproved
      <4>3. PICK row : row = [comments[c] EXCEPT !.is_moderated = FALSE, !.requires_approval = FALSE,
                                                 !.approved_at = TRUE, !.cleared = TRUE]
        OBVIOUS
      <4>4. row \in CommentRow
        BY <4>3 DEF CommentRow
      <4>5. DOMAIN comments' = 1..n /\ comments'[c] = row
            /\ \A d \in 1..n \ {c} : comments'[d] = comments[d]
        BY <4>2, <4>3 DEF Desk
      <4>6. comments' = [d \in 1..n |-> comments'[d]]
        BY <4>2, <4>5
      <4>7. QED BY <4>4, <4>5, <4>6
    <3>3. deskReq' \in [Worker -> DeskWork(n)]
      BY <1>5, <2>2, <3>1, DeskGotoType DEF CommentApproved
    <3>4. QED BY <2>1, <3>2, <3>3 DEF Desk
  <2>3. CASE ~Exists(deskReq[q].id)
    BY <1>1, <1>5, <2>1, <2>3, DeskKeeps DEF CommentApproved, DeskEnds
  <2>4. QED BY <2>2, <2>3
<1>6. ASSUME Credit(q) PROVE Desk(n)'
  <2>1. DeskAt(q, "credit") /\ deskReq[q].user \in Commenters
    BY <1>6 DEF Credit, DeskAt, DeskWork
  <2>2. approved[deskReq[q].user] \in Nat
    BY <2>1
  <2>3. QED BY <1>0, <1>2, <1>6, <2>1, <2>2, DeskWorkFacts, DeskKeeps DEF Credit, DeskAt
<1>7. ASSUME Credited(q) PROVE Desk(n)'
  BY <1>1, <1>7, DeskKeeps DEF Credited, DeskEnds
<1>8. ASSUME NEW c \in DOMAIN comments, NEW row \in CommentRow, SetComment(q, c, row) PROVE Desk(n)'
  BY <1>8 DEF Desk, SetComment
<1>9. ASSUME NEW c \in DOMAIN comments, NEW on \in BOOLEAN, ModerateComment(q, c, on)
      PROVE  Desk(n)'
  <2>1. PICK b \in BOOLEAN : b = (comments[c].cleared \/ ~on)
    OBVIOUS
  <2>2. PICK row : row = [comments[c] EXCEPT !.is_moderated = on, !.cleared = b]
    OBVIOUS
  <2>3. row \in CommentRow
    BY <2>2, RowUpdates
  <2>4. SetComment(q, c, row)
    BY <1>9, <2>1, <2>2 DEF ModerateComment
  <2>5. QED BY <1>8, <2>3, <2>4
<1>10. ASSUME NEW c \in DOMAIN comments, RemoveComment(q, c) PROVE Desk(n)'
  <2>1. [comments[c] EXCEPT !.state = "deleted"] \in CommentRow
    BY RowUpdates
  <2>2. QED BY <1>8, <1>10, <2>1 DEF RemoveComment
<1>11. ASSUME NEW c \in DOMAIN comments, RestoreComment(q, c) PROVE Desk(n)'
  <2>1. Shown(comments[c]) = [comments[c] EXCEPT !.state = "live"]
    BY DEF Shown
  <2>2. [comments[c] EXCEPT !.state = "live"] \in CommentRow
    BY RowUpdates
  <2>3. QED BY <1>8, <1>11, <2>1, <2>2 DEF RestoreComment
<1>12. ASSUME NEW c \in DOMAIN comments, DeleteComment(q, c) PROVE Desk(n)'
  <2>1. [comments[c] EXCEPT !.state = "gone"] \in CommentRow
    BY RowUpdates
  <2>2. comments' = [comments EXCEPT ![c] = [comments[c] EXCEPT !.state = "gone"]]
    BY <1>12 DEF DeleteComment
  <2>3. QED BY <1>12, <2>1, <2>2 DEF Desk, DeleteComment
<1>13. ASSUME NEW c \in DOMAIN comments, ApproveComment(q, c) PROVE Desk(n)'
  <2>1. c \in 1..n /\ comments[c].author \in Commenters
    BY DEF CommentRow
  <2>2. QED BY <1>0, <1>13, <2>1, DeskStarts, DeskKeeps DEF ApproveComment
<1>14. ASSUME NEW c \in DOMAIN comments, NEW u \in Likers, ToggleLike(q, c, u) PROVE Desk(n)'
  <2>1. PICK pc \in {"like", "unlike"} : pc = IF u \in likes[c] THEN "unlike" ELSE "like"
    OBVIOUS
  <2>2. DeskGoto(q, [DeskIdle EXCEPT !.id = c, !.user = u, !.pc = pc])
    BY <1>14, <2>1 DEF ToggleLike
  <2>3. [DeskIdle EXCEPT !.id = c, !.user = u, !.pc = pc] \in DeskWork(n)
    BY <1>0, DeskStarts
  <2>4. QED BY <1>14, <2>2, <2>3, DeskKeeps DEF ToggleLike
<1>15. ASSUME ToggleRow(q) PROVE Desk(n)'
  <2> DEFINE r == deskReq[q]
             add == r.pc = "like"
  <2>1. /\ r.pc \in {"like", "unlike"} /\ r.id \in 1..n /\ r.user \in Likers
        /\ [r EXCEPT !.pc = "count", !.liked = add] \in DeskWork(n)
    BY <1>0, <1>2, <1>15, DeskWorkFacts DEF ToggleRow
  <2>2. CASE add /\ (~Exists(r.id) \/ r.user \in likes[r.id])
    BY <1>1, <1>15, <2>2, DeskKeeps DEF ToggleRow, DeskEnds
  <2>3. CASE ~(add /\ (~Exists(r.id) \/ r.user \in likes[r.id]))
    <3>1. /\ likes' = [likes EXCEPT ![r.id] = IF add THEN @ \cup {r.user} ELSE @ \ {r.user}]
          /\ DeskGoto(q, [r EXCEPT !.pc = "count", !.liked = add])
          /\ UNCHANGED <<comments, likeCount>>
      BY <1>15, <2>3 DEF ToggleRow
    <3>2. likes' \in [1..n -> SUBSET Likers]
      BY <2>1, <3>1 DEF Desk
    <3>3. QED BY <2>1, <3>1, <3>2, DeskGotoType DEF Desk
  <2>4. QED BY <2>2, <2>3
<1>16. ASSUME ReadCount(q) PROVE Desk(n)'
  <2>1. DeskAt(q, "count") /\ deskReq[q].id \in 1..n
    BY <1>0, <1>2, <1>16, DeskWorkFacts DEF ReadCount, DeskAt
  <2>2. [deskReq[q] EXCEPT !.pc = "counted", !.n = likeCount[deskReq[q].id]] \in DeskWork(n)
    BY <1>0, <1>2, <2>1, DeskWorkFacts DEF DeskAt
  <2>3. QED BY <1>1, <1>16, <2>2, DeskKeeps DEF ReadCount, DeskEnds
<1>17. ASSUME WriteCount(q) PROVE Desk(n)'
  <2>1. deskReq[q].id \in 1..n
    BY <1>0, <1>2, <1>17, DeskWorkFacts DEF WriteCount, DeskAt
  <2>2. Recount(deskReq[q].n, deskReq[q].liked) \in 0..MaxLikeCount
    <3>1. deskReq[q].n \in Nat /\ deskReq[q].n < MaxLikeCount
      BY <1>17 DEF WriteCount, DeskRequest
    <3>2. QED BY <3>1, RecountType
  <2>3. likeCount' \in [1..n -> 0..MaxLikeCount]
    BY <1>17, <2>1, <2>2 DEF Desk, WriteCount
  <2>4. deskReq' \in [Worker -> DeskWork(n)]
    BY <1>1, <1>17, DeskGotoType DEF WriteCount, DeskEnds
  <2>5. QED BY <1>17, <2>3, <2>4 DEF Desk, WriteCount
<1>18. ASSUME DeskDies(q) PROVE Desk(n)'
  BY <1>1, <1>18, DeskKeeps DEF DeskDies, DeskEnds
<1>19. ASSUME NEW u \in DeskUser, NEW b \in BOOLEAN, LeaveDesk(q, u, b) PROVE Desk(n)'
  <2>1. likes' \in [1..n -> SUBSET Likers]
    BY <1>0, <1>19 DEF Desk, LeaveDesk
  <2>2. \A c \in 1..n : [comments[c] EXCEPT !.state = "deleted"] \in CommentRow
    BY RowUpdates
  <2>3. comments' \in [1..n -> CommentRow]
    BY <1>0, <1>19, <2>2 DEF LeaveDesk
  <2>4. QED BY <1>19, <2>1, <2>3 DEF Desk, LeaveDesk
<1>20. QED
  BY <1>3, <1>4, <1>5, <1>6, <1>7, <1>9, <1>10, <1>11, <1>12, <1>13, <1>14, <1>15, <1>16, <1>17,
     <1>18, <1>19 DEF DeskStep

LEMMA DeskTypedInit ==
  ASSUME CommentDeskInit PROVE DeskTyped
<1>1. /\ 0 \in 0..MaxComments /\ 1..0 = {}
  BY DeskNumbers
<1>2. comments \in [1..0 -> CommentRow] /\ likes \in [1..0 -> SUBSET Likers]
      /\ likeCount \in [1..0 -> 0..MaxLikeCount]
  BY <1>1 DEF CommentDeskInit
<1>3. deskReq \in [Worker -> DeskWork(0)]
  BY DeskIdleType DEF CommentDeskInit
<1>4. Desk(0)
  BY <1>1, <1>2, <1>3 DEF Desk
<1>5. QED BY <1>4 DEF CommentDeskInit, WorkersInit, DeskTyped

LEMMA DeskTypedNext ==
  ASSUME DeskTyped, [CommentDeskNext]_deskVars PROVE DeskTyped'
<1>1. CASE UNCHANGED deskVars
  BY <1>1 DEF deskVars, DeskTyped, Desk
<1>2. ASSUME NEW q \in workers, DeskStep(q), UNCHANGED workers PROVE DeskTyped'
  <2>1. PICK n : Desk(n)
    BY DEF DeskTyped
  <2>2. \E m : Desk(m)'
    BY <1>2, <2>1, DeskStepTyped DEF DeskTyped
  <2>3. approved' \in [Commenters -> Nat]
    <3>1. approved' = approved \/ Credited(q)
      BY <1>2 DEF DeskStep, CreateComment, CommentCreated, CommentApproved, Credit, SetComment,
                  ModerateComment, RemoveComment, RestoreComment, DeleteComment, ApproveComment,
                  ToggleLike, ToggleRow, ReadCount, WriteCount, DeskDies, LeaveDesk
    <3>2. deskReq[q].n \in Nat
      BY <1>2, <2>1, DeskFacts DEF DeskTyped, DeskRequest
    <3>3. QED BY <3>1, <3>2 DEF DeskTyped, Credited
  <2>4. left' \subseteq DeskUser /\ (cutShort' = cutShort \/ cutShort' \in BOOLEAN)
    BY <1>2 DEF DeskTyped, DeskStep, CreateComment, CommentCreated, CommentApproved, Credit, Credited,
                SetComment, ModerateComment, RemoveComment, RestoreComment, DeleteComment,
                ApproveComment, ToggleLike, ToggleRow, ReadCount, WriteCount, DeskDies, LeaveDesk
  <2>5. QED BY <1>2, <2>2, <2>3, <2>4 DEF DeskTyped
<1>3. QED BY <1>1, <1>2 DEF CommentDeskNext

LEMMA DeskTypedImplies ==
  ASSUME DeskTyped PROVE CommentDeskTypeOK
<1>1. PICK n : Desk(n)
  BY DEF DeskTyped
<1>2. DOMAIN comments \in {1..m : m \in 0..MaxComments}
  BY <1>1 DEF Desk
<1>3. deskReq \in [Worker -> DeskRequest]
  BY <1>1 DEF Desk, DeskWork
<1>4. QED BY <1>1, <1>2, <1>3, DeskFacts DEF DeskTyped, CommentDeskTypeOK

\* A comment, its likes and its count are rows of the same tables, and no count
\* passes its bound.
THEOREM DeskTypeCorrect == CommentDeskSpec => []CommentDeskTypeOK
<1>1. CommentDeskSpec => []DeskTyped
  BY DeskTypedInit, DeskTypedNext, PTL DEF CommentDeskSpec
<1>2. QED BY <1>1, DeskTypedImplies, PTL

-----------------------------------------------------------------------------
(* Comments: the first ones of their author are reviewed *)

\* The approved comments of a user: the tables have them all, though the
\* author's counter may miss some.
ApprovedBy(u) == {c \in DOMAIN comments : comments[c].author = u /\ comments[c].approved_at}
ApprovedCount(u) == Cardinality(ApprovedBy(u))

\* A comment waits or has been approved, never both, and one that is visible
\* without a moderator's word is by an author who has been approved enough.
RowReviewed(row) ==
  /\ row.requires_approval => ~row.approved_at
  /\ ~row.is_moderated /\ ~row.cleared
       => row.author \notin Guarded /\ COMMENTS_NEEDED <= ApprovedCount(row.author)
\* The counter and the increment that is due are not ahead of the tables, and
\* what the only handler has read is still so.
CreditDue(r) == IF r.pc \in {"credit", "credited"} THEN 1 ELSE 0
WorkReviewed(r) ==
  /\ \A u \in Commenters :
       approved[u] + (IF u = r.user THEN CreditDue(r) ELSE 0) <= ApprovedCount(u)
  /\ r.pc = "create" /\ ~r.held => ~HeldBack(r.user)
  /\ r.pc = "approve" /\ Exists(r.id) =>
       comments[r.id].requires_approval /\ comments[r.id].author = r.user
  /\ r.pc = "credited" => r.n = approved[r.user]
ReviewInv ==
  Serial => /\ \A c \in DOMAIN comments : RowReviewed(comments[c])
            /\ \A q \in workers : WorkReviewed(deskReq[q])

LEMMA ApprovedFinite ==
  ASSUME NEW n, Desk(n), NEW u
  PROVE  IsFiniteSet(ApprovedBy(u)) /\ ApprovedCount(u) \in Nat /\ ApprovedBy(u) \subseteq 1..n
<1>1. ApprovedBy(u) \subseteq 1..n
  BY DEF Desk, ApprovedBy
<1>2. IsFiniteSet(1..n)
  BY FS_Interval, DeskNumbers DEF Desk
<1>3. QED BY <1>1, <1>2, FS_Subset, FS_CardinalityType DEF ApprovedCount

LEMMA SameApproved ==
  ASSUME \A u : ApprovedBy(u)' = ApprovedBy(u)
  PROVE  \A u : ApprovedCount(u)' = ApprovedCount(u)
BY DEF ApprovedCount

\* A step of the only worker that writes no comment and no counter.
LEMMA ReviewKeeps ==
  ASSUME NEW n, Desk(n), workers \in WorkerSets, Serial, ReviewInv, NEW q \in workers, NEW s,
         DeskGoto(q, s), UNCHANGED <<workers, comments, approved>>, WorkReviewed(s)
  PROVE  ReviewInv'
<1>1. \A u : ApprovedCount(u)' = ApprovedCount(u)
  BY SameApproved DEF ApprovedBy
<1>2. ASSUME NEW c \in DOMAIN comments' PROVE RowReviewed(comments[c])'
  <2>1. RowReviewed(comments[c])
    BY DEF ReviewInv
  <2>2. QED BY <1>1, <2>1 DEF RowReviewed
<1>3. ASSUME NEW p \in workers' PROVE WorkReviewed(deskReq[p])'
  <2>1. p = q
    BY Alone
  <2>2. deskReq'[p] = s
    BY <2>1, DeskGotoType
  <2>3. QED BY <1>1, <2>2 DEF WorkReviewed, HeldBack, Exists
<1>4. QED BY <1>2, <1>3 DEF ReviewInv

\* A request with no increment due, no decision made and no comment at hand.
Unbound(r) == r.pc \notin {"create", "approve", "credit", "credited"}

LEMMA ReviewLets ==
  ASSUME NEW n, Desk(n), workers \in WorkerSets, approved \in [Commenters -> Nat], Serial, ReviewInv,
         NEW q \in workers, NEW s, Unbound(s)
  PROVE  WorkReviewed(s)
<1>1. ASSUME NEW u \in Commenters PROVE approved[u] <= ApprovedCount(u) /\ approved[u] \in Nat
  <2>1. approved[u] + (IF u = deskReq[q].user THEN CreditDue(deskReq[q]) ELSE 0) <= ApprovedCount(u)
    BY DEF ReviewInv, WorkReviewed
  <2>2. ApprovedCount(u) \in Nat /\ approved[u] \in Nat
    BY ApprovedFinite
  <2>3. QED BY <2>1, <2>2 DEF CreditDue
<1>2. QED BY <1>1 DEF WorkReviewed, Unbound, CreditDue

\* A step of the idle worker that rewrites comments, and makes none visible.
LEMMA ReviewSurvives ==
  ASSUME NEW n, Desk(n), workers \in WorkerSets, approved \in [Commenters -> Nat], Serial, ReviewInv,
         NEW q \in workers, deskReq[q].pc = "idle",
         UNCHANGED <<workers, approved, deskReq>>, DOMAIN comments' = 1..n,
         \A c \in 1..n :
           /\ comments'[c].author = comments[c].author
           /\ comments'[c].approved_at = comments[c].approved_at
           /\ comments'[c].requires_approval = comments[c].requires_approval
           /\ comments'[c].is_moderated \/ comments'[c].cleared
              \/ (~comments[c].is_moderated /\ ~comments[c].cleared)
  PROVE  ReviewInv'
<1>1. \A u : ApprovedBy(u)' = ApprovedBy(u)
  BY DeskFacts DEF ApprovedBy
<1>2. \A u : ApprovedCount(u)' = ApprovedCount(u)
  BY <1>1, SameApproved
<1>3. ASSUME NEW c \in DOMAIN comments' PROVE RowReviewed(comments[c])'
  <2>1. RowReviewed(comments[c]) /\ c \in 1..n
    BY DeskFacts DEF ReviewInv
  <2>2. QED BY <1>2, <2>1 DEF RowReviewed
<1>4. ASSUME NEW p \in workers' PROVE WorkReviewed(deskReq[p])'
  <2>1. p = q
    BY Alone
  <2>2. WorkReviewed(deskReq[q])
    BY ReviewLets DEF Unbound
  <2>3. QED BY <1>2, <2>1, <2>2 DEF WorkReviewed, HeldBack, Exists
<1>5. QED BY <1>3, <1>4 DEF ReviewInv

LEMMA CreatedReviewed ==
  ASSUME NEW n, Desk(n), workers \in WorkerSets, approved \in [Commenters -> Nat], Serial, ReviewInv,
         NEW q \in workers, CommentCreated(q), UNCHANGED workers
  PROVE  ReviewInv'
<1> DEFINE r == deskReq[q]
<1>1. PICK row : row = [author |-> r.user, state |-> "live", is_moderated |-> r.held,
                        requires_approval |-> r.held, approved_at |-> FALSE, cleared |-> FALSE]
  OBVIOUS
<1>2. n \in Nat /\ r.user \in Commenters /\ r.held \in BOOLEAN
  BY DeskFacts DEF CommentCreated, DeskAt, DeskWork, DeskRequest
<1>3. row \in CommentRow
  BY <1>1, <1>2 DEF CommentRow
<1>4. comments' = Append(comments, row) /\ UNCHANGED approved /\ deskReq[q].pc = "create"
      /\ DeskGoto(q, DeskIdle)
  BY <1>1 DEF CommentCreated, DeskAt, DeskEnds
<1>5. /\ DOMAIN comments' = 1..n + 1 /\ comments'[n + 1] = row
      /\ \A c \in 1..n : comments'[c] = comments[c]
  BY <1>2, <1>3, <1>4, Appended DEF Desk
<1>6. \A u : ApprovedBy(u)' = ApprovedBy(u)
  <2>1. 1..n + 1 = 1..n \cup {n + 1} /\ n + 1 \notin 1..n
    BY <1>2
  <2>2. ~row.approved_at
    BY <1>1
  <2>3. QED BY <1>5, <2>1, <2>2, DeskFacts DEF ApprovedBy
<1>7. \A u : ApprovedCount(u)' = ApprovedCount(u)
  BY <1>6, SameApproved
<1>8. RowReviewed(row)'
  <2>1. /\ row.author = r.user /\ row.is_moderated = r.held /\ row.requires_approval = r.held
        /\ ~row.approved_at
    BY <1>1
  <2>2. ~r.held => r.user \notin Guarded /\ COMMENTS_NEEDED <= approved[r.user]
    <3>1. ~r.held => ~HeldBack(r.user)
      BY <1>4 DEF ReviewInv, WorkReviewed
    <3>2. approved[r.user] \in Nat
      BY <1>2
    <3>3. QED BY <3>1, <3>2, DeskNumbers DEF HeldBack
  <2>3. approved[r.user] <= ApprovedCount(r.user)
    <3>1. approved[r.user] + CreditDue(r) <= ApprovedCount(r.user)
      BY <1>2 DEF ReviewInv, WorkReviewed
    <3>2. CreditDue(r) = 0 /\ approved[r.user] \in Nat
      BY <1>2, <1>4 DEF CreditDue
    <3>3. QED BY <3>1, <3>2
  <2>4. ApprovedCount(r.user) \in Nat /\ approved[r.user] \in Nat
    BY <1>2, ApprovedFinite
  <2>5. ~r.held => COMMENTS_NEEDED <= ApprovedCount(r.user)
    BY <2>2, <2>3, <2>4, DeskNumbers
  <2>6. QED BY <1>7, <2>1, <2>2, <2>5 DEF RowReviewed
<1>9. ASSUME NEW c \in DOMAIN comments' PROVE RowReviewed(comments[c])'
  <2>1. CASE c = n + 1
    BY <1>5, <1>8, <2>1 DEF RowReviewed
  <2>2. CASE c \in 1..n
    <3>1. RowReviewed(comments[c])
      BY <2>2, DeskFacts DEF ReviewInv
    <3>2. QED BY <1>5, <1>7, <2>2, <3>1 DEF RowReviewed
  <2>3. QED BY <1>2, <1>5, <2>1, <2>2
<1>10. ASSUME NEW p \in workers' PROVE WorkReviewed(deskReq[p])'
  <2>1. p = q /\ deskReq'[q] = DeskIdle /\ DeskIdle.pc = "idle"
    BY <1>2, <1>4, Alone, DeskGotoType, DeskIdleType
  <2>2. WorkReviewed(DeskIdle)
    BY <2>1, ReviewLets DEF Unbound
  <2>3. QED BY <1>4, <1>7, <2>1, <2>2 DEF WorkReviewed
<1>11. QED BY <1>9, <1>10 DEF ReviewInv

LEMMA ApprovalReviewed ==
  ASSUME NEW n, Desk(n), workers \in WorkerSets, approved \in [Commenters -> Nat], Serial, ReviewInv,
         NEW q \in workers, CommentApproved(q), UNCHANGED workers
  PROVE  ReviewInv'
<1> DEFINE r == deskReq[q]
<1>1. n \in Nat /\ r.pc = "approve" /\ r.user \in Commenters /\ UNCHANGED approved
  BY DeskFacts DEF CommentApproved, DeskAt, DeskWork
<1>0. PICK v : v = r.user
  OBVIOUS
<1>2. CASE ~Exists(r.id)
  <2>1. DeskGoto(q, DeskIdle) /\ UNCHANGED comments
    BY <1>2 DEF CommentApproved, DeskEnds
  <2>2. WorkReviewed(DeskIdle)
    BY <1>1, DeskIdleType, ReviewLets DEF Unbound
  <2>3. QED BY <1>1, <2>1, <2>2, ReviewKeeps
<1>3. CASE Exists(r.id)
  <2>1. PICK c \in 1..n : c = r.id
    BY <1>1, DeskFacts DEF DeskWork
  <2>2. /\ comments' = [comments EXCEPT ![c].is_moderated = FALSE, ![c].requires_approval = FALSE,
                                        ![c].approved_at = TRUE, ![c].cleared = TRUE]
        /\ DeskGoto(q, [r EXCEPT !.pc = "credit"])
    BY <1>3, <2>1 DEF CommentApproved
  <2>3. PICK row : row = [comments[c] EXCEPT !.is_moderated = FALSE, !.requires_approval = FALSE,
                                             !.approved_at = TRUE, !.cleared = TRUE]
    OBVIOUS
  <2>4. /\ row.author = comments[c].author /\ row.approved_at /\ row.cleared
        /\ ~row.requires_approval
    BY <2>3, DeskFacts DEF CommentRow
  <2>5. /\ DOMAIN comments' = 1..n /\ comments'[c] = row
        /\ \A d \in 1..n \ {c} : comments'[d] = comments[d]
    BY <2>2, <2>3 DEF Desk
  <2>6. comments[c].author = v /\ ~comments[c].approved_at
    <3>1. comments[c].requires_approval /\ comments[c].author = v
      BY <1>0, <1>1, <1>3, <2>1 DEF ReviewInv, WorkReviewed
    <3>2. RowReviewed(comments[c])
      BY <2>1, DeskFacts DEF ReviewInv
    <3>3. QED BY <3>1, <3>2 DEF RowReviewed
  <2>7. \A u : ApprovedBy(u)' = IF u = v THEN ApprovedBy(u) \cup {c} ELSE ApprovedBy(u)
    BY <2>4, <2>5, <2>6, DeskFacts DEF ApprovedBy
  <2>8. c \notin ApprovedBy(v)
    BY <2>6 DEF ApprovedBy
  <2>9. /\ ApprovedCount(v)' = ApprovedCount(v) + 1
        /\ \A u : u # v => ApprovedCount(u)' = ApprovedCount(u)
    <3>1. IsFiniteSet(ApprovedBy(v))
      BY ApprovedFinite
    <3>2. Cardinality(ApprovedBy(v) \cup {c}) = Cardinality(ApprovedBy(v)) + 1
      BY <2>8, <3>1, FS_AddElement
    <3>3. ApprovedBy(v)' = ApprovedBy(v) \cup {c}
      BY <2>7
    <3>4. \A u : u # v => ApprovedBy(u)' = ApprovedBy(u)
      BY <2>7
    <3>5. QED BY <3>2, <3>3, <3>4 DEF ApprovedCount
  <2>10. ASSUME NEW u
         PROVE  /\ ApprovedCount(u) \in Nat /\ ApprovedCount(u)' \in Nat
                /\ ApprovedCount(u) <= ApprovedCount(u)'
    <3>1. ApprovedCount(u) \in Nat
      BY ApprovedFinite
    <3>2. CASE u = v
      BY <2>9, <3>1, <3>2
    <3>3. CASE u # v
      BY <2>9, <3>1, <3>3
    <3>4. QED BY <3>2, <3>3
  <2>11. ASSUME NEW d \in DOMAIN comments' PROVE RowReviewed(comments[d])'
    <3>1. CASE d = c
      BY <2>4, <2>5, <3>1 DEF RowReviewed
    <3>2. CASE d # c
      <4>1. RowReviewed(comments[d]) /\ comments'[d] = comments[d]
        BY <2>5, <3>2, DeskFacts DEF ReviewInv
      <4>2. PICK u : u = comments[d].author
        OBVIOUS
      <4>3. ApprovedCount(u) \in Nat /\ ApprovedCount(u)' \in Nat /\ ApprovedCount(u) <= ApprovedCount(u)'
        BY <2>10
      <4>4. QED BY <4>1, <4>2, <4>3, DeskNumbers DEF RowReviewed
    <3>3. QED BY <3>1, <3>2
  <2>12. ASSUME NEW p \in workers' PROVE WorkReviewed(deskReq[p])'
    <3>1. PICK s : s = [r EXCEPT !.pc = "credit"]
      OBVIOUS
    <3>2. s.pc = "credit" /\ s.user = v
      BY <1>0, <3>1, DeskFacts DEF DeskRequest
    <3>3. deskReq'[p] = s
      BY <2>2, <3>1, Alone, DeskGotoType
    <3>4. ASSUME NEW u \in Commenters
          PROVE  approved[u] + (IF u = v THEN 1 ELSE 0) <= ApprovedCount(u)'
      <4>1. approved[u] <= ApprovedCount(u) /\ approved[u] \in Nat
        <5>1. approved[u] + (IF u = v THEN CreditDue(r) ELSE 0) <= ApprovedCount(u)
          BY <1>0 DEF ReviewInv, WorkReviewed
        <5>2. QED BY <1>0, <1>1, <5>1 DEF CreditDue
      <4>2. ApprovedCount(u) \in Nat /\ ApprovedCount(u)' \in Nat
            /\ ApprovedCount(u) <= ApprovedCount(u)'
        BY <2>10
      <4>3. CASE u = v
        BY <2>9, <4>1, <4>2, <4>3
      <4>4. CASE u # v
        BY <4>1, <4>2, <4>4
      <4>5. QED BY <4>3, <4>4
    <3>5. QED BY <1>1, <3>2, <3>3, <3>4 DEF WorkReviewed, CreditDue
  <2>13. QED BY <2>11, <2>12 DEF ReviewInv
<1>4. QED BY <1>2, <1>3

\* What moderation leaves of a row.
LEMMA MovedState ==
  ASSUME NEW row \in CommentRow, NEW x, NEW new, new = [row EXCEPT !.state = x]
  PROVE  /\ new.author = row.author /\ new.approved_at = row.approved_at
         /\ new.requires_approval = row.requires_approval
         /\ new.is_moderated = row.is_moderated /\ new.cleared = row.cleared
BY DEF CommentRow

LEMMA ReviewNext ==
  ASSUME DeskTyped, ReviewInv, [CommentDeskNext]_deskVars
  PROVE  ReviewInv'
<1>1. CASE UNCHANGED deskVars
  BY <1>1 DEF deskVars, ReviewInv, RowReviewed, WorkReviewed, ApprovedCount, ApprovedBy, HeldBack,
              Exists, Serial
<1>2. ASSUME NEW q \in workers, DeskStep(q), UNCHANGED workers PROVE ReviewInv'
  <2>1. PICK n : Desk(n)
    BY DEF DeskTyped
  <2>2. workers \in WorkerSets /\ approved \in [Commenters -> Nat] /\ DOMAIN comments = 1..n
        /\ n \in Nat
    BY <2>1, DeskFacts DEF DeskTyped
  <2>3. SUFFICES ASSUME Serial PROVE ReviewInv'
    BY <1>2 DEF ReviewInv, Serial
  <2> DEFINE r == deskReq[q]
  <2>4. r \in DeskWork(n) /\ r \in DeskRequest /\ DeskIdle.pc = "idle"
    BY <2>1, <2>2, DeskFacts, DeskIdleType
  <2>5. ASSUME NEW s, DeskGoto(q, s), UNCHANGED <<comments, approved>>, Unbound(s) PROVE ReviewInv'
    BY <1>2, <2>1, <2>2, <2>3, <2>5, ReviewLets, ReviewKeeps
  <2>6. ASSUME NEW c \in 1..n, NEW row, r.pc = "idle", UNCHANGED <<approved, deskReq>>,
               comments' = [comments EXCEPT ![c] = row],
               row.author = comments[c].author, row.approved_at = comments[c].approved_at,
               row.requires_approval = comments[c].requires_approval,
               row.is_moderated \/ row.cleared
                 \/ (~comments[c].is_moderated /\ ~comments[c].cleared)
        PROVE  ReviewInv'
    <3>1. DOMAIN comments' = 1..n /\ comments'[c] = row
          /\ \A d \in 1..n \ {c} : comments'[d] = comments[d]
      BY <2>2, <2>6
    <3>2. \A d \in 1..n : comments[d].is_moderated \/ comments[d].cleared
                          \/ (~comments[d].is_moderated /\ ~comments[d].cleared)
      OBVIOUS
    <3>3. \A d \in 1..n :
            /\ comments'[d].author = comments[d].author
            /\ comments'[d].approved_at = comments[d].approved_at
            /\ comments'[d].requires_approval = comments[d].requires_approval
            /\ comments'[d].is_moderated \/ comments'[d].cleared
               \/ (~comments[d].is_moderated /\ ~comments[d].cleared)
      BY <2>6, <3>1, <3>2
    <3>4. QED BY <1>2, <2>1, <2>2, <2>3, <2>6, <3>1, <3>3, ReviewSurvives
  <2>7. ASSUME NEW c \in 1..n, NEW x, SetComment(q, c, [comments[c] EXCEPT !.state = x])
        PROVE  ReviewInv'
    <3>1. PICK row : row = [comments[c] EXCEPT !.state = x]
      OBVIOUS
    <3>2. /\ row.author = comments[c].author /\ row.approved_at = comments[c].approved_at
          /\ row.requires_approval = comments[c].requires_approval
          /\ row.is_moderated = comments[c].is_moderated /\ row.cleared = comments[c].cleared
      <4>1. comments[c] \in CommentRow
        BY <2>1, <2>2, DeskFacts
      <4>2. QED BY <3>1, <4>1, MovedState
    <3>3. r.pc = "idle" /\ UNCHANGED <<approved, deskReq>> /\ comments' = [comments EXCEPT ![c] = row]
      BY <2>7, <3>1 DEF SetComment, DeskAt
    <3>4. QED BY <2>6, <3>2, <3>3
  <2>10. ASSUME NEW u \in Commenters, CreateComment(q, u) PROVE ReviewInv'
    <3>1. PICK b \in BOOLEAN : b = HeldBack(u)
      BY DEF HeldBack
    <3>2. PICK s : s = [DeskIdle EXCEPT !.pc = "create", !.user = u, !.held = b]
      OBVIOUS
    <3>3. s.pc = "create" /\ s.user = u /\ s.held = b
      BY <2>2, <3>2, DeskIdleType DEF DeskRequest
    <3>4. DeskGoto(q, s) /\ UNCHANGED <<comments, approved>>
      BY <2>10, <3>1, <3>2 DEF CreateComment
    <3>5. WorkReviewed(DeskIdle)
      BY <2>1, <2>2, <2>3, <2>4, ReviewLets DEF Unbound
    <3>6. WorkReviewed(s)
      BY <2>4, <3>1, <3>3, <3>5 DEF WorkReviewed, CreditDue
    <3>7. QED BY <1>2, <2>1, <2>2, <2>3, <3>4, <3>6, ReviewKeeps
  <2>11. CASE CommentCreated(q)
    BY <1>2, <2>1, <2>2, <2>3, <2>11, CreatedReviewed
  <2>12. CASE CommentApproved(q)
    BY <1>2, <2>1, <2>2, <2>3, <2>12, ApprovalReviewed
  <2>13. CASE Credit(q)
    <3>1. PICK s : s = [r EXCEPT !.pc = "credited", !.n = approved[r.user]]
      OBVIOUS
    <3>2. s.pc = "credited" /\ s.user = r.user /\ s.n = approved[r.user]
      BY <2>4, <3>1 DEF DeskRequest
    <3>3. DeskGoto(q, s) /\ UNCHANGED <<comments, approved>> /\ r.pc = "credit"
      BY <2>13, <3>1 DEF Credit, DeskAt
    <3>4. WorkReviewed(r)
      BY <2>3 DEF ReviewInv
    <3>5. WorkReviewed(s)
      BY <3>2, <3>3, <3>4 DEF WorkReviewed, CreditDue
    <3>6. QED BY <1>2, <2>1, <2>2, <2>3, <3>3, <3>5, ReviewKeeps
  <2>14. CASE Credited(q)
    <3>1. /\ DeskGoto(q, DeskIdle) /\ UNCHANGED comments /\ r.pc = "credited"
          /\ approved' = [approved EXCEPT ![r.user] = r.n + 1]
      BY <2>14 DEF Credited, DeskEnds, DeskAt
    <3>2. r.user \in Commenters /\ WorkReviewed(r)
      BY <2>3, <2>4, <3>1 DEF DeskWork, ReviewInv
    <3>3. \A u \in Commenters : approved'[u] <= ApprovedCount(u)
      <4>1. r.n = approved[r.user]
        BY <3>1, <3>2 DEF WorkReviewed
      <4>2. ASSUME NEW u \in Commenters PROVE approved'[u] <= ApprovedCount(u)
        <5>1. approved[u] + (IF u = r.user THEN 1 ELSE 0) <= ApprovedCount(u)
          BY <3>1, <3>2 DEF WorkReviewed, CreditDue
        <5>2. approved[u] \in Nat /\ ApprovedCount(u) \in Nat
          BY <2>1, <2>2, ApprovedFinite
        <5>3. approved'[u] = IF u = r.user THEN approved[u] + 1 ELSE approved[u]
          BY <2>2, <3>1, <3>2, <4>1
        <5>4. QED BY <5>1, <5>2, <5>3
      <4>3. QED BY <4>2
    <3>4. \A u : ApprovedCount(u)' = ApprovedCount(u)
      BY <3>1, SameApproved DEF ApprovedBy
    <3>5. ASSUME NEW c \in DOMAIN comments' PROVE RowReviewed(comments[c])'
      <4>1. RowReviewed(comments[c])
        BY <2>3, <3>1 DEF ReviewInv
      <4>2. QED BY <3>1, <3>4, <4>1 DEF RowReviewed
    <3>6. ASSUME NEW p \in workers' PROVE WorkReviewed(deskReq[p])'
      <4>1. deskReq'[p] = DeskIdle
        BY <1>2, <2>1, <2>2, <2>3, <3>1, Alone, DeskGotoType
      <4>2. \A u \in Commenters : approved'[u] \in Nat
        BY <2>2, <2>4, <3>1 DEF DeskRequest
      <4>3. QED BY <2>4, <3>3, <3>4, <4>1, <4>2 DEF WorkReviewed, CreditDue
    <3>7. QED BY <3>5, <3>6 DEF ReviewInv
  <2>15. ASSUME NEW c \in DOMAIN comments, NEW on \in BOOLEAN, ModerateComment(q, c, on)
         PROVE  ReviewInv'
    <3>1. comments[c] \in CommentRow /\ c \in 1..n
      BY <2>1, <2>2, DeskFacts
    <3>2. PICK b \in BOOLEAN : b = (comments[c].cleared \/ ~on)
      OBVIOUS
    <3>3. PICK row : row = [comments[c] EXCEPT !.is_moderated = on, !.cleared = b]
      OBVIOUS
    <3>4. /\ row.author = comments[c].author /\ row.approved_at = comments[c].approved_at
          /\ row.requires_approval = comments[c].requires_approval
          /\ row.is_moderated = on /\ row.cleared = b
      BY <3>1, <3>3 DEF CommentRow
    <3>5. r.pc = "idle" /\ UNCHANGED <<approved, deskReq>> /\ comments' = [comments EXCEPT ![c] = row]
      BY <2>15, <3>2, <3>3 DEF ModerateComment, SetComment, DeskAt
    <3>6. QED BY <2>6, <3>1, <3>2, <3>4, <3>5
  <2>16. ASSUME NEW c \in DOMAIN comments,
                RemoveComment(q, c) \/ RestoreComment(q, c) \/ DeleteComment(q, c)
         PROVE  ReviewInv'
    <3>1. CASE RemoveComment(q, c)
      BY <2>2, <2>7, <3>1 DEF RemoveComment
    <3>2. CASE RestoreComment(q, c)
      BY <2>2, <2>7, <3>2 DEF RestoreComment, Shown
    <3>3. CASE DeleteComment(q, c)
      <4>1. PICK row : row = [comments[c] EXCEPT !.state = "gone"]
        OBVIOUS
      <4>2. comments' = [comments EXCEPT ![c] = row] /\ r.pc = "idle" /\ UNCHANGED <<approved, deskReq>>
        BY <3>3, <4>1 DEF DeleteComment, DeskAt
      <4>3. /\ row.author = comments[c].author /\ row.approved_at = comments[c].approved_at
            /\ row.requires_approval = comments[c].requires_approval
            /\ row.is_moderated = comments[c].is_moderated /\ row.cleared = comments[c].cleared
        <5>1. comments[c] \in CommentRow
          BY <2>1, <2>2, DeskFacts
        <5>2. QED BY <4>1, <5>1, MovedState
      <4>4. QED BY <2>2, <2>6, <4>2, <4>3
    <3>4. QED BY <2>16, <3>1, <3>2, <3>3
  <2>17. ASSUME NEW c \in DOMAIN comments, ApproveComment(q, c) PROVE ReviewInv'
    <3>1. PICK s : s = [DeskIdle EXCEPT !.pc = "approve", !.id = c, !.user = comments[c].author]
      OBVIOUS
    <3>2. s.pc = "approve" /\ s.id = c /\ s.user = comments[c].author
      BY <2>2, <3>1, DeskIdleType DEF DeskRequest
    <3>3. DeskGoto(q, s) /\ UNCHANGED <<comments, approved>> /\ comments[c].requires_approval
      BY <2>17, <3>1 DEF ApproveComment
    <3>4. WorkReviewed(DeskIdle)
      BY <2>1, <2>2, <2>3, <2>4, ReviewLets DEF Unbound
    <3>5. WorkReviewed(s)
      BY <2>4, <3>2, <3>3, <3>4 DEF WorkReviewed, CreditDue
    <3>6. QED BY <1>2, <2>1, <2>2, <2>3, <3>3, <3>5, ReviewKeeps
  <2>18. ASSUME NEW c \in DOMAIN comments, NEW u \in Likers, ToggleLike(q, c, u) PROVE ReviewInv'
    <3>1. PICK pc \in {"like", "unlike"} : pc = IF u \in likes[c] THEN "unlike" ELSE "like"
      OBVIOUS
    <3>2. PICK s : s = [DeskIdle EXCEPT !.id = c, !.user = u, !.pc = pc]
      OBVIOUS
    <3>3. s.pc = pc
      BY <2>2, <3>2, DeskIdleType DEF DeskRequest
    <3>4. QED BY <2>5, <2>18, <3>1, <3>2, <3>3 DEF ToggleLike, Unbound
  <2>19. CASE ToggleRow(q)
    <3>1. PICK b \in BOOLEAN : b = (r.pc = "like")
      OBVIOUS
    <3>2. PICK s : s = [r EXCEPT !.pc = "count", !.liked = b]
      OBVIOUS
    <3>3. s.pc = "count"
      BY <2>4, <3>2 DEF DeskRequest
    <3>4. DeskGoto(q, s) \/ DeskGoto(q, DeskIdle)
      BY <2>19, <3>1, <3>2 DEF ToggleRow, DeskEnds
    <3>5. QED BY <2>4, <2>5, <2>19, <3>3, <3>4 DEF ToggleRow, Unbound
  <2>20. CASE ReadCount(q)
    <3>1. PICK s : s = [r EXCEPT !.pc = "counted", !.n = likeCount[r.id]]
      OBVIOUS
    <3>2. s.pc = "counted"
      BY <2>4, <3>1 DEF DeskRequest
    <3>3. DeskGoto(q, s) \/ DeskGoto(q, DeskIdle)
      BY <2>20, <3>1 DEF ReadCount, DeskEnds
    <3>4. QED BY <2>4, <2>5, <2>20, <3>2, <3>3 DEF ReadCount, Unbound
  <2>21. CASE WriteCount(q) \/ DeskDies(q)
    BY <2>4, <2>5, <2>21 DEF WriteCount, DeskDies, DeskEnds, Unbound
  <2>22. ASSUME NEW u \in DeskUser, NEW b \in BOOLEAN, LeaveDesk(q, u, b) PROVE ReviewInv'
    <3>1. r.pc = "idle" /\ UNCHANGED <<approved, deskReq>> /\ DOMAIN comments' = 1..n
      BY <2>2, <2>22 DEF LeaveDesk, DeskAt
    <3>2. ASSUME NEW c \in 1..n
          PROVE  /\ comments'[c].author = comments[c].author
                 /\ comments'[c].approved_at = comments[c].approved_at
                 /\ comments'[c].requires_approval = comments[c].requires_approval
                 /\ comments'[c].is_moderated \/ comments'[c].cleared
                    \/ (~comments[c].is_moderated /\ ~comments[c].cleared)
      <4>1. comments'[c] = comments[c] \/ comments'[c] = [comments[c] EXCEPT !.state = "deleted"]
        BY <2>2, <2>22 DEF LeaveDesk
      <4>2. comments[c] \in CommentRow
        BY <2>1, <2>2, DeskFacts
      <4>3. QED BY <4>1, <4>2, MovedState
    <3>3. QED BY <1>2, <2>1, <2>2, <2>3, <3>1, <3>2, ReviewSurvives
  <2>23. QED
    BY <1>2, <2>10, <2>11, <2>12, <2>13, <2>14, <2>15, <2>16, <2>17, <2>18, <2>19, <2>20, <2>21,
       <2>22 DEF DeskStep
<1>3. QED BY <1>1, <1>2 DEF CommentDeskNext

LEMMA ReviewInit ==
  ASSUME CommentDeskInit PROVE ReviewInv
<1>1. \A u : ApprovedBy(u) = {} /\ ApprovedCount(u) = 0
  BY FS_EmptySet DEF CommentDeskInit, ApprovedBy, ApprovedCount
<1>2. \A q \in workers : deskReq[q] = DeskIdle
  BY WorkersCounted DEF CommentDeskInit, WorkersInit
<1>3. DeskIdle.pc = "idle"
  BY DeskIdleType
<1>4. WorkReviewed(DeskIdle)
  BY <1>1, <1>3 DEF CommentDeskInit, WorkReviewed, CreditDue
<1>5. QED BY <1>2, <1>4 DEF CommentDeskInit, ReviewInv

LEMMA ReviewImplies ==
  ASSUME DeskTyped, ReviewInv PROVE FirstCommentsReviewed
<1>1. ASSUME Serial, NEW c \in DOMAIN comments,
             ~comments[c].is_moderated, ~comments[c].cleared
      PROVE  /\ comments[c].author \notin Guarded
             /\ Cardinality({d \in {e \in DOMAIN comments : comments[e].author = comments[c].author} :
                              comments[d].approved_at}) >= COMMENTS_NEEDED
  <2>1. {d \in {e \in DOMAIN comments : comments[e].author = comments[c].author} :
           comments[d].approved_at} = ApprovedBy(comments[c].author)
    BY DEF ApprovedBy
  <2>2. comments[c].author \notin Guarded /\ COMMENTS_NEEDED <= ApprovedCount(comments[c].author)
    BY <1>1 DEF ReviewInv, RowReviewed
  <2>3. PICK n : Desk(n)
    BY DEF DeskTyped
  <2>4. ApprovedCount(comments[c].author) \in Nat
    BY <2>3, ApprovedFinite
  <2>5. QED BY <2>1, <2>2, <2>4, DeskNumbers DEF ApprovedCount
<1>2. QED BY <1>1 DEF FirstCommentsReviewed

\* With one handler at a time, a comment that is visible though no moderator ever
\* showed it is by an author who needs no approval: one set free by as many
\* approved comments as requires_comment_approval asks for.
THEOREM FirstCommentsAreReviewed == CommentDeskSpec => []FirstCommentsReviewed
<1>1. CommentDeskInit => DeskTyped /\ ReviewInv
  BY DeskTypedInit, ReviewInit
<1>2. DeskTyped /\ ReviewInv /\ [CommentDeskNext]_deskVars => DeskTyped' /\ ReviewInv'
  BY DeskTypedNext, ReviewNext
<1>3. DeskTyped /\ ReviewInv => FirstCommentsReviewed
  BY ReviewImplies
<1>4. QED BY <1>1, <1>2, <1>3, PTL DEF CommentDeskSpec

-----------------------------------------------------------------------------
(* Likes: the count is the number of likes *)

\* How far the count of a comment is from its likes while a toggle has stored the
\* row and not the count: one less, or one more.
Due(r, c) == IF r.pc \in {"count", "counted"} /\ r.id = c THEN IF r.liked THEN -1 ELSE 1 ELSE 0
\* What the only handler has read is still so, and every count is right but for
\* what is due and the likes of the users that left.
WorkCounted(r) ==
  /\ r.pc = "like" => r.user \notin likes[r.id]
  /\ r.pc = "unlike" => r.user \in likes[r.id]
  /\ r.pc = "counted" => r.n = likeCount[r.id]
  /\ \A c \in DOMAIN comments : Exists(c) =>
       /\ Cardinality(likes[c]) + Due(r, c) <= likeCount[c]
       /\ likeCount[c] <= Cardinality(likes[c]) + Due(r, c) + Cardinality(left)
LikesFinite == IsFiniteSet(left) /\ \A c \in DOMAIN comments : IsFiniteSet(likes[c])
CountInv ==
  /\ LikesFinite
  /\ Serial /\ ~cutShort => \A q \in workers : WorkCounted(deskReq[q])

LEMMA LikesStayFinite ==
  ASSUME NEW n, Desk(n), workers \in WorkerSets, LikesFinite, NEW q \in workers, DeskStep(q)
  PROVE  LikesFinite'
<1>1. n \in Nat /\ DOMAIN comments = 1..n /\ DOMAIN likes = 1..n /\ IsFiniteSet({})
      /\ \A c \in 1..n : IsFiniteSet(likes[c])
  BY DeskFacts, FS_EmptySet DEF LikesFinite
<1>2. CASE UNCHANGED <<likes, left>> /\ DOMAIN comments' = DOMAIN comments
  BY <1>2 DEF LikesFinite
<1>3. CASE CommentCreated(q)
  <2>1. /\ DOMAIN comments' = 1..n + 1 /\ likes'[n + 1] = {} /\ \A c \in 1..n : likes'[c] = likes[c]
    <3>1. DOMAIN comments' = 1..n + 1
      BY <1>1, <1>3, CommentCreatedTyped DEF Desk
    <3>2. likes \in [1..n -> SUBSET Likers] /\ likes' = Append(likes, {}) /\ {} \in SUBSET Likers
      BY <1>3 DEF CommentCreated, Desk
    <3>3. QED BY <1>1, <3>1, <3>2, Appended
  <2>2. \A c \in DOMAIN comments' : c \in 1..n \/ c = n + 1
    BY <1>1, <2>1
  <2>3. UNCHANGED left
    BY <1>3 DEF CommentCreated
  <2>4. QED BY <1>1, <2>1, <2>2, <2>3 DEF LikesFinite
<1>4. ASSUME NEW c \in DOMAIN comments, DeleteComment(q, c) PROVE LikesFinite'
  <2>1. /\ DOMAIN comments' = 1..n /\ UNCHANGED left
        /\ \A d \in 1..n : likes'[d] = IF d = c THEN {} ELSE likes[d]
    BY <1>1, <1>4 DEF DeleteComment
  <2>2. QED BY <1>1, <2>1 DEF LikesFinite
<1>5. CASE ToggleRow(q)
  <2>1. DOMAIN comments' = 1..n /\ UNCHANGED left
    BY <1>1, <1>5 DEF ToggleRow
  <2>2. PICK v : v = deskReq[q].user
    OBVIOUS
  <2>3. ASSUME NEW c \in 1..n PROVE IsFiniteSet(likes'[c])
    <3>1. likes'[c] \subseteq likes[c] \cup {v}
      BY <1>1, <1>5, <2>2 DEF ToggleRow
    <3>2. IsFiniteSet(likes[c] \cup {v})
      BY <1>1, FS_AddElement
    <3>3. QED BY <3>1, <3>2, FS_Subset
  <2>4. QED BY <2>1, <2>3 DEF LikesFinite
<1>6. ASSUME NEW u, NEW b, LeaveDesk(q, u, b) PROVE LikesFinite'
  <2>1. /\ DOMAIN comments' = 1..n /\ left' = left \cup {u}
        /\ \A c \in 1..n : likes'[c] = likes[c] \ {u}
    BY <1>1, <1>6 DEF LeaveDesk
  <2>2. IsFiniteSet(left \cup {u})
    BY FS_AddElement DEF LikesFinite
  <2>3. \A c \in 1..n : IsFiniteSet(likes[c] \ {u})
    BY <1>1, FS_Subset
  <2>4. QED BY <2>1, <2>2, <2>3 DEF LikesFinite
<1>7. QED
  BY <1>2, <1>3, <1>4, <1>5, <1>6
     DEF DeskStep, CreateComment, CommentApproved, Credit, Credited, SetComment, ModerateComment,
         RemoveComment, RestoreComment, ApproveComment, ToggleLike, ReadCount, WriteCount, DeskDies

\* What the only handler's view says of the numbers.
LEMMA CountFacts ==
  ASSUME NEW n, Desk(n), workers \in WorkerSets, Serial, ~cutShort, CountInv, NEW q \in workers
  PROVE  /\ WorkCounted(deskReq[q])
         /\ IsFiniteSet(left) /\ Cardinality(left) \in Nat
         /\ \A c \in 1..n : IsFiniteSet(likes[c]) /\ Cardinality(likes[c]) \in Nat
BY DeskFacts, FS_CardinalityType DEF CountInv, LikesFinite

\* A step of the only worker that writes no like and no count.
LEMMA CountKeeps ==
  ASSUME NEW n, Desk(n), workers \in WorkerSets, Serial, ~cutShort, CountInv, NEW q \in workers,
         NEW s, deskReq'[q] = s, UNCHANGED <<workers, likes, likeCount, left>>,
         DOMAIN comments' = 1..n,
         \A c \in 1..n : comments[c].state = "gone" => comments'[c].state = "gone",
         s.pc = "like" => s.user \notin likes[s.id],
         s.pc = "unlike" => s.user \in likes[s.id],
         s.pc = "counted" => s.n = likeCount[s.id],
         \A c \in 1..n : Exists(c) => Due(s, c) = Due(deskReq[q], c)
  PROVE  \A p \in workers' : WorkCounted(deskReq[p])'
<1>1. ASSUME NEW p \in workers' PROVE deskReq'[p] = s
  BY Alone
<1>2. ASSUME NEW c \in 1..n, comments'[c].state # "gone"
      PROVE  /\ Cardinality(likes[c]) + Due(s, c) <= likeCount[c]
             /\ likeCount[c] <= Cardinality(likes[c]) + Due(s, c) + Cardinality(left)
  <2>1. Exists(c) /\ c \in DOMAIN comments
    BY <1>2, DeskFacts DEF Exists
  <2>2. QED BY <2>1, CountFacts DEF WorkCounted
<1>3. QED BY <1>1, <1>2 DEF WorkCounted, Exists

\* Recounting settles what was due.
LEMMA RecountSettles ==
  ASSUME NEW k \in Nat, NEW size \in Nat, NEW b \in BOOLEAN,
         size + (IF b THEN -1 ELSE 1) <= k
  PROVE  Recount(k, b) = k - (IF b THEN -1 ELSE 1)
<1>1. CASE b
  BY <1>1 DEF Recount
<1>2. CASE ~b
  BY <1>2 DEF Recount
<1>3. QED BY <1>1, <1>2

LEMMA ToggleCounted ==
  ASSUME NEW n, Desk(n), workers \in WorkerSets, Serial, ~cutShort, CountInv, NEW q \in workers,
         ToggleRow(q), UNCHANGED workers
  PROVE  \A p \in workers' : WorkCounted(deskReq[p])'
<1> DEFINE r == deskReq[q]
<1>1. /\ r \in DeskRequest /\ r.pc \in {"like", "unlike"} /\ DeskIdle.pc = "idle"
      /\ DOMAIN comments = 1..n /\ DOMAIN likes = 1..n /\ n \in Nat
  BY DeskFacts, DeskIdleType DEF ToggleRow
<1>2. UNCHANGED <<comments, likeCount, left>>
  BY DEF ToggleRow
<1>3. WorkCounted(r) /\ Cardinality(left) \in Nat
      /\ \A c \in 1..n : IsFiniteSet(likes[c]) /\ Cardinality(likes[c]) \in Nat
  BY CountFacts
<1>4. CASE r.pc = "like" /\ (~Exists(r.id) \/ r.user \in likes[r.id])
  <2>1. UNCHANGED likes /\ DeskGoto(q, DeskIdle)
    BY <1>4 DEF ToggleRow, DeskEnds
  <2>2. deskReq'[q] = DeskIdle
    BY <2>1, DeskGotoType
  <2>3. \A c : Due(DeskIdle, c) = Due(r, c)
    BY <1>1 DEF Due
  <2>4. QED BY <1>1, <1>2, <2>1, <2>2, <2>3, CountKeeps
<1>5. CASE ~(r.pc = "like" /\ (~Exists(r.id) \/ r.user \in likes[r.id]))
  <2>1. PICK add \in BOOLEAN : add = (r.pc = "like")
    OBVIOUS
  <2>2. PICK s, c, v : s = [r EXCEPT !.pc = "count", !.liked = add] /\ c = r.id /\ v = r.user
    OBVIOUS
  <2>3. s.pc = "count" /\ s.id = c /\ s.liked = add
    BY <1>1, <2>2 DEF DeskRequest
  <2>4. /\ deskReq'[q] = s
        /\ likes' = [likes EXCEPT ![c] = IF add THEN @ \cup {v} ELSE @ \ {v}]
    <3>1. DeskGoto(q, s)
      BY <1>5, <2>1, <2>2 DEF ToggleRow
    <3>2. deskReq'[q] = s
      BY <3>1, DeskGotoType
    <3>3. likes' = [likes EXCEPT ![r.id] = IF r.pc = "like" THEN @ \cup {r.user} ELSE @ \ {r.user}]
      BY <1>5 DEF ToggleRow
    <3>4. CASE r.pc = "like"
      BY <2>1, <2>2, <3>2, <3>3, <3>4
    <3>5. CASE r.pc # "like"
      BY <2>1, <2>2, <3>2, <3>3, <3>5
    <3>6. QED BY <3>4, <3>5
  <2>5. ASSUME NEW p \in workers' PROVE deskReq'[p] = s
    BY <2>4, Alone
  <2>6. IF add THEN v \notin likes[c] ELSE v \in likes[c]
    BY <1>1, <1>3, <2>1, <2>2 DEF WorkCounted
  <2>7. c \in 1..n
    BY <1>1, <2>2, DeskFacts DEF DeskWork
  <2>8. Cardinality(likes'[c]) + (IF add THEN -1 ELSE 1) = Cardinality(likes[c])
        /\ Cardinality(likes'[c]) \in Nat
    <3>1. CASE add
      <4>1. likes'[c] = likes[c] \cup {v}
        BY <1>1, <2>4, <2>7, <3>1
      <4>2. Cardinality(likes'[c]) = Cardinality(likes[c]) + 1
        BY <1>3, <2>6, <2>7, <3>1, <4>1, FS_AddElement
      <4>3. Cardinality(likes[c]) \in Nat
        BY <1>3, <2>7
      <4>4. QED BY <3>1, <4>2, <4>3
    <3>2. CASE ~add
      <4>1. likes'[c] = likes[c] \ {v} /\ IsFiniteSet(likes'[c])
        BY <1>1, <1>3, <2>4, <2>7, <3>2, FS_Subset
      <4>2. Cardinality(likes'[c]) = Cardinality(likes[c]) - 1
        BY <1>3, <2>6, <2>7, <3>2, <4>1, FS_RemoveElement
      <4>3. Cardinality(likes[c]) \in Nat /\ Cardinality(likes'[c]) \in Nat
        BY <1>3, <2>7, <4>1, FS_CardinalityType
      <4>4. QED BY <3>2, <4>2, <4>3
    <3>3. QED BY <3>1, <3>2
  <2>9. ASSUME NEW d \in 1..n, Exists(d)
        PROVE  /\ Cardinality(likes'[d]) + Due(s, d) <= likeCount[d]
               /\ likeCount[d] <= Cardinality(likes'[d]) + Due(s, d) + Cardinality(left)
    <3>1. /\ Cardinality(likes[d]) + Due(r, d) <= likeCount[d]
          /\ likeCount[d] <= Cardinality(likes[d]) + Due(r, d) + Cardinality(left)
      BY <1>1, <1>3, <2>9 DEF WorkCounted
    <3>2. Due(r, d) = 0 /\ Cardinality(likes[d]) \in Nat /\ Cardinality(left) \in Nat
      BY <1>1, <1>3 DEF Due
    <3>3. Cardinality(likes'[d]) + Due(s, d) = Cardinality(likes[d])
      <4>1. CASE d = c
        BY <2>3, <2>8, <4>1 DEF Due
      <4>2. CASE d # c
        <5>1. likes'[d] = likes[d] /\ Due(s, d) = 0
          BY <1>1, <2>3, <2>4, <4>2 DEF Due
        <5>2. QED BY <3>2, <5>1
      <4>3. QED BY <4>1, <4>2
    <3>4. QED BY <3>1, <3>2, <3>3
  <2>10. QED BY <1>1, <1>2, <2>3, <2>5, <2>9 DEF WorkCounted, Exists
<1>6. QED BY <1>4, <1>5

LEMMA WriteCounted ==
  ASSUME NEW n, Desk(n), workers \in WorkerSets, Serial, ~cutShort, CountInv, NEW q \in workers,
         WriteCount(q), UNCHANGED workers
  PROVE  \A p \in workers' : WorkCounted(deskReq[p])'
<1> DEFINE r == deskReq[q]
<1>1. /\ r \in DeskRequest /\ r.pc = "counted" /\ DeskIdle.pc = "idle"
      /\ DOMAIN comments = 1..n /\ DOMAIN likeCount = 1..n /\ n \in Nat
  BY DeskFacts, DeskIdleType DEF WriteCount, DeskAt
<1>2. UNCHANGED <<comments, likes, left>> /\ DeskGoto(q, DeskIdle)
  BY DEF WriteCount, DeskEnds
<1>3. WorkCounted(r) /\ Cardinality(left) \in Nat
      /\ \A c \in 1..n : IsFiniteSet(likes[c]) /\ Cardinality(likes[c]) \in Nat
  BY CountFacts
<1>4. PICK c, b : c = r.id /\ b = r.liked
  OBVIOUS
<1>5. b \in BOOLEAN /\ c \in 1..n
  BY <1>1, <1>4, DeskFacts DEF DeskRequest, DeskWork
<1>6. ASSUME NEW p \in workers' PROVE deskReq'[p] = DeskIdle
  BY <1>2, Alone, DeskGotoType
<1>7. ASSUME NEW d \in 1..n, Exists(d)
      PROVE  /\ Cardinality(likes[d]) <= likeCount'[d]
             /\ likeCount'[d] <= Cardinality(likes[d]) + Cardinality(left)
  <2>1. /\ Cardinality(likes[d]) + Due(r, d) <= likeCount[d]
        /\ likeCount[d] <= Cardinality(likes[d]) + Due(r, d) + Cardinality(left)
    BY <1>1, <1>3, <1>7 DEF WorkCounted
  <2>2. Cardinality(likes[d]) \in Nat /\ likeCount[d] \in Nat
    BY <1>3, DeskFacts
  <2>3. CASE d = c
    <3>1. Due(r, d) = IF b THEN -1 ELSE 1
      BY <1>1, <1>4, <2>3 DEF Due
    <3>2. likeCount'[d] = Recount(likeCount[d], b)
      <4>1. likeCount' = [likeCount EXCEPT ![c] = Recount(r.n, b)]
        BY <1>4, <1>7, <2>3 DEF WriteCount
      <4>2. r.n = likeCount[c]
        BY <1>1, <1>3, <1>4 DEF WorkCounted
      <4>3. QED BY <1>1, <2>3, <4>1, <4>2
    <3>3. likeCount'[d] = likeCount[d] - (IF b THEN -1 ELSE 1)
      BY <1>5, <2>1, <2>2, <3>1, <3>2, RecountSettles
    <3>4. CASE b
      BY <1>3, <2>1, <2>2, <3>1, <3>3, <3>4
    <3>5. CASE ~b
      BY <1>3, <2>1, <2>2, <3>1, <3>3, <3>5
    <3>6. QED BY <3>4, <3>5
  <2>4. CASE d # c
    <3>1. likeCount'[d] = likeCount[d] /\ Due(r, d) = 0
      BY <1>1, <1>4, <2>4 DEF Due, WriteCount
    <3>2. QED BY <1>3, <2>1, <2>2, <3>1
  <2>5. QED BY <2>3, <2>4
<1>8. ASSUME NEW d \in 1..n, Exists(d)
      PROVE  /\ Cardinality(likes[d]) + Due(DeskIdle, d) <= likeCount'[d]
             /\ likeCount'[d] <= Cardinality(likes[d]) + Due(DeskIdle, d) + Cardinality(left)
  <2>1. Due(DeskIdle, d) = 0 /\ Cardinality(likes[d]) \in Nat
    BY <1>1, <1>3 DEF Due
  <2>2. Cardinality(likes[d]) + Due(DeskIdle, d) = Cardinality(likes[d])
    BY <2>1
  <2>3. QED BY <1>7, <1>8, <2>2
<1>9. QED BY <1>1, <1>2, <1>6, <1>8 DEF WorkCounted, Exists

LEMMA LeaveCounted ==
  ASSUME NEW n, Desk(n), workers \in WorkerSets, Serial, ~cutShort, CountInv, NEW q \in workers,
         NEW u, NEW w, LeaveDesk(q, u, w), UNCHANGED workers
  PROVE  \A p \in workers' : WorkCounted(deskReq[p])'
<1> DEFINE r == deskReq[q]
<1>1. /\ r.pc = "idle" /\ DOMAIN comments = 1..n /\ DOMAIN likes = 1..n
      /\ UNCHANGED <<likeCount, deskReq>>
  BY DeskFacts DEF LeaveDesk, DeskAt
<1>2. WorkCounted(r) /\ IsFiniteSet(left) /\ Cardinality(left) \in Nat
      /\ \A c \in 1..n : IsFiniteSet(likes[c]) /\ Cardinality(likes[c]) \in Nat
  BY CountFacts
<1>3. Cardinality(left') = Cardinality(left) + 1
  BY <1>2, FS_AddElement DEF LeaveDesk
<1>4. DOMAIN comments' = 1..n /\ \A c \in 1..n : comments[c].state = "gone" => comments'[c] = comments[c]
  BY <1>1 DEF LeaveDesk, Exists
<1>5. ASSUME NEW c \in 1..n
      PROVE  /\ Cardinality(likes'[c]) \in Nat
             /\ Cardinality(likes'[c]) <= Cardinality(likes[c])
             /\ Cardinality(likes[c]) <= Cardinality(likes'[c]) + 1
  <2>1. likes'[c] = likes[c] \ {u} /\ IsFiniteSet(likes[c]) /\ Cardinality(likes[c]) \in Nat
    BY <1>1, <1>2 DEF LeaveDesk
  <2>2. CASE u \in likes[c]
    <3>1. Cardinality(likes'[c]) = Cardinality(likes[c]) - 1 /\ IsFiniteSet(likes'[c])
      BY <2>1, <2>2, FS_RemoveElement
    <3>2. Cardinality(likes'[c]) \in Nat
      BY <3>1, FS_CardinalityType
    <3>3. QED BY <2>1, <3>1, <3>2
  <2>3. CASE u \notin likes[c]
    <3>1. likes'[c] = likes[c]
      BY <2>1, <2>3
    <3>2. QED BY <2>1, <3>1
  <2>4. QED BY <2>2, <2>3
<1>6. ASSUME NEW c \in 1..n, comments'[c].state # "gone"
      PROVE  /\ Cardinality(likes'[c]) + Due(r, c) <= likeCount[c]
             /\ likeCount[c] <= Cardinality(likes'[c]) + Due(r, c) + Cardinality(left')
  <2>1. Exists(c)
    BY <1>1, <1>4, <1>6 DEF Exists
  <2>2. /\ Cardinality(likes[c]) + Due(r, c) <= likeCount[c]
        /\ likeCount[c] <= Cardinality(likes[c]) + Due(r, c) + Cardinality(left)
    BY <1>1, <1>2, <2>1 DEF WorkCounted
  <2>3. Due(r, c) = 0 /\ likeCount[c] \in Nat /\ Cardinality(likes[c]) \in Nat
    BY <1>1, <1>2, DeskFacts DEF Due
  <2>4. QED BY <1>2, <1>3, <1>5, <2>2, <2>3
<1>7. ASSUME NEW p \in workers' PROVE deskReq'[p] = deskReq[q]
  BY <1>1, Alone
<1>8. QED BY <1>1, <1>4, <1>6, <1>7 DEF WorkCounted, Exists

LEMMA CreationCounted ==
  ASSUME NEW n, Desk(n), workers \in WorkerSets, Serial, ~cutShort, CountInv, NEW q \in workers,
         CommentCreated(q), UNCHANGED workers
  PROVE  \A p \in workers' : WorkCounted(deskReq[p])'
<1> DEFINE r == deskReq[q]
<1>1. n \in Nat /\ r.pc = "create" /\ UNCHANGED left /\ DOMAIN comments = 1..n
      /\ DeskIdle.pc = "idle" /\ DeskGoto(q, DeskIdle)
  BY DeskFacts, DeskIdleType DEF CommentCreated, DeskAt, DeskEnds
<1>2. DOMAIN comments' = 1..n + 1
  BY CommentCreatedTyped DEF Desk
<1>3. \A c \in 1..n : comments'[c] = comments[c]
  <2>1. PICK row : row = [author |-> r.user, state |-> "live", is_moderated |-> r.held,
                          requires_approval |-> r.held, approved_at |-> FALSE, cleared |-> FALSE]
    OBVIOUS
  <2>2. r.user \in Commenters /\ r.held \in BOOLEAN
    BY <1>1, DeskFacts DEF DeskWork, DeskRequest
  <2>3. row \in CommentRow
    BY <2>1, <2>2 DEF CommentRow
  <2>4. comments' = Append(comments, row)
    BY <2>1 DEF CommentCreated
  <2>5. QED BY <1>1, <2>3, <2>4, Appended DEF Desk
<1>4. likes'[n + 1] = {} /\ \A c \in 1..n : likes'[c] = likes[c]
  <2>1. {} \in SUBSET Likers /\ likes' = Append(likes, {})
    BY DEF CommentCreated
  <2>2. QED BY <1>1, <2>1, Appended DEF Desk
<1>5. likeCount'[n + 1] = 0 /\ \A c \in 1..n : likeCount'[c] = likeCount[c]
  <2>1. 0 \in 0..MaxLikeCount /\ likeCount' = Append(likeCount, 0)
    BY DeskNumbers DEF CommentCreated
  <2>2. QED BY <1>1, <2>1, Appended DEF Desk
<1>6. WorkCounted(r) /\ Cardinality(left) \in Nat
  BY CountFacts
<1>7. \A c : Due(r, c) = 0 /\ Due(DeskIdle, c) = 0
  BY <1>1 DEF Due
<1>8. ASSUME NEW c \in 1..n + 1, comments'[c].state # "gone"
      PROVE  /\ Cardinality(likes'[c]) + Due(DeskIdle, c) <= likeCount'[c]
             /\ likeCount'[c] <= Cardinality(likes'[c]) + Due(DeskIdle, c) + Cardinality(left)
  <2>1. CASE c \in 1..n
    <3>1. Exists(c) /\ c \in DOMAIN comments
      BY <1>1, <1>3, <1>8, <2>1 DEF Exists
    <3>2. QED BY <1>4, <1>5, <1>6, <1>7, <2>1, <3>1 DEF WorkCounted
  <2>2. CASE c = n + 1
    <3>1. Cardinality(likes'[c]) = 0 /\ likeCount'[c] = 0
      BY <1>4, <1>5, <2>2, FS_EmptySet
    <3>2. QED BY <1>6, <1>7, <3>1
  <2>3. QED BY <1>1, <2>1, <2>2
<1>9. ASSUME NEW p \in workers' PROVE deskReq'[p] = DeskIdle
  BY <1>1, Alone, DeskGotoType
<1>10. QED BY <1>1, <1>2, <1>8, <1>9 DEF WorkCounted, Exists

LEMMA CountNext ==
  ASSUME DeskTyped, CountInv, [CommentDeskNext]_deskVars
  PROVE  CountInv'
<1>1. CASE UNCHANGED deskVars
  BY <1>1 DEF deskVars, CountInv, LikesFinite, WorkCounted, Exists, Serial
<1>2. ASSUME NEW q \in workers, DeskStep(q), UNCHANGED workers PROVE CountInv'
  <2>1. PICK n : Desk(n)
    BY DEF DeskTyped
  <2>2. workers \in WorkerSets /\ DOMAIN comments = 1..n /\ n \in Nat
    BY <2>1, DeskFacts DEF DeskTyped
  <2>3. LikesFinite'
    BY <1>2, <2>1, <2>2, LikesStayFinite DEF CountInv
  <2> DEFINE r == deskReq[q]
             Counted == \A p \in workers' : WorkCounted(deskReq[p])'
  <2>4. cutShort => cutShort'
    BY <1>2 DEF DeskStep, CreateComment, CommentCreated, CommentApproved, Credit, Credited,
                SetComment, ModerateComment, RemoveComment, RestoreComment, DeleteComment,
                ApproveComment, ToggleLike, ToggleRow, ReadCount, WriteCount, DeskDies, LeaveDesk
  <2>5. SUFFICES ASSUME Serial, ~cutShort, ~cutShort' PROVE Counted
    BY <1>2, <2>3, <2>4 DEF CountInv, Serial
  <2>6. r \in DeskWork(n) /\ r \in DeskRequest /\ DeskIdle.pc = "idle" /\ WorkCounted(r)
    BY <2>1, <2>2, <2>5, DeskFacts, DeskIdleType, CountFacts
  <2>7. ASSUME NEW s, deskReq'[q] = s, UNCHANGED <<likes, likeCount, left>>,
               s.pc \notin {"like", "unlike", "count", "counted"}, DOMAIN comments' = 1..n,
               \A c \in 1..n : comments[c].state = "gone" => comments'[c].state = "gone",
               r.pc \notin {"count", "counted"}
        PROVE  Counted
    <3>1. \A c : Due(s, c) = Due(r, c)
      BY <2>7 DEF Due
    <3>2. QED BY <1>2, <2>1, <2>2, <2>5, <2>7, <3>1, CountKeeps
  <2>8. ASSUME NEW s, DeskGoto(q, s) PROVE deskReq'[q] = s
    BY <2>1, <2>2, <2>8, DeskGotoType
  <2>9. ASSUME NEW c \in 1..n, NEW row, SetComment(q, c, row) PROVE Counted
    <3>1. r.pc = "idle" /\ UNCHANGED <<likes, likeCount, left, deskReq>>
          /\ comments' = [comments EXCEPT ![c] = row] /\ Exists(c)
      BY <2>9 DEF SetComment, DeskAt
    <3>2. DOMAIN comments' = 1..n
          /\ \A d \in 1..n : comments[d].state = "gone" => comments'[d] = comments[d]
      BY <2>2, <3>1 DEF Exists
    <3>3. QED BY <2>7, <3>1, <3>2
  <2>10. ASSUME NEW u \in Commenters, CreateComment(q, u) PROVE Counted
    <3>1. PICK s : s = [DeskIdle EXCEPT !.pc = "create", !.user = u, !.held = HeldBack(u)]
      OBVIOUS
    <3>2. s.pc = "create"
      BY <2>2, <3>1, DeskIdleType DEF DeskRequest
    <3>3. DeskGoto(q, s) /\ UNCHANGED <<comments, likes, likeCount, left>> /\ r.pc = "idle"
      BY <2>10, <3>1 DEF CreateComment, DeskAt
    <3>4. QED BY <2>2, <2>7, <2>8, <3>2, <3>3
  <2>11. CASE CommentCreated(q)
    BY <1>2, <2>1, <2>2, <2>5, <2>11, CreationCounted
  <2>12. CASE CommentApproved(q)
    <3>1. r.pc = "approve" /\ UNCHANGED <<likes, likeCount, left>>
      BY <2>12 DEF CommentApproved, DeskAt
    <3>2. CASE ~Exists(r.id)
      BY <2>2, <2>6, <2>7, <2>8, <2>12, <3>1, <3>2 DEF CommentApproved, DeskEnds
    <3>3. CASE Exists(r.id)
      <4>1. PICK s, c : s = [r EXCEPT !.pc = "credit"] /\ c = r.id
        OBVIOUS
      <4>2. s.pc = "credit" /\ Exists(c)
        BY <2>6, <3>3, <4>1 DEF DeskRequest
      <4>3. DeskGoto(q, s) /\ DOMAIN comments' = 1..n
            /\ \A d \in 1..n \ {c} : comments'[d] = comments[d]
        BY <2>2, <2>12, <3>3, <4>1 DEF CommentApproved
      <4>4. \A d \in 1..n : comments[d].state = "gone" => comments'[d].state = "gone"
        BY <4>2, <4>3 DEF Exists
      <4>5. QED BY <2>7, <2>8, <3>1, <4>2, <4>3, <4>4
    <3>4. QED BY <3>2, <3>3
  <2>13. CASE Credit(q)
    <3>1. PICK s : s = [r EXCEPT !.pc = "credited", !.n = approved[r.user]]
      OBVIOUS
    <3>2. s.pc = "credited"
      BY <2>6, <3>1 DEF DeskRequest
    <3>3. DeskGoto(q, s) /\ UNCHANGED <<comments, likes, likeCount, left>> /\ r.pc = "credit"
      BY <2>13, <3>1 DEF Credit, DeskAt
    <3>4. QED BY <2>2, <2>7, <2>8, <3>2, <3>3
  <2>14. CASE Credited(q)
    BY <2>2, <2>6, <2>7, <2>8, <2>14 DEF Credited, DeskEnds, DeskAt
  <2>15. ASSUME NEW c \in DOMAIN comments, NEW on \in BOOLEAN,
                \/ ModerateComment(q, c, on) \/ RemoveComment(q, c) \/ RestoreComment(q, c)
         PROVE  Counted
    BY <2>2, <2>9, <2>15 DEF ModerateComment, RemoveComment, RestoreComment
  <2>16. ASSUME NEW c \in DOMAIN comments, DeleteComment(q, c) PROVE Counted
    <3>1. /\ r.pc = "idle" /\ UNCHANGED <<likeCount, left, deskReq>>
          /\ comments' = [comments EXCEPT ![c].state = "gone"]
          /\ likes' = [likes EXCEPT ![c] = {}]
      BY <2>16 DEF DeleteComment, DeskAt
    <3>2. /\ DOMAIN comments' = 1..n /\ comments'[c].state = "gone"
          /\ \A d \in 1..n \ {c} : comments'[d] = comments[d] /\ likes'[d] = likes[d]
      BY <2>1, <2>2, <3>1, DeskFacts DEF CommentRow
    <3>3. ASSUME NEW d \in 1..n, comments'[d].state # "gone"
          PROVE  /\ Cardinality(likes'[d]) + Due(r, d) <= likeCount[d]
                 /\ likeCount[d] <= Cardinality(likes'[d]) + Due(r, d) + Cardinality(left)
      <4>1. d # c /\ Exists(d) /\ d \in DOMAIN comments
        BY <2>2, <3>2, <3>3 DEF Exists
      <4>2. QED BY <2>6, <3>2, <4>1 DEF WorkCounted
    <3>4. ASSUME NEW p \in workers' PROVE deskReq'[p] = deskReq[q]
      BY <1>2, <2>2, <2>5, <3>1, Alone
    <3>5. QED BY <3>1, <3>2, <3>3, <3>4 DEF WorkCounted, Exists
  <2>17. ASSUME NEW c \in DOMAIN comments, ApproveComment(q, c) PROVE Counted
    <3>1. PICK s : s = [DeskIdle EXCEPT !.pc = "approve", !.id = c, !.user = comments[c].author]
      OBVIOUS
    <3>2. s.pc = "approve"
      BY <2>2, <3>1, DeskIdleType DEF DeskRequest
    <3>3. DeskGoto(q, s) /\ UNCHANGED <<comments, likes, likeCount, left>> /\ r.pc = "idle"
      BY <2>17, <3>1 DEF ApproveComment, DeskAt
    <3>4. QED BY <2>2, <2>7, <2>8, <3>2, <3>3
  <2>18. ASSUME NEW c \in DOMAIN comments, NEW u \in Likers, ToggleLike(q, c, u) PROVE Counted
    <3>1. PICK s : s = [DeskIdle EXCEPT !.id = c, !.user = u,
                                        !.pc = IF u \in likes[c] THEN "unlike" ELSE "like"]
      OBVIOUS
    <3>2. /\ s.pc = (IF u \in likes[c] THEN "unlike" ELSE "like") /\ s.id = c /\ s.user = u
      BY <2>2, <3>1, DeskIdleType DEF DeskRequest
    <3>3. DeskGoto(q, s) /\ UNCHANGED <<comments, likes, likeCount, left>> /\ r.pc = "idle"
      BY <2>18, <3>1 DEF ToggleLike, DeskAt
    <3>4. \A d : Due(s, d) = Due(r, d)
      BY <3>2, <3>3 DEF Due
    <3>5. QED BY <1>2, <2>1, <2>2, <2>5, <2>8, <3>2, <3>3, <3>4, CountKeeps
  <2>19. CASE ToggleRow(q)
    BY <1>2, <2>1, <2>2, <2>5, <2>19, ToggleCounted
  <2>20. CASE ReadCount(q)
    <3>1. r.pc = "count" /\ UNCHANGED <<comments, likes, likeCount, left>>
      BY <2>20 DEF ReadCount, DeskAt
    <3>2. CASE Exists(r.id)
      <4>1. PICK s, c : s = [r EXCEPT !.pc = "counted", !.n = likeCount[r.id]] /\ c = r.id
        OBVIOUS
      <4>2. s.pc = "counted" /\ s.id = r.id /\ s.n = likeCount[r.id] /\ s.liked = r.liked
        BY <2>6, <4>1 DEF DeskRequest
      <4>3. DeskGoto(q, s)
        BY <2>20, <3>2, <4>1 DEF ReadCount
      <4>4. \A d : Due(s, d) = Due(r, d)
        BY <3>1, <4>2 DEF Due
      <4>5. QED BY <1>2, <2>1, <2>2, <2>5, <2>8, <3>1, <4>2, <4>3, <4>4, CountKeeps
    <3>3. CASE ~Exists(r.id)
      <4>1. DeskGoto(q, DeskIdle)
        BY <2>20, <3>3 DEF ReadCount, DeskEnds
      <4>2. \A d : Exists(d) => Due(DeskIdle, d) = Due(r, d)
        BY <2>6, <3>3 DEF Due
      <4>3. QED BY <1>2, <2>1, <2>2, <2>5, <2>6, <2>8, <3>1, <4>1, <4>2, CountKeeps
    <3>4. QED BY <3>2, <3>3
  <2>21. CASE WriteCount(q)
    BY <1>2, <2>1, <2>2, <2>5, <2>21, WriteCounted
  <2>22. CASE DeskDies(q)
    BY <2>2, <2>5, <2>6, <2>7, <2>8, <2>22 DEF DeskDies, DeskEnds
  <2>23. ASSUME NEW u \in DeskUser, NEW w \in BOOLEAN, LeaveDesk(q, u, w) PROVE Counted
    BY <1>2, <2>1, <2>2, <2>5, <2>23, LeaveCounted
  <2>24. QED
    BY <1>2, <2>10, <2>11, <2>12, <2>13, <2>14, <2>15, <2>16, <2>17, <2>18, <2>19, <2>20, <2>21,
       <2>22, <2>23 DEF DeskStep
<1>3. QED BY <1>1, <1>2 DEF CommentDeskNext

LEMMA CountInit ==
  ASSUME CommentDeskInit PROVE CountInv
<1>1. \A q \in workers : deskReq[q] = DeskIdle
  BY WorkersCounted DEF CommentDeskInit, WorkersInit
<1>2. DeskIdle.pc = "idle"
  BY DeskIdleType
<1>3. QED BY <1>1, <1>2, FS_EmptySet DEF CommentDeskInit, CountInv, LikesFinite, WorkCounted

LEMMA CountImplies ==
  ASSUME DeskTyped, CountInv PROVE LikesCounted
<1>1. ASSUME Serial, ~cutShort, AtRest, NEW c \in DOMAIN comments, Exists(c)
      PROVE  /\ Cardinality(likes[c]) <= likeCount[c]
             /\ likeCount[c] <= Cardinality(likes[c]) + Cardinality(left)
  <2>1. PICK n : Desk(n)
    BY DEF DeskTyped
  <2>2. PICK q \in workers : TRUE
    BY WorkersCounted, FS_EmptySet DEF DeskTyped
  <2>3. /\ WorkCounted(deskReq[q]) /\ Cardinality(left) \in Nat
        /\ Cardinality(likes[c]) \in Nat
    BY <1>1, <2>1, CountFacts, DeskFacts DEF DeskTyped
  <2>4. Due(deskReq[q], c) = 0
    BY <1>1 DEF AtRest, Due
  <2>5. QED BY <1>1, <2>3, <2>4 DEF WorkCounted
<1>2. QED BY <1>1 DEF LikesCounted

\* With one handler at a time and none cut short, a comment's like_count is the
\* number of users who like it, and of some who did and have left.
THEOREM LikesAreCounted == CommentDeskSpec => []LikesCounted
<1>1. CommentDeskInit => DeskTyped /\ CountInv
  BY DeskTypedInit, CountInit
<1>2. DeskTyped /\ CountInv /\ [CommentDeskNext]_deskVars => DeskTyped' /\ CountInv'
  BY DeskTypedNext, CountNext
<1>3. DeskTyped /\ CountInv => LikesCounted
  BY CountImplies
<1>4. QED BY <1>1, <1>2, <1>3, PTL DEF CommentDeskSpec
=============================================================================
