------------------------ MODULE ContentFlags_proofs ------------------------
(* Safety of ContentFlags for every set of users, contents and request slots. *)
EXTENDS ContentFlags, FiniteSetTheorems, TLAPS

-----------------------------------------------------------------------------
(* Values *)

\* calculate_trust_score clamps: a score is always between 0 and 100.
LEMMA TrustScoreType ==
  ASSUME NEW u \in Users, NEW row, row.valid \in Nat, row.validated \in Nat
  PROVE  TrustScore(u, row) \in 0..100
<1>1. \A n \in Int : Clamp(n) \in 0..100
  BY DEF Clamp
<1>2. ReporterBonus(row.validated) \in Int
  BY DEF ReporterBonus
<1>3. Standing[u] \in Int
  BY PeopleAssumption
<1>4. 50 + Standing[u] + ReporterBonus(row.validated) - 10 * row.valid \in Int
  BY <1>2, <1>3
<1>5. QED BY <1>1, <1>4 DEF TrustScore

\* A new user's row, the idle request and what they hold are of their types.
LEMMA InitialRows ==
  /\ \A u \in Users : NewUser(u) \in UserRow
  /\ NewContent \in ContentRow
  /\ Idle \in Request
<1>1. \A u \in Users : NewUser(u) \in UserRow
  <2>1. SUFFICES ASSUME NEW u \in Users PROVE NewUser(u) \in UserRow
    OBVIOUS
  <2>2. TrustScore(u, [validated |-> 0, valid |-> 0]) \in 0..100
    BY TrustScoreType
  <2>3. QED BY <2>2 DEF NewUser, UserRow
<1>2. NewContent \in ContentRow
  BY DEF NewContent, ContentRow
<1>3. Idle \in Request
  BY <1>1, PeopleAssumption
     DEF Idle, Request, AnyContent, Steps, Counters, Columns, ColumnsOf, NewContent
<1>4. QED BY <1>1, <1>2, <1>3

\* The pending flags of a content are finitely many, so their count is a number.
LEMMA PendingCountType ==
  ASSUME lastId \in Nat, NEW c
  PROVE  PendingCount(c) \in Nat
<1>1. IsFiniteSet(Ids)
  BY FS_Interval DEF Ids
<1>2. Pending(c) \subseteq Ids
  BY DEF Pending
<1>3. QED BY <1>1, <1>2, FS_Subset, FS_CardinalityType DEF PendingCount

\* A request record keeps its type when it moves on.
LEMMA GotoType ==
  ASSUME TypeOK, NEW q \in Requests, NEW r \in Request, Goto(q, r)
  PROVE  req' \in [Requests -> Request]
BY DEF TypeOK, Goto

LEMMA FinishType ==
  ASSUME TypeOK, NEW q \in Requests, Finish(q)
  PROVE  req' \in [Requests -> Request]
BY GotoType, InitialRows DEF Finish

\* Inserting a row and changing the status of rows keep the table's type.
LEMMA InsertType ==
  ASSUME TypeOK, NEW c \in Contents, NEW u \in Users, NEW auto \in BOOLEAN,
         Insert(c, u, auto)
  PROVE  lastId' \in Nat /\ flags' \in [Ids' -> FlagRow]
BY DEF TypeOK, Insert, Ids, FlagRow, FlagStatus

LEMMA MarkType ==
  ASSUME TypeOK, NEW ids, NEW status \in FlagStatus, Mark(ids, status),
         UNCHANGED lastId
  PROVE  lastId' \in Nat /\ flags' \in [Ids' -> FlagRow]
BY DEF TypeOK, Mark, Ids, FlagRow, Live


\* Writing back what a request recomputed keeps the rows' types.
LEMMA WriteContentType ==
  ASSUME TypeOK, NEW c \in Contents, NEW old \in Columns, NEW new \in Columns,
         WriteContent(c, old, new)
  PROVE  content' \in [Contents -> ContentRow]
<1>1. content[c] \in ContentRow
  BY DEF TypeOK
<1>2. MergedContent(content[c], old, new) \in ContentRow
  BY <1>1 DEF MergedContent, Changed, Columns, ContentRow
<1>3. QED BY <1>2 DEF TypeOK, WriteContent

LEMMA WriteUserType ==
  ASSUME TypeOK, NEW u \in Users, NEW old \in UserRow, NEW new \in UserRow,
         WriteUser(u, old, new)
  PROVE  users' \in [Users -> UserRow]
<1>1. users[u] \in UserRow
  BY DEF TypeOK
<1>2. MergedUser(users[u], old, new) \in UserRow
  BY <1>1 DEF MergedUser, Changed, UserRow
<1>3. QED BY <1>2 DEF TypeOK, WriteUser

\* The recomputed columns, and the recomputed user row, are of their types.
LEMMA SavedContentType ==
  ASSUME NEW r \in Request
  PROVE  SavedContent(r) \in Columns
BY ThresholdAssumption DEF SavedContent, Recounted, Unhidden, Columns, Request

LEMMA SavedUserType ==
  ASSUME NEW u \in Users, NEW row \in UserRow, NEW k \in Counters
  PROVE  Rescored(u, Counted(row, k), k) \in UserRow
<1> DEFINE counted == Counted(row, k)
<1>1. counted \in UserRow
  BY DEF Counted, Counters, UserRow
<1>2. TrustScore(u, counted) \in 0..100
  BY <1>1, TrustScoreType DEF UserRow
<1>3. QED BY <1>1, <1>2 DEF Rescored, UserRow

\* What a request goes on with after it saved a content or a user.
LEMMA AfterType ==
  ASSUME NEW r \in Request
  PROVE  AfterContent(r) \in Request /\ AfterUser(r) \in Request
<1>1. Author[r.c] \in Users
  BY PeopleAssumption DEF Request
<1>2. AfterContent(r) \in Request
  <2>1. CASE r.op = "retract"
    BY <2>1, InitialRows DEF AfterContent
  <2>2. CASE r.op = "create"
    BY <1>1, <2>2, InitialRows DEF AfterContent, Request, Steps, Counters
  <2>3. CASE r.op \notin {"retract", "create"}
    BY <1>1, <2>3, InitialRows DEF AfterContent, Request, Steps, Counters
  <2>4. QED BY <2>1, <2>2, <2>3
<1>3. AfterUser(r) \in Request
  BY InitialRows, PeopleAssumption DEF AfterUser, Request, Steps, Counters
<1>4. QED BY <1>2, <1>3
-----------------------------------------------------------------------------
(* Type correctness *)

LEMMA InitTyped == Init => TypeOK
BY InitialRows DEF Init, TypeOK, Ids

LEMMA ArrivalTyped ==
  ASSUME TypeOK, NEW q \in Requests, Arrival(q)
  PROVE  TypeOK'
<1> USE PeopleAssumption
<1>1. ASSUME NEW c \in Contents, Post(q, c) PROVE TypeOK'
  <2>1. [Idle EXCEPT !.pc = "watch", !.op = "post", !.c = c] \in Request
    BY InitialRows DEF Request, Steps
  <2>2. req' \in [Requests -> Request]
    BY <1>1, <2>1, GotoType DEF Post
  <2>3. content' \in [Contents -> ContentRow]
    BY <1>1 DEF TypeOK, Post, ContentRow
  <2>4. QED BY <1>1, <2>2, <2>3 DEF TypeOK, Post, Ids
<1>2. ASSUME NEW c \in Contents, Restore(q, c) PROVE TypeOK'
  <2>1. content' \in [Contents -> ContentRow]
    BY <1>2 DEF TypeOK, Restore, ContentRow
  <2>2. QED BY <1>2, <2>1 DEF TypeOK, Restore, Ids
<1>3. ASSUME NEW c \in Contents, Erase(q, c) PROVE TypeOK'
  <2>1. content' \in [Contents -> ContentRow]
    BY <1>3 DEF TypeOK, Erase, ContentRow
  <2>2. QED BY <1>3, <2>1 DEF TypeOK, Erase, Ids
<1>4. ASSUME NEW c \in Contents, NEW u \in Users, CreateFlag(q, c, u) PROVE TypeOK'
  <2>1. [Idle EXCEPT !.pc = "insert", !.op = "create", !.c = c, !.who = u] \in Request
    BY InitialRows DEF Request, Steps
  <2>2. req' \in [Requests -> Request]
    BY <1>4, <2>1, GotoType DEF CreateFlag
  <2>3. QED BY <1>4, <2>2 DEF TypeOK, CreateFlag, Ids
<1>5. ASSUME NEW i \in Ids, NEW u \in Users, RetractFlag(q, i, u) PROVE TypeOK'
  <2>1. i \in Nat \ {0} /\ flags[i].content \in Contents
    BY DEF TypeOK, Ids, FlagRow
  <2>2. [Idle EXCEPT !.pc = "delete", !.op = "retract", !.c = flags[i].content,
                     !.who = u, !.ids = {i}] \in Request
    BY <2>1, InitialRows DEF Request, Steps
  <2>3. req' \in [Requests -> Request]
    BY <1>5, <2>2, GotoType DEF RetractFlag
  <2>4. QED BY <1>5, <2>3 DEF TypeOK, RetractFlag, Ids
<1>6. ASSUME NEW ids \in SUBSET Ids, NEW c \in Contents,
             NEW action \in {"dismiss", "action"}, ReviewFlags(q, ids, c, action)
      PROVE  TypeOK'
  <2>1. ids \in SUBSET (Nat \ {0})
    BY DEF TypeOK, Ids
  <2>2. [Idle EXCEPT !.pc = "mark", !.op = action, !.c = c, !.ids = ids] \in Request
    BY <2>1, InitialRows DEF Request, Steps
  <2>3. req' \in [Requests -> Request]
    BY <1>6, <2>2, GotoType DEF ReviewFlags
  <2>4. QED BY <1>6, <2>3 DEF TypeOK, ReviewFlags, Ids
<1>7. QED BY <1>1, <1>2, <1>3, <1>4, <1>5, <1>6 DEF Arrival

LEMMA StepTyped ==
  ASSUME TypeOK, NEW q \in Requests, Step(q)
  PROVE  TypeOK'
<1> DEFINE r == req[q]
<1> USE PeopleAssumption
<1>0. r \in Request
  BY DEF TypeOK
<1>1. CASE Watch(q)
  <2>1. req' \in [Requests -> Request]
    BY <1>1, FinishType DEF Watch
  <2>2. lastId' \in Nat /\ flags' \in [Ids' -> FlagRow]
    <3>1. CASE Insert(r.c, System, TRUE)
      BY <1>0, <3>1, InsertType DEF Request
    <3>2. CASE UNCHANGED <<lastId, flags>>
      BY <3>2 DEF TypeOK, Ids
    <3>3. QED BY <1>1, <3>1, <3>2 DEF Watch
  <2>3. QED BY <1>1, <2>1, <2>2 DEF TypeOK, Watch
<1>2. CASE InsertFlag(q)
  <2>1. CASE Flagged(r.c, r.who)
    <3>1. req' \in [Requests -> Request]
      BY <1>2, <2>1, FinishType DEF InsertFlag
    <3>2. QED BY <1>2, <2>1, <3>1 DEF TypeOK, InsertFlag, Ids
  <2>2. CASE ~Flagged(r.c, r.who)
    <3>1. [r EXCEPT !.pc = "count"] \in Request
      BY <1>0 DEF Request, Steps
    <3>2. req' \in [Requests -> Request]
      BY <1>2, <2>2, <3>1, GotoType DEF InsertFlag
    <3>3. lastId' \in Nat /\ flags' \in [Ids' -> FlagRow]
      BY <1>0, <1>2, <2>2, InsertType DEF InsertFlag, Request
    <3>4. QED BY <1>2, <3>2, <3>3 DEF TypeOK, InsertFlag
  <2>3. QED BY <2>1, <2>2
<1>3. CASE DeleteRow(q)
  <2>1. [r EXCEPT !.pc = "count"] \in Request
    BY <1>0 DEF Request, Steps
  <2>2. req' \in [Requests -> Request]
    BY <1>3, <2>1, GotoType DEF DeleteRow
  <2>3. lastId' \in Nat /\ flags' \in [Ids' -> FlagRow]
    BY <1>3, MarkType DEF DeleteRow, FlagStatus
  <2>4. QED BY <1>3, <2>2, <2>3 DEF TypeOK, DeleteRow
<1>4. CASE MarkRows(q)
  <2>1. /\ [r EXCEPT !.pc = "load"] \in Request
        /\ [r EXCEPT !.pc = "remove"] \in Request
    BY <1>0 DEF Request, Steps
  <2>2. req' \in [Requests -> Request]
    BY <1>4, <2>1, GotoType DEF MarkRows
  <2>3. lastId' \in Nat /\ flags' \in [Ids' -> FlagRow]
    BY <1>4, MarkType DEF MarkRows, FlagStatus
  <2>4. QED BY <1>4, <2>2, <2>3 DEF TypeOK, MarkRows
<1>5. CASE CountPending(q)
  <2>1. PendingCount(r.c) \in Nat
    BY PendingCountType DEF TypeOK
  <2>2. [r EXCEPT !.pc = "load", !.n = PendingCount(r.c)] \in Request
    BY <1>0, <2>1 DEF Request, Steps
  <2>3. req' \in [Requests -> Request]
    BY <1>5, <2>2, GotoType DEF CountPending
  <2>4. QED BY <1>5, <2>3 DEF TypeOK, CountPending, Ids
<1>6. CASE LoadContent(q)
  <2>1. ColumnsOf(content[r.c]) \in Columns
    BY <1>0 DEF TypeOK, Request, ContentRow, ColumnsOf, Columns
  <2>2. [r EXCEPT !.pc = "save", !.row = ColumnsOf(content[r.c])] \in Request
    BY <1>0, <2>1 DEF Request, Steps
  <2>3. req' \in [Requests -> Request]
    BY <1>0, <1>6, <2>2, AfterType, GotoType DEF LoadContent
  <2>4. QED BY <1>6, <2>3 DEF TypeOK, LoadContent, Ids
<1>7. CASE SaveContent(q)
  <2>1. CASE content[r.c].state = "gone" /\ SavedContent(r) # r.row
    <3>1. req' \in [Requests -> Request]
      BY <1>7, <2>1, FinishType DEF SaveContent
    <3>2. QED BY <1>7, <2>1, <3>1 DEF TypeOK, SaveContent, Ids
  <2>2. CASE ~(content[r.c].state = "gone" /\ SavedContent(r) # r.row)
    <3>1. WriteContent(r.c, r.row, SavedContent(r)) /\ Goto(q, AfterContent(r))
      BY <1>7, <2>2 DEF SaveContent
    <3>2. req' \in [Requests -> Request]
      BY <1>0, <3>1, AfterType, GotoType
    <3>3. content' \in [Contents -> ContentRow]
      BY <1>0, <3>1, SavedContentType, WriteContentType DEF Request
    <3>4. QED BY <1>7, <3>2, <3>3 DEF TypeOK, SaveContent, Ids
  <2>3. QED BY <2>1, <2>2
<1>8. CASE Remove(q)
  <2>1. /\ [r EXCEPT !.pc = "load_user", !.who = Author[r.c], !.counter = "valid"] \in Request
        /\ [r EXCEPT !.pc = "reward"] \in Request
    BY <1>0 DEF Request, Steps, Counters
  <2>2. req' \in [Requests -> Request]
    BY <1>8, <2>1, GotoType, FinishType DEF Remove
  <2>3. content' \in [Contents -> ContentRow]
    <3>1. CASE content' = [content EXCEPT ![r.c].removed = TRUE]
      <4>1. r.c \in Contents /\ content[r.c] \in ContentRow
        BY <1>0 DEF TypeOK, Request
      <4>2. [content[r.c] EXCEPT !.removed = TRUE] \in ContentRow
        BY <4>1 DEF ContentRow
      <4>3. QED BY <3>1, <4>1, <4>2 DEF TypeOK
    <3>2. CASE UNCHANGED content
      BY <3>2 DEF TypeOK
    <3>3. QED BY <1>8, <3>1, <3>2 DEF Remove
  <2>4. QED BY <1>8, <2>2, <2>3 DEF TypeOK, Remove, Ids
<1>9. CASE Reward(q)
  <2>1. ASSUME r.ids \subseteq LiveIds
        PROVE  {flags[i].reporter : i \in r.ids} \in SUBSET Users
    BY <2>1 DEF TypeOK, LiveIds, FlagRow
  <2>2. ASSUME r.ids \subseteq LiveIds
        PROVE  [Idle EXCEPT !.pc = "load_user", !.op = "action", !.c = r.c,
                            !.counter = "validated",
                            !.todo = {flags[i].reporter : i \in r.ids}] \in Request
    BY <1>0, <2>1, <2>2, InitialRows DEF Request, Steps, Counters
  <2>3. req' \in [Requests -> Request]
    BY <1>9, <2>2, GotoType, InitialRows DEF Reward
  <2>4. QED BY <1>9, <2>3 DEF TypeOK, Reward, Ids
<1>10. CASE LoadUser(q)
  <2>1. ASSUME NEW u \in Targets(r)
        PROVE  [r EXCEPT !.pc = "save_user", !.who = u, !.user = users[u],
                         !.todo = @ \ {u}] \in Request
    <3>1. u \in Users
      BY <1>0 DEF Targets, Request
    <3>2. users[u] \in UserRow
      BY <3>1 DEF TypeOK
    <3>3. QED BY <1>0, <3>1, <3>2 DEF Request, Steps
  <2>2. req' \in [Requests -> Request]
    BY <1>10, <2>1, GotoType, FinishType DEF LoadUser
  <2>3. QED BY <1>10, <2>2 DEF TypeOK, LoadUser, Ids
<1>11. CASE SaveUser(q)
  <2>1. req' \in [Requests -> Request]
    BY <1>0, <1>11, AfterType, GotoType DEF SaveUser
  <2>2. r.who \in Users /\ r.user \in UserRow /\ r.counter \in Counters
    BY <1>0 DEF Request
  <2>3. users' \in [Users -> UserRow]
    BY <1>11, <2>2, SavedUserType, WriteUserType DEF SaveUser
  <2>4. QED BY <1>11, <2>1, <2>3 DEF TypeOK, SaveUser, Ids
<1>12. QED
  BY <1>1, <1>2, <1>3, <1>4, <1>5, <1>6, <1>7, <1>8, <1>9, <1>10, <1>11 DEF Step

LEMMA NextTyped == TypeOK /\ [Next]_vars => TypeOK'
<1>1. SUFFICES ASSUME TypeOK, [Next]_vars PROVE TypeOK'
  OBVIOUS
<1>2. ASSUME NEW q \in Requests, Fail(q) PROVE TypeOK'
  <2>1. req' \in [Requests -> Request]
    BY <1>1, <1>2, FinishType DEF Fail
  <2>2. QED BY <1>1, <1>2, <2>1 DEF TypeOK, Fail, Ids
<1>3. CASE UNCHANGED vars
  BY <1>1, <1>3 DEF TypeOK, vars, Ids
<1>4. QED BY <1>1, <1>2, <1>3, ArrivalTyped, StepTyped DEF Next

\* Every reachable state is well typed: in particular the counters stay
\* natural numbers and the trust scores within 0..100.
THEOREM TypeCorrect == Spec => []TypeOK
BY InitTyped, NextTyped, PTL DEF Spec
-----------------------------------------------------------------------------
(* Rows are only added to the flag table, and keep what they are about *)

RowsKept ==
  /\ Ids \subseteq Ids'
  /\ \A i \in Ids :
       /\ flags'[i].content = flags[i].content
       /\ flags'[i].reporter = flags[i].reporter
       /\ flags[i].status = "deleted" => flags'[i].status = "deleted"

LEMMA InsertKeeps ==
  ASSUME TypeOK, NEW c \in Contents, NEW u \in Users, NEW auto \in BOOLEAN,
         Insert(c, u, auto)
  PROVE  /\ RowsKept
         /\ Ids' = Ids \cup {lastId + 1} /\ lastId + 1 \notin Ids
         /\ flags'[lastId + 1] =
              [content |-> c, reporter |-> u, status |-> "pending", auto |-> auto]
         /\ \A i \in Ids : flags'[i] = flags[i]
BY DEF TypeOK, Insert, Ids, RowsKept

LEMMA MarkKeeps ==
  ASSUME TypeOK, NEW ids, NEW status \in FlagStatus, Mark(ids, status), UNCHANGED lastId
  PROVE  RowsKept /\ Ids' = Ids
<1>1. Ids' = Ids
  BY DEF Ids
<1>2. ASSUME NEW i \in Ids
      PROVE  /\ flags'[i].content = flags[i].content
             /\ flags'[i].reporter = flags[i].reporter
             /\ flags[i].status = "deleted" => flags'[i].status = "deleted"
  <2>1. flags[i] \in FlagRow
    BY DEF TypeOK
  <2>2. flags'[i] = flags[i] \/ (Live(i) /\ flags'[i] = [flags[i] EXCEPT !.status = status])
    BY DEF Mark
  <2>3. QED BY <2>1, <2>2 DEF FlagRow, Live
<1>3. QED BY <1>1, <1>2 DEF RowsKept

LEMMA SameRowsKept ==
  ASSUME UNCHANGED <<lastId, flags>>
  PROVE  RowsKept /\ Ids' = Ids
BY DEF RowsKept, Ids

\* A request's step touches no other request, posts nothing, and does not
\* start anew; only two steps add rows.
LEMMA StepFrame ==
  ASSUME TypeOK, NEW q \in Requests, Step(q) \/ Fail(q)
  PROVE  /\ \A p \in Requests \ {q} : req'[p] = req[p]
         /\ req'[q].pc \notin {"watch", "insert"}
         /\ \A c \in Contents : content'[c].state = content[c].state
         /\ Watch(q) \/ InsertFlag(q) \/ (RowsKept /\ Ids' = Ids)
<1> DEFINE r == req[q]
<1>0. r \in Request
  BY DEF TypeOK
<1>1. ASSUME NEW s, Goto(q, s), s.pc \notin {"watch", "insert"}
      PROVE  /\ \A p \in Requests \ {q} : req'[p] = req[p]
             /\ req'[q].pc \notin {"watch", "insert"}
  BY <1>1 DEF TypeOK, Goto
<1>2. Idle.pc \notin {"watch", "insert"}
  BY DEF Idle
<1>3. CASE Watch(q)
  BY <1>1, <1>2, <1>3 DEF Watch, Finish
<1>4. CASE InsertFlag(q)
  <2>1. [r EXCEPT !.pc = "count"].pc = "count"
    BY <1>0 DEF Request
  <2>2. QED BY <1>1, <1>2, <1>4, <2>1 DEF InsertFlag, Finish
<1>5. CASE DeleteRow(q)
  <2>1. [r EXCEPT !.pc = "count"].pc = "count"
    BY <1>0 DEF Request
  <2>2. RowsKept /\ Ids' = Ids
    BY <1>5, MarkKeeps DEF DeleteRow, FlagStatus
  <2>3. QED BY <1>1, <1>5, <2>1, <2>2 DEF DeleteRow
<1>6. CASE MarkRows(q)
  <2>1. [r EXCEPT !.pc = "load"].pc = "load" /\ [r EXCEPT !.pc = "remove"].pc = "remove"
    BY <1>0 DEF Request
  <2>2. RowsKept /\ Ids' = Ids
    BY <1>6, MarkKeeps DEF MarkRows, FlagStatus
  <2>3. QED BY <1>1, <1>6, <2>1, <2>2 DEF MarkRows
<1>7. CASE CountPending(q)
  <2>1. [r EXCEPT !.pc = "load", !.n = PendingCount(r.c)].pc = "load"
    BY <1>0 DEF Request
  <2>2. QED BY <1>1, <1>7, <2>1, SameRowsKept DEF CountPending
<1>8. AfterContent(r).pc \notin {"watch", "insert"}
  BY DEF AfterContent, Idle
<1>9. CASE LoadContent(q)
  <2>1. [r EXCEPT !.pc = "save", !.row = ColumnsOf(content[r.c])].pc = "save"
    BY <1>0 DEF Request
  <2>2. QED BY <1>1, <1>8, <1>9, <2>1, SameRowsKept DEF LoadContent
<1>10. CASE SaveContent(q)
  <2>1. \A c \in Contents : content'[c].state = content[c].state
    <3>1. CASE UNCHANGED content
      BY <3>1
    <3>2. CASE WriteContent(r.c, r.row, SavedContent(r))
      <4>1. content[r.c] \in ContentRow
        BY <1>0 DEF TypeOK, Request
      <4>2. MergedContent(content[r.c], r.row, SavedContent(r)).state = content[r.c].state
        BY <4>1 DEF MergedContent, ContentRow
      <4>3. QED BY <3>2, <4>2 DEF WriteContent, TypeOK
    <3>3. QED BY <1>10, <3>1, <3>2 DEF SaveContent
  <2>2. QED BY <1>1, <1>2, <1>8, <1>10, <2>1, SameRowsKept DEF SaveContent, Finish
<1>11. CASE Remove(q)
  <2>1. /\ [r EXCEPT !.pc = "load_user", !.who = Author[r.c], !.counter = "valid"].pc = "load_user"
        /\ [r EXCEPT !.pc = "reward"].pc = "reward"
    BY <1>0 DEF Request
  <2>2. \A c \in Contents : content'[c].state = content[c].state
    <3>1. r.c \in Contents /\ content[r.c] \in ContentRow
      BY <1>0 DEF TypeOK, Request
    <3>2. [content[r.c] EXCEPT !.removed = TRUE].state = content[r.c].state
      BY <3>1 DEF ContentRow
    <3>3. QED BY <1>11, <3>1, <3>2 DEF Remove, TypeOK
  <2>3. QED BY <1>1, <1>2, <1>11, <2>1, <2>2, SameRowsKept DEF Remove, Finish
<1>12. CASE Reward(q)
  <2>1. [Idle EXCEPT !.pc = "load_user", !.op = "action", !.c = r.c, !.counter = "validated",
                     !.todo = {flags[i].reporter : i \in r.ids}].pc = "load_user"
    BY DEF Idle
  <2>2. QED BY <1>1, <1>2, <1>12, <2>1, SameRowsKept DEF Reward
<1>13. CASE LoadUser(q)
  <2>1. ASSUME NEW u
        PROVE  [r EXCEPT !.pc = "save_user", !.who = u, !.user = users[u],
                         !.todo = @ \ {u}].pc = "save_user"
    BY <1>0 DEF Request
  <2>2. QED BY <1>1, <1>2, <1>13, <2>1, SameRowsKept DEF LoadUser, Finish
<1>14. CASE SaveUser(q)
  <2>1. AfterUser(r).pc \notin {"watch", "insert"}
    BY <1>0, <1>2 DEF AfterUser, Request
  <2>2. QED BY <1>1, <1>14, <2>1, SameRowsKept DEF SaveUser
<1>15. CASE Fail(q)
  BY <1>1, <1>2, <1>15, SameRowsKept DEF Fail, Finish
<1>16. QED
  BY <1>3, <1>4, <1>5, <1>6, <1>7, <1>9, <1>10, <1>11, <1>12, <1>13, <1>14, <1>15 DEF Step
-----------------------------------------------------------------------------
(* A reporter has one flag per content *)

LEMMA UniqueKept ==
  ASSUME TypeOK, OneFlagPerReporter, RowsKept, Ids' = Ids
  PROVE  OneFlagPerReporter'
BY DEF OneFlagPerReporter, RowsKept, LiveIds, Live

LEMMA UniqueInserted ==
  ASSUME TypeOK, OneFlagPerReporter, NEW c \in Contents, NEW u \in Users,
         NEW auto \in BOOLEAN, Insert(c, u, auto), ~Flagged(c, u)
  PROVE  OneFlagPerReporter'
<1>1. SUFFICES ASSUME NEW i \in LiveIds', NEW j \in LiveIds',
                      flags'[i].content = flags'[j].content,
                      flags'[i].reporter = flags'[j].reporter
               PROVE  i = j
  BY DEF OneFlagPerReporter
<1>2. /\ Ids' = Ids \cup {lastId + 1} /\ lastId + 1 \notin Ids
      /\ flags'[lastId + 1] =
           [content |-> c, reporter |-> u, status |-> "pending", auto |-> auto]
      /\ \A k \in Ids : flags'[k] = flags[k]
  BY InsertKeeps
<1>3. \A k \in LiveIds' : k # lastId + 1 => k \in LiveIds /\ flags'[k] = flags[k]
  BY <1>2 DEF LiveIds, Live
<1>4. \A k \in LiveIds : ~(flags[k].content = c /\ flags[k].reporter = u)
  BY DEF Flagged, LiveIds
<1>5. flags'[lastId + 1].content = c /\ flags'[lastId + 1].reporter = u
  BY <1>2
<1>6. CASE i # lastId + 1 /\ j # lastId + 1
  BY <1>1, <1>3, <1>6 DEF OneFlagPerReporter
<1>7. CASE i = lastId + 1 /\ j # lastId + 1
  BY <1>1, <1>3, <1>4, <1>5, <1>7
<1>8. CASE i # lastId + 1 /\ j = lastId + 1
  BY <1>1, <1>3, <1>4, <1>5, <1>8
<1>9. QED BY <1>6, <1>7, <1>8

LEMMA UniqueArrival ==
  ASSUME UniqueInv, NEW q \in Requests, Arrival(q)
  PROVE  OneFlagPerReporter'
<1>1. RowsKept /\ Ids' = Ids
  BY SameRowsKept DEF Arrival, Post, Restore, Erase, CreateFlag, RetractFlag, ReviewFlags
<1>2. QED BY <1>1, UniqueKept DEF UniqueInv

LEMMA UniqueStep ==
  ASSUME UniqueInv, NEW q \in Requests, Step(q) \/ Fail(q)
  PROVE  OneFlagPerReporter'
<1> USE DEF UniqueInv
<1> DEFINE r == req[q]
<1>0. r \in Request
  BY DEF TypeOK
<1>1. CASE RowsKept /\ Ids' = Ids
  BY <1>1, UniqueKept
<1>2. CASE Watch(q)
  <2>1. CASE UNCHANGED <<lastId, flags>>
    BY <1>1, <2>1, SameRowsKept
  <2>2. CASE ~Flagged(r.c, System) /\ Insert(r.c, System, TRUE)
    BY <1>0, <2>2, PeopleAssumption, UniqueInserted DEF Request
  <2>3. QED BY <1>2, <2>1, <2>2 DEF Watch
<1>3. CASE InsertFlag(q)
  <2>1. CASE Flagged(r.c, r.who)
    BY <1>1, <1>3, <2>1, SameRowsKept DEF InsertFlag
  <2>2. CASE ~Flagged(r.c, r.who)
    BY <1>0, <1>3, <2>2, UniqueInserted DEF Request, InsertFlag
  <2>3. QED BY <2>1, <2>2
<1>4. QED BY <1>1, <1>2, <1>3, StepFrame

LEMMA UniqueInductive == UniqueInv /\ [Next]_vars => UniqueInv'
<1>1. SUFFICES ASSUME UniqueInv, [Next]_vars PROVE UniqueInv'
  OBVIOUS
<1>2. TypeOK'
  BY <1>1, NextTyped DEF UniqueInv
<1>3. CASE UNCHANGED vars
  BY <1>1, <1>3 DEF UniqueInv, TypeOK, OneFlagPerReporter, vars, LiveIds, Live, Ids
<1>4. CASE Next
  BY <1>1, <1>2, <1>4, UniqueArrival, UniqueStep DEF Next, UniqueInv
<1>5. QED BY <1>1, <1>3, <1>4

\* No interleaving of concurrent create_flag requests, retractions, reviews
\* and auto-flags leaves a reporter with two flags on one content.
THEOREM FlagsAreUnique == Spec => []OneFlagPerReporter
<1>1. Init => UniqueInv
  BY InitTyped DEF Init, UniqueInv, OneFlagPerReporter, LiveIds, Ids
<1>2. UniqueInv => OneFlagPerReporter
  BY DEF UniqueInv
<1>3. QED BY <1>1, <1>2, UniqueInductive, PTL DEF Spec
-----------------------------------------------------------------------------
(* Scores move for a cause *)

LEMMA GotoGives ==
  ASSUME TypeOK, NEW q \in Requests, NEW s, Goto(q, s)
  PROVE  req'[q] = s /\ \A p \in Requests \ {q} : req'[p] = req[p]
BY DEF TypeOK, Goto

\* Rows are kept, so what a request once had cause for it has cause for later.
LEMMA CauseKept ==
  ASSUME RowsKept, RequestsHaveCause, NEW q \in Requests,
         \A p \in Requests \ {q} : req'[p] = req[p], HasCause(req'[q])
  PROVE  RequestsHaveCause'
<1>1. \A u : (Reported(u) => Reported(u)') /\ (WasFlagged(u) => WasFlagged(u)')
  BY DEF RowsKept, Reported, WasFlagged
<1>2. ASSUME NEW p \in Requests PROVE HasCause(req'[p])
  BY DEF RequestsHaveCause
<1>3. ASSUME NEW p \in Requests PROVE HasCause(req[p])'
  BY <1>1, <1>2 DEF HasCause, RowsKept
<1>4. QED BY <1>3 DEF RequestsHaveCause

LEMMA CountersKept ==
  ASSUME RowsKept, CountersHaveCause, UNCHANGED users
  PROVE  CountersHaveCause'
BY DEF CountersHaveCause, RowsKept

LEMMA IdleHasCause == HasCause(Idle)
BY DEF HasCause, Idle

LEMMA CauseArrival ==
  ASSUME CauseInv, NEW q \in Requests, Arrival(q)
  PROVE  CountersHaveCause' /\ RequestsHaveCause'
<1> USE DEF CauseInv
<1>1. RowsKept /\ UNCHANGED users
  BY SameRowsKept DEF Arrival, Post, Restore, Erase, CreateFlag, RetractFlag, ReviewFlags
<1>2. CountersHaveCause'
  BY <1>1, CountersKept
<1>3. ASSUME NEW s, Goto(q, s), HasCause(s) PROVE RequestsHaveCause'
  BY <1>1, <1>3, GotoGives, CauseKept
<1>4. ASSUME NEW c \in Contents, Post(q, c) PROVE RequestsHaveCause'
  <2>1. HasCause([Idle EXCEPT !.pc = "watch", !.op = "post", !.c = c])
    BY DEF HasCause, Idle
  <2>2. QED BY <1>3, <1>4, <2>1 DEF Post
<1>5. ASSUME NEW c \in Contents, NEW u \in Users, CreateFlag(q, c, u)
      PROVE  RequestsHaveCause'
  <2>1. HasCause([Idle EXCEPT !.pc = "insert", !.op = "create", !.c = c, !.who = u])
    BY DEF HasCause, Idle
  <2>2. QED BY <1>3, <1>5, <2>1 DEF CreateFlag
<1>6. ASSUME NEW c \in Contents, Restore(q, c) \/ Erase(q, c) PROVE RequestsHaveCause'
  BY <1>1, <1>6, CauseKept DEF Restore, Erase, RequestsHaveCause
<1>7. ASSUME NEW i \in Ids, NEW u \in Users, RetractFlag(q, i, u) PROVE RequestsHaveCause'
  <2>1. HasCause([Idle EXCEPT !.pc = "delete", !.op = "retract",
                              !.c = flags[i].content, !.who = u, !.ids = {i}])
    BY DEF HasCause, Idle
  <2>2. QED BY <1>3, <1>7, <2>1 DEF RetractFlag
<1>8. ASSUME NEW ids \in SUBSET Ids, NEW c \in Contents,
             NEW action \in {"dismiss", "action"}, ReviewFlags(q, ids, c, action)
      PROVE  RequestsHaveCause'
  <2>1. WasFlagged(Author[c])
    BY <1>8 DEF ReviewFlags, WasFlagged
  <2>2. HasCause([Idle EXCEPT !.pc = "mark", !.op = action, !.c = c, !.ids = ids])
    BY <2>1 DEF HasCause, Idle
  <2>3. QED BY <1>3, <1>8, <2>2 DEF ReviewFlags
<1>9. QED BY <1>2, <1>4, <1>5, <1>6, <1>7, <1>8 DEF Arrival

\* Where a step leads the request that takes it.
LEMMA CauseCarriedOn ==
  ASSUME CauseInv, NEW q \in Requests, Step(q) \/ Fail(q)
  PROVE  HasCause(req'[q])
<1> DEFINE r == req[q]
<1> USE DEF CauseInv
<1>0. r \in Request /\ HasCause(r) /\ HasCause(Idle)
  BY IdleHasCause DEF TypeOK, RequestsHaveCause
<1>1. ASSUME NEW s, Goto(q, s), HasCause(s) PROVE HasCause(req'[q])
  BY <1>1, GotoGives
<1>2. CASE Watch(q) \/ Fail(q)
  BY <1>0, <1>1, <1>2 DEF Watch, Fail, Finish
<1>3. CASE InsertFlag(q) \/ DeleteRow(q)
  <2>1. HasCause([r EXCEPT !.pc = "count"])
    BY <1>0 DEF HasCause, Request
  <2>2. QED BY <1>0, <1>1, <1>3, <2>1 DEF InsertFlag, DeleteRow, Finish
<1>4. CASE MarkRows(q)
  <2>1. r.pc = "mark"
    BY <1>4 DEF MarkRows, At
  <2>2. HasCause([r EXCEPT !.pc = "load"]) /\ HasCause([r EXCEPT !.pc = "remove"])
    BY <1>0, <2>1 DEF HasCause, Request
  <2>3. QED BY <1>1, <1>4, <2>2 DEF MarkRows
<1>5. CASE CountPending(q)
  <2>1. HasCause([r EXCEPT !.pc = "load", !.n = PendingCount(r.c)])
    BY <1>0 DEF HasCause, Request
  <2>2. QED BY <1>1, <1>5, <2>1 DEF CountPending
<1>6. HasCause(AfterContent(r))
  BY <1>0 DEF AfterContent, HasCause, Idle
<1>7. CASE LoadContent(q)
  <2>1. HasCause([r EXCEPT !.pc = "save", !.row = ColumnsOf(content[r.c])])
    BY <1>0 DEF HasCause, Request
  <2>2. QED BY <1>1, <1>6, <1>7, <2>1 DEF LoadContent
<1>8. CASE SaveContent(q)
  BY <1>0, <1>1, <1>6, <1>8 DEF SaveContent, Finish
<1>9. CASE Remove(q)
  <2>1. r.pc = "remove"
    BY <1>9 DEF Remove, At
  <2>2. /\ HasCause([r EXCEPT !.pc = "load_user", !.who = Author[r.c], !.counter = "valid"])
        /\ HasCause([r EXCEPT !.pc = "reward"])
    BY <1>0, <2>1 DEF HasCause, Request
  <2>3. QED BY <1>0, <1>1, <1>9, <2>2 DEF Remove, Finish
<1>10. CASE Reward(q)
  <2>1. ASSUME r.ids \subseteq LiveIds
        PROVE  HasCause([Idle EXCEPT !.pc = "load_user", !.op = "action", !.c = r.c,
                           !.counter = "validated",
                           !.todo = {flags[i].reporter : i \in r.ids}])
    BY <2>1 DEF HasCause, Idle, LiveIds, Reported
  <2>2. QED BY <1>0, <1>1, <1>10, <2>1 DEF Reward
<1>11. CASE LoadUser(q)
  <2>1. r.pc = "load_user"
    BY <1>11 DEF LoadUser, At
  <2>2. ASSUME NEW u \in Targets(r)
        PROVE  HasCause([r EXCEPT !.pc = "save_user", !.who = u, !.user = users[u],
                                  !.todo = @ \ {u}])
    BY <1>0, <2>1, <2>2 DEF HasCause, Request, Targets
  <2>3. QED BY <1>0, <1>1, <1>11, <2>2 DEF LoadUser, Finish
<1>12. CASE SaveUser(q)
  <2>1. HasCause(AfterUser(r))
    BY <1>0 DEF AfterUser, HasCause, Request, Idle
  <2>2. QED BY <1>1, <1>12, <2>1 DEF SaveUser
<1>13. QED
  BY <1>2, <1>3, <1>4, <1>5, <1>7, <1>8, <1>9, <1>10, <1>11, <1>12 DEF Step

LEMMA CauseStep ==
  ASSUME CauseInv, NEW q \in Requests, Step(q) \/ Fail(q)
  PROVE  CountersHaveCause' /\ RequestsHaveCause'
<1> DEFINE r == req[q]
<1> USE DEF CauseInv
<1>0. r \in Request
  BY DEF TypeOK
<1>1. RowsKept
  <2>1. CASE Watch(q)
    BY <1>0, <2>1, InsertKeeps, SameRowsKept, PeopleAssumption DEF Watch, Request
  <2>2. CASE InsertFlag(q)
    BY <1>0, <2>2, InsertKeeps, SameRowsKept DEF InsertFlag, Request
  <2>3. QED BY <2>1, <2>2, StepFrame
<1>2. RequestsHaveCause'
  BY <1>1, StepFrame, CauseCarriedOn, CauseKept
<1>3. CASE SaveUser(q)
  <2> DEFINE new == Rescored(r.who, Counted(r.user, r.counter), r.counter)
  <2>1. /\ r.who \in Users /\ r.user \in UserRow /\ users[r.who] \in UserRow
        /\ r.counter \in Counters /\ r.pc = "save_user"
    BY <1>0, <1>3 DEF Request, TypeOK, SaveUser, At
  <2>2. /\ new.valid = IF r.counter = "valid" THEN r.user.valid + 1 ELSE r.user.valid
        /\ new.validated =
             IF r.counter = "validated" THEN r.user.validated + 1 ELSE r.user.validated
    BY <2>1 DEF Rescored, Counted, Counters, UserRow
  <2> HIDE DEF new
  <2>3. /\ users'[r.who] = MergedUser(users[r.who], r.user, new)
        /\ \A u \in Users \ {r.who} : users'[u] = users[u]
    BY <1>3, <2>1 DEF SaveUser, WriteUser, TypeOK, new
  <2>4. /\ users'[r.who].valid > 0 => users[r.who].valid > 0 \/ r.counter = "valid"
        /\ users'[r.who].validated > 0 => users[r.who].validated > 0 \/ r.counter = "validated"
    BY <2>1, <2>2, <2>3 DEF MergedUser, Changed, UserRow
  <2>5. /\ r.counter = "valid" => WasFlagged(r.who)
        /\ r.counter = "validated" => Reported(r.who)
    BY <2>1 DEF RequestsHaveCause, HasCause
  <2>6. \A u \in Users : /\ users'[u].validated > 0 => Reported(u)
                         /\ users'[u].valid > 0 => WasFlagged(u)
    BY <2>3, <2>4, <2>5 DEF CountersHaveCause, Reported, WasFlagged
  <2>7. QED BY <1>1, <1>2, <2>6 DEF CountersHaveCause, Reported, WasFlagged, RowsKept
<1>4. CASE ~SaveUser(q)
  <2>1. UNCHANGED users
    BY <1>4 DEF Step, Fail, Watch, InsertFlag, DeleteRow, MarkRows, CountPending,
                LoadContent, SaveContent, Remove, Reward, LoadUser
  <2>2. QED BY <1>1, <1>2, <2>1, CountersKept
<1>5. QED BY <1>3, <1>4

LEMMA CauseInductive == CauseInv /\ [Next]_vars => CauseInv'
<1>1. SUFFICES ASSUME CauseInv, [Next]_vars PROVE CauseInv'
  OBVIOUS
<1>2. TypeOK'
  BY <1>1, NextTyped DEF CauseInv
<1>3. CASE UNCHANGED vars
  BY <1>1, <1>3 DEF CauseInv, TypeOK, CountersHaveCause, RequestsHaveCause, HasCause,
                    Reported, WasFlagged, vars, Ids
<1>4. CASE Next
  BY <1>1, <1>2, <1>4, CauseArrival, CauseStep DEF Next, CauseInv
<1>5. QED BY <1>1, <1>3, <1>4

\* However requests interleave and fail, nobody is rewarded who reported
\* nothing, and nobody is charged whose contents were never flagged.
THEOREM ScoresHaveCause == Spec => []CountersHaveCause
<1>1. Init => CauseInv
  BY InitTyped, IdleHasCause
     DEF Init, CauseInv, CountersHaveCause, RequestsHaveCause, NewUser
<1>2. CauseInv => CountersHaveCause
  BY DEF CauseInv
<1>3. QED BY <1>1, <1>2, CauseInductive, PTL DEF Spec
-----------------------------------------------------------------------------
(* Content is hidden by distinct reporters *)

LEMMA EverFlaggedFinite ==
  ASSUME TypeOK, NEW c
  PROVE  IsFiniteSet(EverFlagged(c)) /\ Cardinality(EverFlagged(c)) \in Nat
<1> DEFINE rows == {i \in Ids : flags[i].content = c}
           f == [i \in rows |-> flags[i].reporter]
<1>1. IsFiniteSet(rows)
  BY FS_Interval, FS_Subset DEF TypeOK, Ids
<1>2. f \in Surjection(rows, EverFlagged(c))
  BY DEF Surjection, EverFlagged
<1>3. IsFiniteSet(EverFlagged(c))
  BY <1>1, <1>2, FS_Surjection
<1>4. QED BY <1>3, FS_CardinalityType

\* One flag per reporter, so pending flags are at most the users who flagged.
LEMMA PendingAtMostReporters ==
  ASSUME TypeOK, OneFlagPerReporter, NEW c
  PROVE  PendingCount(c) <= Cardinality(EverFlagged(c))
<1> DEFINE f == [i \in Pending(c) |-> flags[i].reporter]
<1>1. f \in [Pending(c) -> EverFlagged(c)]
  BY DEF Pending, EverFlagged
<1>2. ASSUME NEW i \in Pending(c), NEW j \in Pending(c), f[i] = f[j] PROVE i = j
  BY <1>2 DEF Pending, OneFlagPerReporter, LiveIds, Live
<1>3. f \in Injection(Pending(c), EverFlagged(c))
  BY <1>1, <1>2 DEF Injection, IsInjective
<1>4. QED BY <1>3, EverFlaggedFinite, FS_Injection DEF PendingCount

LEMMA ReportersGrow ==
  ASSUME TypeOK, TypeOK', RowsKept, NEW c
  PROVE  /\ Cardinality(EverFlagged(c)) <= Cardinality(EverFlagged(c)')
         /\ Cardinality(EverFlagged(c)') \in Nat
<1>1. EverFlagged(c) \subseteq EverFlagged(c)'
  BY DEF EverFlagged, RowsKept
<1>2. IsFiniteSet(EverFlagged(c)')
  <2> DEFINE rows == {i \in Ids' : flags'[i].content = c}
             f == [i \in rows |-> flags'[i].reporter]
  <2>1. IsFiniteSet(rows)
    <3>1. lastId' \in Nat /\ Ids' = 1..lastId'
      BY DEF TypeOK, Ids
    <3>2. IsFiniteSet(Ids')
      BY <3>1, FS_Interval
    <3>3. QED BY <3>2, FS_Subset
  <2>2. f \in Surjection(rows, EverFlagged(c)')
    BY DEF Surjection, EverFlagged
  <2>3. QED BY <2>1, <2>2, FS_Surjection
<1>3. QED BY <1>1, <1>2, FS_Subset, FS_CardinalityType

LEMMA IdleCountIsSound == TypeOK => CountIsSound(Idle)
BY EverFlaggedFinite DEF CountIsSound, Idle

\* The count a request carries stays sound, whatever other sessions commit.
LEMMA CountsKept ==
  ASSUME TypeOK, TypeOK', RowsKept, CountsAreOfDistinctReporters, NEW q \in Requests,
         \A p \in Requests \ {q} : req'[p] = req[p], CountIsSound(req'[q])
  PROVE  CountsAreOfDistinctReporters'
<1>1. ASSUME NEW p \in Requests PROVE CountIsSound(req[p])'
  <2> DEFINE r == req'[p]
  <2>1. r.n <= Cardinality(EverFlagged(r.c))
    BY DEF CountsAreOfDistinctReporters, CountIsSound
  <2>2. r.n \in Nat
    BY DEF TypeOK, Request
  <2>3. /\ Cardinality(EverFlagged(r.c)) \in Nat
        /\ Cardinality(EverFlagged(r.c)) <= Cardinality(EverFlagged(req[p].c)')
        /\ Cardinality(EverFlagged(req[p].c)') \in Nat
    BY EverFlaggedFinite, ReportersGrow
  <2>4. QED BY <2>1, <2>2, <2>3 DEF CountIsSound
<1>2. QED BY <1>1 DEF CountsAreOfDistinctReporters

\* Columns that stay, or are written within bounds, keep content hidden soundly.
LEMMA HiddenKept ==
  ASSUME TypeOK, TypeOK', RowsKept, HiddenByDistinctReporters,
         \A c \in Contents :
           /\ \/ content'[c].flag_count = content[c].flag_count
              \/ content'[c].flag_count <= Cardinality(EverFlagged(c))
           /\ content'[c].is_hidden => \/ content[c].is_hidden
                                       \/ Cardinality(EverFlagged(c)) >= FLAG_THRESHOLD
  PROVE  HiddenByDistinctReporters'
<1>1. ASSUME NEW c \in Contents
      PROVE  /\ content'[c].flag_count <= Cardinality(EverFlagged(c))'
             /\ content'[c].is_hidden => Cardinality(EverFlagged(c))' >= FLAG_THRESHOLD
  <2>1. /\ Cardinality(EverFlagged(c)) \in Nat /\ Cardinality(EverFlagged(c)') \in Nat
        /\ Cardinality(EverFlagged(c)) <= Cardinality(EverFlagged(c)')
    BY EverFlaggedFinite, ReportersGrow
  <2>2. content[c].flag_count \in Nat /\ content'[c].flag_count \in Nat
    BY DEF TypeOK, ContentRow
  <2>3. /\ content'[c].flag_count <= Cardinality(EverFlagged(c))
        /\ content'[c].is_hidden => Cardinality(EverFlagged(c)) >= FLAG_THRESHOLD
    BY DEF HiddenByDistinctReporters
  <2>4. QED BY <2>1, <2>2, <2>3, ThresholdAssumption
<1>2. QED BY <1>1 DEF HiddenByDistinctReporters

LEMMA HiddenArrival ==
  ASSUME HiddenInv, TypeOK', NEW q \in Requests, Arrival(q)
  PROVE  HiddenByDistinctReporters' /\ CountsAreOfDistinctReporters'
<1> USE DEF HiddenInv, UniqueInv
<1>1. RowsKept
  BY SameRowsKept DEF Arrival, Post, Restore, Erase, CreateFlag, RetractFlag, ReviewFlags
<1>2. \A d \in Contents : /\ content'[d].flag_count = content[d].flag_count
                          /\ content'[d].is_hidden = content[d].is_hidden
  <2>1. ASSUME NEW c \in Contents, Post(q, c) \/ Restore(q, c) \/ Erase(q, c)
        PROVE  \A d \in Contents : /\ content'[d].flag_count = content[d].flag_count
                                   /\ content'[d].is_hidden = content[d].is_hidden
    BY <2>1 DEF Post, Restore, Erase, TypeOK, ContentRow
  <2>2. CASE UNCHANGED content
    BY <2>2
  <2>3. QED BY <2>1, <2>2 DEF Arrival, CreateFlag, RetractFlag, ReviewFlags
<1>3. HiddenByDistinctReporters'
  BY <1>1, <1>2, HiddenKept
<1>4. CASE UNCHANGED req
  <2>1. CountIsSound(req'[q]) /\ \A p \in Requests : req'[p] = req[p]
    BY <1>4 DEF CountsAreOfDistinctReporters
  <2>2. CountsAreOfDistinctReporters'
    BY <1>1, <2>1, CountsKept
  <2>3. QED BY <1>3, <2>2
<1>5. ASSUME NEW s, Goto(q, s), s.n = 0 PROVE CountsAreOfDistinctReporters'
  <2>1. req'[q] = s /\ \A p \in Requests \ {q} : req'[p] = req[p]
    BY <1>5, GotoGives
  <2>2. CountIsSound(req'[q])
    BY <1>5, <2>1, EverFlaggedFinite DEF CountIsSound
  <2>3. QED BY <1>1, <2>1, <2>2, CountsKept
<1>6. ASSUME NEW c \in Contents, Post(q, c) \/ Restore(q, c) \/ Erase(q, c)
      PROVE  CountsAreOfDistinctReporters'
  <2>1. [Idle EXCEPT !.pc = "watch", !.op = "post", !.c = c].n = 0
    BY DEF Idle
  <2>2. QED BY <1>4, <1>5, <1>6, <2>1 DEF Post, Restore, Erase
<1>7. ASSUME NEW c \in Contents, NEW u \in Users, CreateFlag(q, c, u)
      PROVE  CountsAreOfDistinctReporters'
  <2>1. [Idle EXCEPT !.pc = "insert", !.op = "create", !.c = c, !.who = u].n = 0
    BY DEF Idle
  <2>2. QED BY <1>5, <1>7, <2>1 DEF CreateFlag
<1>8. ASSUME NEW i \in Ids, NEW u \in Users, RetractFlag(q, i, u)
      PROVE  CountsAreOfDistinctReporters'
  <2>1. [Idle EXCEPT !.pc = "delete", !.op = "retract", !.c = flags[i].content,
                     !.who = u, !.ids = {i}].n = 0
    BY DEF Idle
  <2>2. QED BY <1>5, <1>8, <2>1 DEF RetractFlag
<1>9. ASSUME NEW ids \in SUBSET Ids, NEW c \in Contents,
             NEW action \in {"dismiss", "action"}, ReviewFlags(q, ids, c, action)
      PROVE  CountsAreOfDistinctReporters'
  <2>1. [Idle EXCEPT !.pc = "mark", !.op = action, !.c = c, !.ids = ids].n = 0
    BY DEF Idle
  <2>2. QED BY <1>5, <1>9, <2>1 DEF ReviewFlags
<1>10. QED BY <1>3, <1>6, <1>7, <1>8, <1>9 DEF Arrival

LEMMA HiddenStep ==
  ASSUME HiddenInv, TypeOK', NEW q \in Requests, Step(q) \/ Fail(q)
  PROVE  HiddenByDistinctReporters' /\ CountsAreOfDistinctReporters'
<1> DEFINE r == req[q]
<1> USE DEF HiddenInv, UniqueInv
<1>0. r \in Request /\ CountIsSound(r) /\ CountIsSound(Idle)
  BY IdleCountIsSound DEF TypeOK, CountsAreOfDistinctReporters
<1>1. RowsKept
  <2>1. CASE Watch(q)
    BY <1>0, <2>1, InsertKeeps, SameRowsKept, PeopleAssumption DEF Watch, Request
  <2>2. CASE InsertFlag(q)
    BY <1>0, <2>2, InsertKeeps, SameRowsKept DEF InsertFlag, Request
  <2>3. QED BY <2>1, <2>2, StepFrame
<1>2. HiddenByDistinctReporters'
  <2>1. CASE SaveContent(q)
    <3> DEFINE new == SavedContent(r)
    <3>1. r.c \in Contents /\ content[r.c] \in ContentRow
      BY <1>0 DEF Request, TypeOK
    <3>2. /\ new.flag_count <= Cardinality(EverFlagged(r.c))
          /\ new.is_hidden => Cardinality(EverFlagged(r.c)) >= FLAG_THRESHOLD
      <4>1. Cardinality(EverFlagged(r.c)) \in Nat /\ r.n \in Nat
        BY <1>0, EverFlaggedFinite DEF Request
      <4>2. CASE r.op = "dismiss"
        <5>1. new = Unhidden
          BY <4>2 DEF SavedContent
        <5> HIDE DEF new
        <5>2. QED BY <4>1, <5>1 DEF Unhidden
      <4>3. CASE r.op # "dismiss"
        <5>1. new = Recounted(r.n)
          BY <4>3 DEF SavedContent
        <5>2. r.n <= Cardinality(EverFlagged(r.c))
          BY <1>0 DEF CountIsSound
        <5> HIDE DEF new
        <5>3. new.flag_count = r.n /\ new.is_hidden = (r.n >= FLAG_THRESHOLD)
          BY <5>1, Zenon DEF Recounted
        <5>4. new.is_hidden => r.n >= FLAG_THRESHOLD
          BY <5>3, Zenon
        <5>5. new.flag_count <= Cardinality(EverFlagged(r.c))
          BY <5>2, <5>3
        <5>6. r.n >= FLAG_THRESHOLD => Cardinality(EverFlagged(r.c)) >= FLAG_THRESHOLD
          BY <4>1, <5>2, ThresholdAssumption
        <5>7. QED BY <5>4, <5>5, <5>6
      <4>4. QED BY <4>2, <4>3
    <3> HIDE DEF new
    <3>3. UNCHANGED content \/ content' = [content EXCEPT ![r.c] = MergedContent(@, r.row, new)]
      BY <2>1 DEF SaveContent, WriteContent, new
    <3>4. /\ MergedContent(content[r.c], r.row, new).flag_count \in {content[r.c].flag_count, new.flag_count}
          /\ MergedContent(content[r.c], r.row, new).is_hidden \in {content[r.c].is_hidden, new.is_hidden}
      BY <3>1 DEF MergedContent, Changed, ContentRow
    <3>5. \A c \in Contents :
            /\ content'[c].flag_count = content[c].flag_count
               \/ content'[c].flag_count <= Cardinality(EverFlagged(c))
            /\ content'[c].is_hidden => \/ content[c].is_hidden
                                        \/ Cardinality(EverFlagged(c)) >= FLAG_THRESHOLD
      BY <3>1, <3>2, <3>3, <3>4 DEF TypeOK
    <3>6. QED BY <1>1, <3>5, HiddenKept
  <2>2. CASE ~SaveContent(q)
    <3>1. \/ UNCHANGED content
          \/ r.c \in Contents /\ content' = [content EXCEPT ![r.c].removed = TRUE]
      BY <1>0, <2>2 DEF Step, Fail, Watch, InsertFlag, DeleteRow, MarkRows, CountPending,
                        LoadContent, Remove, Reward, LoadUser, SaveUser, Request
    <3>2. \A c \in Contents : /\ content'[c].flag_count = content[c].flag_count
                              /\ content'[c].is_hidden = content[c].is_hidden
      BY <3>1 DEF TypeOK, ContentRow
    <3>3. QED BY <1>1, <3>2, HiddenKept
  <2>3. QED BY <2>1, <2>2
<1>3. CountIsSound(req'[q])
  <2>1. ASSUME NEW s, Goto(q, s), CountIsSound(s) PROVE CountIsSound(req'[q])
    BY <2>1, GotoGives
  <2>2. CASE Watch(q) \/ Fail(q)
    BY <1>0, <2>1, <2>2 DEF Watch, Fail, Finish
  <2>3. CASE CountPending(q)
    <3>1. CountIsSound([r EXCEPT !.pc = "load", !.n = PendingCount(r.c)])
      BY <1>0, PendingAtMostReporters DEF CountIsSound, Request
    <3>2. QED BY <2>1, <2>3, <3>1 DEF CountPending
  <2>4. CountIsSound(AfterContent(r))
    BY EverFlaggedFinite DEF AfterContent, CountIsSound, Idle
  <2>5. CountIsSound(AfterUser(r))
    BY <1>0 DEF AfterUser, CountIsSound, Request
  <2>6. /\ \A step : CountIsSound([r EXCEPT !.pc = step])
        /\ \A step, row : CountIsSound([r EXCEPT !.pc = step, !.row = row])
        /\ \A step, u, k : CountIsSound([r EXCEPT !.pc = step, !.who = u, !.counter = k])
        /\ \A step, u, row, us :
             CountIsSound([r EXCEPT !.pc = step, !.who = u, !.user = row, !.todo = us])
    BY <1>0 DEF CountIsSound, Request
  <2>7. \A ids, us : CountIsSound([Idle EXCEPT !.pc = "load_user", !.op = "action", !.c = r.c,
                                        !.counter = "validated", !.todo = us])
    BY EverFlaggedFinite DEF CountIsSound, Idle
  <2>8. CASE InsertFlag(q) \/ DeleteRow(q) \/ MarkRows(q) \/ LoadContent(q)
    BY <1>0, <2>1, <2>4, <2>6, <2>8 DEF InsertFlag, DeleteRow, MarkRows, LoadContent, Finish
  <2>9. CASE SaveContent(q) \/ Remove(q) \/ SaveUser(q)
    BY <1>0, <2>1, <2>4, <2>5, <2>6, <2>9 DEF SaveContent, Remove, SaveUser, Finish
  <2>10. CASE Reward(q) \/ LoadUser(q)
    BY <1>0, <2>1, <2>6, <2>7, <2>10 DEF Reward, LoadUser, Finish
  <2>11. QED BY <2>2, <2>3, <2>8, <2>9, <2>10 DEF Step
<1>4. QED BY <1>1, <1>2, <1>3, StepFrame, CountsKept

LEMMA HiddenInductive == HiddenInv /\ [Next]_vars => HiddenInv'
<1>1. SUFFICES ASSUME HiddenInv, [Next]_vars PROVE HiddenInv'
  OBVIOUS
<1>2. UniqueInv' /\ TypeOK'
  BY <1>1, UniqueInductive DEF HiddenInv, UniqueInv
<1>3. CASE UNCHANGED vars
  BY <1>1, <1>2, <1>3
     DEF HiddenInv, HiddenByDistinctReporters, CountsAreOfDistinctReporters, CountIsSound,
         EverFlagged, vars, Ids
<1>4. CASE Next
  BY <1>1, <1>2, <1>4, HiddenArrival, HiddenStep DEF Next, HiddenInv
<1>5. QED BY <1>1, <1>3, <1>4

\* No interleaving of flags, retractions and reviews hides a content that
\* fewer than FLAG_THRESHOLD different users ever flagged.
THEOREM HidingIsEarned == Spec => []HiddenByDistinctReporters
<1>1. Init => HiddenInv
  <2>1. SUFFICES ASSUME Init PROVE HiddenInv
    OBVIOUS
  <2>2. TypeOK
    BY <2>1, InitTyped
  <2>3. UniqueInv
    BY <2>1, <2>2
       DEF Init, UniqueInv, OneFlagPerReporter, LiveIds, Ids
  <2>4. HiddenByDistinctReporters
    BY <2>1, <2>2, EverFlaggedFinite DEF Init, HiddenByDistinctReporters, NewContent
  <2>5. CountsAreOfDistinctReporters
    BY <2>1, <2>2, IdleCountIsSound DEF Init, CountsAreOfDistinctReporters
  <2>6. QED BY <2>3, <2>4, <2>5 DEF HiddenInv
<1>2. HiddenInv => HiddenByDistinctReporters
  BY DEF HiddenInv
<1>3. QED BY <1>1, <1>2, HiddenInductive, PTL DEF Spec
-----------------------------------------------------------------------------
(* Counters never exceed what happened *)

Kinds == {"total", "valid", "validated"}
Tally(k, row) ==
  IF k = "total" THEN row.total ELSE IF k = "valid" THEN row.valid ELSE row.validated

FlagsOn(u) == {i \in Ids : Author[flags[i].content] = u}
Cap(k, u) == IF k = "total" THEN Cardinality(FlagsOn(u)) ELSE reviews

\* Request r may still add one to u's counter k.
Saving(r, counter) == r.pc \in {"load_user", "save_user"} /\ r.counter = counter
Owes(k, r, u) ==
  \/ /\ k = "total"
     /\ \/ r.op = "create" /\ r.pc \in {"count", "load", "save"} /\ Author[r.c] = u
        \/ Saving(r, "total") /\ r.who = u
  \/ k = "valid" /\ (r.pc \in {"mark", "remove"} \/ Saving(r, "valid"))
  \/ /\ k = "validated"
     /\ \/ r.pc \in {"mark", "remove", "reward"} \/ Saving(r, "valid")
        \/ Saving(r, "validated") /\ (u \in r.todo \/ (r.pc = "save_user" /\ r.who = u))
Owing(k, u) == {q \in Requests : Owes(k, req[q], u)}

\* A count of n, with all that running requests may add to it, is not too many.
Fits(k, u, n) == n + Cardinality(Owing(k, u)) <= Cap(k, u)

\* The user a request has read, and will write back, is not too high either.
Ready(r) ==
  /\ r.pc = "delete" => r.op # "create"
  /\ r.pc = "save_user" => /\ r.who \notin r.todo
                           /\ \A k \in Kinds : Fits(k, r.who, Tally(k, r.user))
OwedInv ==
  /\ TypeOK
  /\ \A k \in Kinds, u \in Users : IsFiniteSet(Owing(k, u)) /\ Fits(k, u, Tally(k, users[u]))
  /\ \A q \in Requests : Ready(req[q])
LEMMA TallyType ==
  ASSUME NEW k \in Kinds, NEW row \in UserRow
  PROVE  Tally(k, row) \in Nat
BY DEF Tally, UserRow

LEMMA CapType ==
  ASSUME TypeOK, NEW k \in Kinds, NEW u \in Users
  PROVE  IsFiniteSet(FlagsOn(u)) /\ Cap(k, u) \in Nat
<1>1. IsFiniteSet(FlagsOn(u))
  <2>1. IsFiniteSet(Ids) /\ FlagsOn(u) \subseteq Ids
    BY FS_Interval DEF TypeOK, Ids, FlagsOn
  <2>2. QED BY <2>1, FS_Subset
<1>2. Cardinality(FlagsOn(u)) \in Nat
  BY <1>1, FS_CardinalityType
<1>3. QED BY <1>1, <1>2 DEF Cap, TypeOK

LEMMA CapGrows ==
  ASSUME TypeOK, TypeOK', RowsKept, reviews <= reviews', NEW k \in Kinds, NEW u \in Users
  PROVE  Cap(k, u) \in Nat /\ Cap(k, u)' \in Nat /\ Cap(k, u) <= Cap(k, u)'
<1>1. Cap(k, u) \in Nat /\ IsFiniteSet(FlagsOn(u))
  BY CapType
<1>2. Cap(k, u)' \in Nat /\ IsFiniteSet(FlagsOn(u)')
  <2>1. IsFiniteSet(FlagsOn(u)')
    <3>1. IsFiniteSet(Ids') /\ FlagsOn(u)' \subseteq Ids'
      BY FS_Interval DEF TypeOK, Ids, FlagsOn
    <3>2. QED BY <3>1, FS_Subset
  <2>2. Cardinality(FlagsOn(u)') \in Nat
    BY <2>1, FS_CardinalityType
  <2>3. QED BY <2>1, <2>2 DEF Cap, TypeOK
<1>3. FlagsOn(u) \subseteq FlagsOn(u)'
  BY DEF FlagsOn, RowsKept
<1>4. Cardinality(FlagsOn(u)) <= Cardinality(FlagsOn(u)')
  BY <1>2, <1>3, FS_Subset
<1>5. QED BY <1>1, <1>2, <1>4 DEF Cap

\* Fewer owe and there is room for as much: n still fits.
LEMMA FewerOwe ==
  ASSUME NEW S, IsFiniteSet(S), NEW T, T \subseteq S,
         NEW n \in Nat, NEW cap \in Nat, NEW cap2 \in Nat,
         n + Cardinality(S) <= cap, cap <= cap2
  PROVE  IsFiniteSet(T) /\ n + Cardinality(T) <= cap2
<1>1. IsFiniteSet(T) /\ Cardinality(T) <= Cardinality(S)
  BY FS_Subset
<1>2. Cardinality(S) \in Nat /\ Cardinality(T) \in Nat
  BY <1>1, FS_CardinalityType
<1>3. QED BY <1>1, <1>2

\* One more owes and there is room for one more.
LEMMA OneMoreOwes ==
  ASSUME NEW S, IsFiniteSet(S), NEW q, NEW T, T \subseteq S \cup {q},
         NEW n \in Nat, NEW cap \in Nat, NEW cap2 \in Nat,
         n + Cardinality(S) <= cap, cap + 1 <= cap2
  PROVE  IsFiniteSet(T) /\ n + Cardinality(T) <= cap2
<1>1. IsFiniteSet(S \cup {q}) /\ Cardinality(S \cup {q}) <= Cardinality(S) + 1
  <2>1. Cardinality(S) \in Nat
    BY FS_CardinalityType
  <2>2. QED BY <2>1, FS_AddElement
<1>2. IsFiniteSet(T) /\ Cardinality(T) <= Cardinality(S \cup {q})
  BY <1>1, FS_Subset
<1>3. /\ Cardinality(S) \in Nat /\ Cardinality(T) \in Nat
      /\ Cardinality(S \cup {q}) \in Nat
  BY <1>1, <1>2, FS_CardinalityType
<1>4. QED BY <1>1, <1>2, <1>3

\* One that owed has paid: one more fits.
LEMMA OnePaid ==
  ASSUME NEW S, IsFiniteSet(S), NEW q \in S, NEW T, T \subseteq S \ {q},
         NEW n \in Nat, NEW cap \in Nat, n + Cardinality(S) <= cap
  PROVE  IsFiniteSet(T) /\ n + 1 + Cardinality(T) <= cap
<1>1. IsFiniteSet(S \ {q}) /\ Cardinality(S \ {q}) = Cardinality(S) - 1
  BY FS_RemoveElement
<1>2. IsFiniteSet(T) /\ Cardinality(T) <= Cardinality(S \ {q})
  BY <1>1, FS_Subset
<1>3. /\ Cardinality(S) \in Nat /\ Cardinality(T) \in Nat
  BY <1>2, FS_CardinalityType
<1>4. QED BY <1>1, <1>2, <1>3

\* A step that writes no user, and owes more only where there is room for more.
LEMMA OwedMoved ==
  ASSUME OwedInv, TypeOK', RowsKept, reviews <= reviews', UNCHANGED users,
         NEW q \in Requests, NEW s, Goto(q, s),
         \A k \in Kinds, u \in Users :
           Owes(k, s, u) => Owes(k, req[q], u) \/ Cap(k, u) + 1 <= Cap(k, u)',
         s.pc = "delete" => s.op # "create",
         s.pc = "save_user" => s.who \notin s.todo /\ s.user = users[s.who]
  PROVE  OwedInv'
<1> USE DEF OwedInv
<1>1. req'[q] = s /\ \A p \in Requests \ {q} : req'[p] = req[p]
  BY GotoGives
<1>2. ASSUME NEW k \in Kinds, NEW u \in Users, NEW n \in Nat, Fits(k, u, n)
      PROVE  IsFiniteSet(Owing(k, u)') /\ n + Cardinality(Owing(k, u)') <= Cap(k, u)'
  <2>1. /\ Cap(k, u) \in Nat /\ Cap(k, u)' \in Nat /\ Cap(k, u) <= Cap(k, u)'
    BY CapGrows
  <2>2. PICK S, T, cap, cap2 : S = Owing(k, u) /\ T = Owing(k, u)'
                               /\ cap = Cap(k, u) /\ cap2 = Cap(k, u)'
    OBVIOUS
  <2>3. IsFiniteSet(S) /\ n + Cardinality(S) <= cap
    BY <1>2, <2>2 DEF Fits
  <2>4. T \subseteq S \cup {q}
    BY <1>1, <2>2 DEF Owing
  <2>5. CASE Owes(k, s, u) /\ ~Owes(k, req[q], u)
    <3>1. cap + 1 <= cap2
      BY <2>2, <2>5
    <3>2. QED BY <2>1, <2>2, <2>3, <2>4, <3>1, OneMoreOwes
  <2>6. CASE ~Owes(k, s, u) \/ Owes(k, req[q], u)
    <3>1. T \subseteq S
      BY <1>1, <2>2, <2>6 DEF Owing
    <3>2. QED BY <2>1, <2>2, <2>3, <3>1, FewerOwe
  <2>7. QED BY <2>5, <2>6
<1>3. ASSUME NEW k \in Kinds, NEW u \in Users
      PROVE  IsFiniteSet(Owing(k, u))' /\ Fits(k, u, Tally(k, users[u]))'
  <2>1. users[u] \in UserRow /\ users'[u] = users[u]
    BY DEF TypeOK
  <2>2. PICK n \in Nat : n = Tally(k, users[u])
    BY <2>1, TallyType
  <2>3. Fits(k, u, n)
    BY <2>2
  <2>4. IsFiniteSet(Owing(k, u)') /\ n + Cardinality(Owing(k, u)') <= Cap(k, u)'
    BY <1>2, <2>3
  <2>5. QED BY <2>1, <2>2, <2>4 DEF Fits
<1>4. ASSUME NEW p \in Requests, req'[p].pc = "save_user", NEW k \in Kinds
      PROVE  req'[p].who \notin req'[p].todo /\ Fits(k, req[p].who, Tally(k, req[p].user))'
  <2>0. PICK r \in Request : r = req'[p]
    BY DEF TypeOK
  <2>1. r.who \in Users /\ r.user \in UserRow
    BY <2>0 DEF Request
  <2>2. PICK n \in Nat : n = Tally(k, r.user)
    BY <2>1, TallyType
  <2>3. r.who \notin r.todo /\ Fits(k, r.who, n)
    <3>1. CASE p = q
      BY <1>1, <1>4, <2>0, <2>1, <2>2, <3>1
    <3>2. CASE p # q
      BY <1>1, <1>4, <2>0, <2>2, <3>2 DEF Ready
    <3>3. QED BY <3>1, <3>2
  <2>4. n + Cardinality(Owing(k, r.who)') <= Cap(k, r.who)'
    BY <1>2, <2>1, <2>3
  <2>5. QED BY <2>0, <2>2, <2>3, <2>4 DEF Fits
<1>5. ASSUME NEW p \in Requests PROVE Ready(req[p])'
  <2>1. req'[p].pc = "delete" => req'[p].op # "create"
    BY <1>1 DEF Ready
  <2>2. req'[p].pc = "save_user" =>
          /\ req'[p].who \notin req'[p].todo
          /\ \A k \in Kinds : Fits(k, req[p].who, Tally(k, req[p].user))'
    <3>1. CASE req'[p].pc = "save_user"
      <4>1. req'[p].who \notin req'[p].todo
        BY <1>4, <3>1 DEF Kinds
      <4>2. QED BY <1>4, <3>1, <4>1
    <3>2. QED BY <3>1
  <2>3. QED BY <2>1, <2>2 DEF Ready
<1>6. QED BY <1>3, <1>5

\* A flag put on a content leaves room for one more in its author's total.
LEMMA InsertMakesRoom ==
  ASSUME TypeOK, TypeOK', NEW c \in Contents, NEW u \in Users, NEW auto \in BOOLEAN,
         Insert(c, u, auto)
  PROVE  Cap("total", Author[c]) + 1 <= Cap("total", Author[c])'
<1>1. /\ Ids' = Ids \cup {lastId + 1} /\ lastId + 1 \notin Ids
      /\ flags'[lastId + 1] =
           [content |-> c, reporter |-> u, status |-> "pending", auto |-> auto]
      /\ \A i \in Ids : flags'[i] = flags[i]
  BY InsertKeeps
<1>2. PICK S, id : S = FlagsOn(Author[c]) /\ id = lastId + 1
  OBVIOUS
<1>3. IsFiniteSet(S)
  BY <1>2, CapType, PeopleAssumption DEF Kinds
<1>4. flags'[id].content = c
  BY <1>1, <1>2
<1>5. id \notin S /\ FlagsOn(Author[c])' = S \cup {id}
  BY <1>1, <1>2, <1>4 DEF FlagsOn
<1>6. Cardinality(FlagsOn(Author[c])') = Cardinality(S) + 1
  BY <1>3, <1>5, FS_AddElement
<1>7. Cardinality(S) \in Nat
  BY <1>3, FS_CardinalityType
<1>8. QED BY <1>2, <1>6, <1>7 DEF Cap

LEMMA IdleOwesNothing == \A k, u : ~Owes(k, Idle, u)
BY DEF Owes, Idle, Saving

LEMMA OwedArrival ==
  ASSUME OwedInv, TypeOK', NEW q \in Requests, Arrival(q)
  PROVE  OwedInv'
<1> USE DEF OwedInv
<1>1. RowsKept /\ UNCHANGED users /\ At(q, "idle")
  BY SameRowsKept DEF Arrival, Post, Restore, Erase, CreateFlag, RetractFlag, ReviewFlags
<1>2. reviews \in Nat
  BY DEF TypeOK
<1>3. ASSUME NEW s, Goto(q, s), reviews <= reviews', s.pc # "save_user",
             s.pc = "delete" => s.op # "create",
             \A k \in Kinds, u \in Users :
               Owes(k, s, u) => Owes(k, req[q], u) \/ Cap(k, u) + 1 <= Cap(k, u)'
      PROVE  OwedInv'
  BY <1>1, <1>3, OwedMoved
<1>4. ASSUME NEW s, Goto(q, s), reviews' = reviews, s.pc \in {"watch", "insert", "delete"},
             s.pc = "delete" => s.op # "create"
      PROVE  OwedInv'
  <2>1. reviews <= reviews'
    BY <1>2, <1>4
  <2>2. \A k \in Kinds, u \in Users : ~Owes(k, s, u)
    BY <1>4 DEF Owes, Saving
  <2>3. QED BY <1>3, <1>4, <2>1, <2>2
<1>5. ASSUME NEW c \in Contents, Post(q, c) PROVE OwedInv'
  <2>1. [Idle EXCEPT !.pc = "watch", !.op = "post", !.c = c].pc = "watch"
    BY DEF Idle
  <2>2. QED BY <1>4, <1>5, <2>1 DEF Post
<1>6. ASSUME NEW c \in Contents, Restore(q, c) \/ Erase(q, c) PROVE OwedInv'
  <2>1. req' = req /\ reviews' = reviews
    BY <1>6 DEF Restore, Erase
  <2>2. Goto(q, req[q]) /\ req[q].pc = "idle"
    BY <1>1, <2>1 DEF Goto, At, TypeOK
  <2>3. reviews <= reviews'
    BY <1>2, <2>1
  <2>4. QED BY <1>3, <2>2, <2>3
<1>7. ASSUME NEW c \in Contents, NEW u \in Users, CreateFlag(q, c, u) PROVE OwedInv'
  <2>1. [Idle EXCEPT !.pc = "insert", !.op = "create", !.c = c, !.who = u].pc = "insert"
    BY DEF Idle
  <2>2. QED BY <1>4, <1>7, <2>1 DEF CreateFlag
<1>8. ASSUME NEW i \in Ids, NEW u \in Users, RetractFlag(q, i, u) PROVE OwedInv'
  <2>1. PICK s : s = [Idle EXCEPT !.pc = "delete", !.op = "retract", !.c = flags[i].content,
                                  !.who = u, !.ids = {i}]
    OBVIOUS
  <2>2. s.pc = "delete" /\ s.op = "retract"
    BY <2>1 DEF Idle
  <2>3. QED BY <1>4, <1>8, <2>1, <2>2 DEF RetractFlag
<1>9. ASSUME NEW ids \in SUBSET Ids, NEW c \in Contents,
             NEW action \in {"dismiss", "action"}, ReviewFlags(q, ids, c, action)
      PROVE  OwedInv'
  <2>1. PICK s : s = [Idle EXCEPT !.pc = "mark", !.op = action, !.c = c, !.ids = ids]
    OBVIOUS
  <2>2. s.pc = "mark"
    BY <2>1 DEF Idle
  <2>3. Goto(q, s) /\ reviews' = reviews + 1
    BY <1>9, <2>1 DEF ReviewFlags
  <2>4. ASSUME NEW k \in Kinds, NEW u \in Users, Owes(k, s, u)
        PROVE  Cap(k, u) + 1 <= Cap(k, u)'
    <3>1. k # "total"
      BY <2>2, <2>4 DEF Owes, Saving
    <3>2. QED BY <1>2, <2>3, <3>1 DEF Cap
  <2>5. reviews <= reviews'
    BY <1>2, <2>3
  <2>6. QED BY <1>3, <2>2, <2>3, <2>4, <2>5
<1>10. QED BY <1>5, <1>6, <1>7, <1>8, <1>9 DEF Arrival

\* Steps that save no user.
LEMMA OwedStep ==
  ASSUME OwedInv, TypeOK', NEW q \in Requests, Step(q) \/ Fail(q), ~SaveUser(q)
  PROVE  OwedInv'
<1> USE DEF OwedInv
<1> DEFINE r == req[q]
<1>0. r \in Request /\ Ready(r)
  BY DEF TypeOK
<1>1. UNCHANGED <<users, reviews>> /\ reviews <= reviews' /\ RowsKept
  <2>1. UNCHANGED <<users, reviews>>
    BY DEF Step, Fail, Watch, InsertFlag, DeleteRow, MarkRows, CountPending,
           LoadContent, SaveContent, Remove, Reward, LoadUser
  <2>2. RowsKept
    <3>1. CASE Watch(q)
      BY <1>0, <3>1, InsertKeeps, SameRowsKept, PeopleAssumption DEF Watch, Request
    <3>2. CASE InsertFlag(q)
      BY <1>0, <3>2, InsertKeeps, SameRowsKept DEF InsertFlag, Request
    <3>3. QED BY <3>1, <3>2, StepFrame
  <2>3. QED BY <2>1, <2>2 DEF TypeOK
<1>2. ASSUME NEW s, Goto(q, s), s.pc # "save_user", s.pc # "delete",
             \A k \in Kinds, u \in Users :
               Owes(k, s, u) => Owes(k, r, u) \/ Cap(k, u) + 1 <= Cap(k, u)'
      PROVE  OwedInv'
  BY <1>1, <1>2, OwedMoved
<1>3. CASE Watch(q) \/ Fail(q)
  BY <1>2, <1>3, IdleOwesNothing DEF Watch, Fail, Finish, Idle
<1>4. CASE InsertFlag(q)
  <2>1. CASE Flagged(r.c, r.who)
    BY <1>2, <1>4, <2>1, IdleOwesNothing DEF InsertFlag, Finish, Idle
  <2>2. CASE ~Flagged(r.c, r.who)
    <3>1. PICK s, c : s = [r EXCEPT !.pc = "count"] /\ c = r.c
      OBVIOUS
    <3>2. s.pc = "count" /\ s.c = c /\ c \in Contents
      BY <1>0, <3>1 DEF Request
    <3>3. Goto(q, s) /\ Insert(c, r.who, FALSE) /\ r.who \in Users
      BY <1>0, <1>4, <2>2, <3>1 DEF InsertFlag, Request
    <3>4. Cap("total", Author[c]) + 1 <= Cap("total", Author[c])'
      BY <3>2, <3>3, InsertMakesRoom
    <3>5. \A k \in Kinds, u \in Users : Owes(k, s, u) => k = "total" /\ u = Author[c]
      BY <3>2 DEF Owes, Saving
    <3>6. QED BY <1>2, <3>2, <3>3, <3>4, <3>5
  <2>3. QED BY <2>1, <2>2
<1>5. CASE DeleteRow(q)
  <2>1. PICK s : s = [r EXCEPT !.pc = "count"]
    OBVIOUS
  <2>2. s.pc = "count" /\ s.op # "create"
    BY <1>0, <1>5, <2>1 DEF Request, Ready, DeleteRow, At
  <2>3. \A k \in Kinds, u \in Users : ~Owes(k, s, u)
    BY <2>2 DEF Owes, Saving
  <2>4. QED BY <1>2, <1>5, <2>1, <2>2, <2>3 DEF DeleteRow
<1>6. CASE MarkRows(q)
  <2>1. r.pc = "mark"
    BY <1>6 DEF MarkRows, At
  <2>2. CASE r.op = "dismiss"
    <3>1. PICK s : s = [r EXCEPT !.pc = "load"]
      OBVIOUS
    <3>2. s.pc = "load" /\ s.op = "dismiss"
      BY <1>0, <2>2, <3>1 DEF Request
    <3>3. \A k \in Kinds, u \in Users : ~Owes(k, s, u)
      BY <3>2 DEF Owes, Saving
    <3>4. QED BY <1>2, <1>6, <2>2, <3>1, <3>2, <3>3 DEF MarkRows
  <2>3. CASE r.op # "dismiss"
    <3>1. PICK s : s = [r EXCEPT !.pc = "remove"]
      OBVIOUS
    <3>2. s.pc = "remove"
      BY <1>0, <3>1 DEF Request
    <3>3. \A k \in Kinds, u \in Users : Owes(k, s, u) => Owes(k, r, u)
      BY <2>1, <3>2 DEF Owes, Saving
    <3>4. QED BY <1>2, <1>6, <2>3, <3>1, <3>2, <3>3 DEF MarkRows
  <2>4. QED BY <2>2, <2>3
<1>7. CASE CountPending(q)
  <2>1. PICK s : s = [r EXCEPT !.pc = "load", !.n = PendingCount(r.c)]
    OBVIOUS
  <2>2. s.pc = "load" /\ s.op = r.op /\ s.c = r.c /\ r.pc = "count"
    BY <1>0, <1>7, <2>1 DEF Request, CountPending, At
  <2>3. \A k \in Kinds, u \in Users : Owes(k, s, u) => Owes(k, r, u)
    BY <2>2 DEF Owes, Saving
  <2>4. QED BY <1>2, <1>7, <2>1, <2>2, <2>3 DEF CountPending
<1>8. ASSUME r.pc \in {"load", "save"}, Goto(q, AfterContent(r))
      PROVE  OwedInv'
  <2>1. PICK s : s = AfterContent(r)
    OBVIOUS
  <2>2. \/ s.pc = "idle"
        \/ s.pc = "load_user" /\ s.counter = "none"
        \/ r.op = "create" /\ s.pc = "load_user" /\ s.counter = "total" /\ s.who = Author[r.c]
    BY <2>1 DEF AfterContent, Idle
  <2>3. \A k \in Kinds, u \in Users : Owes(k, s, u) => Owes(k, r, u)
    BY <1>8, <2>2 DEF Owes, Saving
  <2>4. QED BY <1>2, <1>8, <2>1, <2>2, <2>3
<1>9. CASE LoadContent(q)
  <2>1. r.pc = "load"
    BY <1>9 DEF LoadContent, At
  <2>2. CASE content[r.c].state = "live"
    <3>1. PICK s : s = [r EXCEPT !.pc = "save", !.row = ColumnsOf(content[r.c])]
      OBVIOUS
    <3>2. s.pc = "save" /\ s.op = r.op /\ s.c = r.c
      BY <1>0, <3>1 DEF Request
    <3>3. \A k \in Kinds, u \in Users : Owes(k, s, u) => Owes(k, r, u)
      BY <2>1, <3>2 DEF Owes, Saving
    <3>4. QED BY <1>2, <1>9, <2>2, <3>1, <3>2, <3>3 DEF LoadContent
  <2>3. CASE content[r.c].state # "live"
    BY <1>8, <1>9, <2>1, <2>3 DEF LoadContent
  <2>4. QED BY <2>2, <2>3
<1>10. CASE SaveContent(q)
  <2>1. r.pc = "save" /\ (Goto(q, Idle) \/ Goto(q, AfterContent(r)))
    BY <1>10 DEF SaveContent, At, Finish
  <2>2. CASE Goto(q, Idle)
    BY <1>2, <2>2, IdleOwesNothing DEF Idle
  <2>3. QED BY <1>8, <2>1, <2>2
<1>11. CASE Remove(q)
  <2>1. PICK s, t : /\ s = [r EXCEPT !.pc = "load_user", !.who = Author[r.c], !.counter = "valid"]
                    /\ t = [r EXCEPT !.pc = "reward"]
    OBVIOUS
  <2>2. s.pc = "load_user" /\ s.counter = "valid" /\ t.pc = "reward" /\ r.pc = "remove"
    BY <1>0, <1>11, <2>1 DEF Request, Remove, At
  <2>3. \A k \in Kinds, u \in Users : /\ Owes(k, s, u) => Owes(k, r, u)
                                      /\ Owes(k, t, u) => Owes(k, r, u)
    BY <2>2 DEF Owes, Saving
  <2>4. Goto(q, s) \/ Goto(q, t) \/ Goto(q, Idle)
    BY <1>11, <2>1 DEF Remove, Finish
  <2>5. CASE Goto(q, Idle)
    BY <1>2, <2>5, IdleOwesNothing DEF Idle
  <2>6. CASE Goto(q, s)
    BY <1>2, <2>2, <2>3, <2>6
  <2>7. CASE Goto(q, t)
    BY <1>2, <2>2, <2>3, <2>7
  <2>8. QED BY <2>4, <2>5, <2>6, <2>7
<1>12. CASE Reward(q)
  <2>1. PICK s : s = [Idle EXCEPT !.pc = "load_user", !.op = "action", !.c = r.c,
                                  !.counter = "validated",
                                  !.todo = {flags[i].reporter : i \in r.ids}]
    OBVIOUS
  <2>2. s.pc = "load_user" /\ s.counter = "validated" /\ r.pc = "reward"
    BY <1>12, <2>1 DEF Idle, Reward, At
  <2>3. \A k \in Kinds, u \in Users : Owes(k, s, u) => Owes(k, r, u)
    BY <2>2 DEF Owes, Saving
  <2>4. Goto(q, s) \/ Goto(q, Idle)
    BY <1>12, <2>1 DEF Reward
  <2>5. CASE Goto(q, Idle)
    BY <1>2, <2>5, IdleOwesNothing DEF Idle
  <2>6. QED BY <1>2, <2>2, <2>3, <2>4, <2>5
<1>13. CASE LoadUser(q)
  <2>1. r.pc = "load_user"
    BY <1>13 DEF LoadUser, At
  <2>2. CASE Goto(q, Idle)
    BY <1>2, <2>2, IdleOwesNothing DEF Idle
  <2>3. ASSUME NEW u \in Targets(r),
               Goto(q, [r EXCEPT !.pc = "save_user", !.who = u, !.user = users[u],
                                 !.todo = @ \ {u}])
        PROVE  OwedInv'
    <3>1. PICK s : s = [r EXCEPT !.pc = "save_user", !.who = u, !.user = users[u],
                                 !.todo = @ \ {u}]
      OBVIOUS
    <3>2. /\ s.pc = "save_user" /\ s.op = r.op /\ s.counter = r.counter
          /\ s.who = u /\ s.user = users[u] /\ s.todo = r.todo \ {u}
      BY <1>0, <3>1 DEF Request
    <3>3. IF r.counter = "validated" THEN u \in r.todo ELSE u = r.who
      BY <2>3 DEF Targets
    <3>4. \A k \in Kinds, v \in Users : Owes(k, s, v) => Owes(k, r, v)
      BY <2>1, <3>2, <3>3 DEF Owes, Saving
    <3>5. Goto(q, s) /\ s.who \notin s.todo
      BY <2>3, <3>1, <3>2
    <3>6. QED BY <1>1, <3>2, <3>4, <3>5, OwedMoved
  <2>4. QED BY <1>13, <2>2, <2>3 DEF LoadUser, Finish
<1>14. QED
  BY <1>3, <1>4, <1>5, <1>6, <1>7, <1>9, <1>10, <1>11, <1>12, <1>13 DEF Step

\* A request that saves a user adds the one that it owed, to what it had read.
LEMMA OwedSave ==
  ASSUME OwedInv, TypeOK', NEW q \in Requests, SaveUser(q)
  PROVE  OwedInv'
<1> USE DEF OwedInv
<1> DEFINE r == req[q]
           new == Rescored(r.who, Counted(r.user, r.counter), r.counter)
<1>0. /\ r \in Request /\ Ready(r) /\ r.pc = "save_user"
      /\ r.who \in Users /\ r.user \in UserRow /\ users[r.who] \in UserRow
      /\ r.counter \in Counters
  BY DEF TypeOK, Request, SaveUser, At
<1>1. req'[q] = AfterUser(r) /\ \A p \in Requests \ {q} : req'[p] = req[p]
  BY GotoGives DEF SaveUser
<1>2. /\ Owes(r.counter, r, r.who) \/ r.counter = "none"
      /\ ~Owes(r.counter, AfterUser(r), r.who)
      /\ \A k \in Kinds, u \in Users : Owes(k, AfterUser(r), u) => Owes(k, r, u)
      /\ AfterUser(r).pc \notin {"save_user", "delete"}
  <2>1. r.who \notin r.todo
    BY <1>0 DEF Ready
  <2>2. CASE r.counter = "valid"
    <3>1. AfterUser(r).pc = "reward"
      BY <1>0, <2>2 DEF AfterUser, Request
    <3>2. QED BY <1>0, <2>2, <3>1 DEF Owes, Saving
  <2>3. CASE r.counter = "validated" /\ r.todo # {}
    <3>1. /\ AfterUser(r).pc = "load_user" /\ AfterUser(r).counter = "validated"
          /\ AfterUser(r).todo = r.todo
      BY <1>0, <2>3 DEF AfterUser, Request
    <3>2. QED BY <1>0, <2>1, <2>3, <3>1 DEF Owes, Saving
  <2>4. CASE ~(r.counter = "valid") /\ ~(r.counter = "validated" /\ r.todo # {})
    <3>1. AfterUser(r) = Idle
      BY <2>4 DEF AfterUser
    <3>2. AfterUser(r).pc = "idle"
      BY <3>1 DEF Idle
    <3>3. Owes(r.counter, r, r.who) \/ r.counter = "none"
      BY <1>0, <2>4 DEF Owes, Saving, Counters
    <3>4. QED BY <3>1, <3>2, <3>3, IdleOwesNothing
  <2>5. QED BY <2>2, <2>3, <2>4
<1>3. ASSUME NEW k \in Kinds, NEW u \in Users
      PROVE  Cap(k, u)' = Cap(k, u) /\ Cap(k, u) \in Nat
  <2>1. Cap(k, u) \in Nat
    BY CapType
  <2>2. QED BY <2>1 DEF SaveUser, Cap, FlagsOn, Ids
<1>4. ASSUME NEW k \in Kinds, NEW u \in Users, NEW n \in Nat, Fits(k, u, n)
      PROVE  /\ IsFiniteSet(Owing(k, u)') /\ n + Cardinality(Owing(k, u)') <= Cap(k, u)
             /\ k = r.counter /\ u = r.who => n + 1 + Cardinality(Owing(k, u)') <= Cap(k, u)
  <2>1. PICK S, T, cap : S = Owing(k, u) /\ T = Owing(k, u)' /\ cap = Cap(k, u)
    OBVIOUS
  <2>2. IsFiniteSet(S) /\ n + Cardinality(S) <= cap /\ cap \in Nat
    BY <1>3, <1>4, <2>1 DEF Fits
  <2>3. T \subseteq S
    BY <1>1, <1>2, <2>1 DEF Owing
  <2>4. cap <= cap
    BY <2>2
  <2>5. IsFiniteSet(T) /\ n + Cardinality(T) <= cap
    BY <2>2, <2>3, <2>4, FewerOwe
  <2>6. ASSUME k = r.counter, u = r.who PROVE n + 1 + Cardinality(T) <= cap
    <3>1. r.counter # "none"
      BY <2>6 DEF Kinds
    <3>2. q \in S /\ T \subseteq S \ {q}
      BY <1>1, <1>2, <2>1, <2>3, <2>6, <3>1 DEF Owing
    <3>3. QED BY <2>2, <3>2, OnePaid
  <2>7. QED BY <2>1, <2>5, <2>6
<1>5. ASSUME NEW k \in Kinds
      PROVE  \/ Tally(k, users'[r.who]) = Tally(k, users[r.who])
             \/ k = r.counter /\ Tally(k, users'[r.who]) = Tally(k, r.user) + 1
  <2>1. new.total = IF r.counter = "total" THEN r.user.total + 1 ELSE r.user.total
    BY <1>0 DEF Rescored, Counted, Counters, UserRow
  <2>2. new.valid = IF r.counter = "valid" THEN r.user.valid + 1 ELSE r.user.valid
    BY <1>0 DEF Rescored, Counted, Counters, UserRow
  <2>3. new.validated = IF r.counter = "validated" THEN r.user.validated + 1
                                                   ELSE r.user.validated
    BY <1>0 DEF Rescored, Counted, Counters, UserRow
  <2>4. users'[r.who] = MergedUser(users[r.who], r.user, new)
    BY <1>0 DEF SaveUser, WriteUser, TypeOK
  <2> HIDE DEF new
  <2>5. PICK row : row = users'[r.who]
    OBVIOUS
  <2>6. /\ row.total = Changed(users[r.who].total, r.user.total, new.total)
        /\ row.valid = Changed(users[r.who].valid, r.user.valid, new.valid)
        /\ row.validated = Changed(users[r.who].validated, r.user.validated, new.validated)
    BY <1>0, <2>4, <2>5 DEF MergedUser, UserRow
  <2>7. QED BY <2>1, <2>2, <2>3, <2>5, <2>6 DEF Kinds, Tally, Changed
<1>6. ASSUME NEW k \in Kinds, NEW u \in Users
      PROVE  IsFiniteSet(Owing(k, u))' /\ Fits(k, u, Tally(k, users[u]))'
  <2>1. PICK n \in Nat : n = Tally(k, users[u])
    BY TallyType DEF TypeOK
  <2>2. Fits(k, u, n)
    BY <2>1
  <2>3. IsFiniteSet(Owing(k, u)') /\ n + Cardinality(Owing(k, u)') <= Cap(k, u)
    BY <1>4, <2>2
  <2>4. CASE Tally(k, users'[u]) = Tally(k, users[u])
    BY <1>3, <2>1, <2>3, <2>4 DEF Fits
  <2>5. CASE Tally(k, users'[u]) # Tally(k, users[u])
    <3>1. u = r.who
      BY <2>5 DEF SaveUser, WriteUser, TypeOK
    <3>2. k = r.counter /\ Tally(k, users'[u]) = Tally(k, r.user) + 1
      BY <1>5, <2>5, <3>1
    <3>3. PICK m \in Nat : m = Tally(k, r.user)
      BY <1>0, TallyType
    <3>4. Fits(k, u, m)
      BY <1>0, <3>1, <3>3 DEF Ready
    <3>5. m + 1 + Cardinality(Owing(k, u)') <= Cap(k, u)
      BY <1>4, <3>1, <3>2, <3>4
    <3>6. QED BY <1>3, <2>3, <3>2, <3>3, <3>5 DEF Fits
  <2>6. QED BY <2>4, <2>5
<1>7. ASSUME NEW p \in Requests PROVE Ready(req[p])'
  <2>1. CASE p = q
    BY <1>1, <1>2, <2>1 DEF Ready
  <2>2. CASE p # q
    <3>1. req'[p] = req[p] /\ Ready(req[p])
      BY <1>1, <2>2
    <3>2. ASSUME req[p].pc = "save_user", NEW k \in Kinds
          PROVE  Fits(k, req[p].who, Tally(k, req[p].user))'
      <4>1. req[p].who \in Users /\ req[p].user \in UserRow
        BY DEF TypeOK, Request
      <4>2. PICK u \in Users, n \in Nat : u = req[p].who /\ n = Tally(k, req[p].user)
        BY <4>1, TallyType
      <4>3. Fits(k, u, n)
        BY <3>1, <3>2, <4>2 DEF Ready
      <4>4. n + Cardinality(Owing(k, u)') <= Cap(k, u)
        BY <1>4, <4>3
      <4>5. QED BY <1>3, <3>1, <4>2, <4>4 DEF Fits
    <3>3. QED BY <3>1, <3>2 DEF Ready
  <2>3. QED BY <2>1, <2>2
<1>8. QED BY <1>6, <1>7

LEMMA OwedInductive == OwedInv /\ [Next]_vars => OwedInv'
<1>1. SUFFICES ASSUME OwedInv, [Next]_vars PROVE OwedInv'
  OBVIOUS
<1>2. TypeOK'
  BY <1>1, NextTyped DEF OwedInv
<1>3. CASE UNCHANGED vars
  BY <1>1, <1>2, <1>3 DEF OwedInv, Fits, Owing, Cap, FlagsOn, Ready, vars, Ids
<1>4. CASE Next
  BY <1>1, <1>2, <1>4, OwedArrival, OwedStep, OwedSave DEF Next
<1>5. QED BY <1>1, <1>3, <1>4

LEMMA OwedInitially == Init => OwedInv
<1>1. SUFFICES ASSUME Init PROVE OwedInv
  OBVIOUS
<1>2. TypeOK
  BY <1>1, InitTyped
<1>3. ASSUME NEW k \in Kinds, NEW u \in Users
      PROVE  IsFiniteSet(Owing(k, u)) /\ Fits(k, u, Tally(k, users[u]))
  <2>1. Owing(k, u) = {}
    BY <1>1, IdleOwesNothing DEF Init, Owing
  <2>2. Tally(k, users[u]) = 0
    BY <1>1 DEF Init, Tally, NewUser
  <2>3. Cap(k, u) \in Nat
    BY <1>2, CapType
  <2>4. QED BY <2>1, <2>2, <2>3, FS_EmptySet DEF Fits
<1>4. ASSUME NEW q \in Requests PROVE Ready(req[q])
  BY <1>1 DEF Init, Ready, Idle
<1>5. QED BY <1>2, <1>3, <1>4 DEF OwedInv

\* Whatever requests interleave, lose updates or die half-way, no author's total
\* exceeds the flags put on the author's contents, and nobody has more valid
\* flags or validated reports than reviews were made.
THEOREM CountersAreNotOvercounted == Spec => []CountersNeverOvercount
<1>1. OwedInv => CountersNeverOvercount
  <2>1. SUFFICES ASSUME OwedInv, NEW u \in Users
                 PROVE  /\ users[u].total <= Cardinality(FlagsOn(u))
                        /\ users[u].valid <= reviews
                        /\ users[u].validated <= reviews
    BY DEF CountersNeverOvercount, FlagsOn
  <2>2. ASSUME NEW k \in Kinds PROVE Tally(k, users[u]) <= Cap(k, u)
    <3>1. /\ IsFiniteSet(Owing(k, u))
          /\ Tally(k, users[u]) + Cardinality(Owing(k, u)) <= Cap(k, u)
      BY <2>1 DEF OwedInv, Fits
    <3>2. Tally(k, users[u]) \in Nat /\ Cap(k, u) \in Nat
      BY <2>1, TallyType, CapType DEF OwedInv, TypeOK
    <3>3. Cardinality(Owing(k, u)) \in Nat
      BY <3>1, FS_CardinalityType
    <3>4. QED BY <3>1, <3>2, <3>3
  <2>3. QED BY <2>2 DEF Kinds, Tally, Cap
<1>2. QED BY <1>1, OwedInitially, OwedInductive, PTL DEF Spec
-----------------------------------------------------------------------------
(* One request at a time: what a request has read is still so *)

OneAtATime == \A p, q \in Requests : p = q

StillSo(r) ==
  /\ r.pc = "insert" => r.op = "create"
  /\ r.pc = "delete" => /\ r.op = "retract"
                        /\ \E i \in Ids : /\ r.ids = {i}
                                          /\ flags[i].content = r.c
                                          /\ flags[i].reporter = r.who
                                          /\ flags[i].status = "pending"
  /\ r.pc = "save" => content[r.c].state = "live" /\ r.row = ColumnsOf(content[r.c])
  /\ r.pc = "save_user" => r.user = users[r.who]
  /\ Saving(r, "total") => r.op = "create"

TrustFollows == \A u \in Users : users[u].trust = TrustScore(u, users[u])
SerialInv == TypeOK /\ TrustFollows /\ \A q \in Requests : StillSo(req[q])

\* At most of its steps a request relies on nothing it has read.
LEMMA ReliesOnNothing ==
  ASSUME NEW s,
         s.pc \notin {"insert", "delete", "save", "save_user"},
         s.pc = "load_user" => s.counter # "total"
  PROVE  StillSo(s) /\ StillSo(s)'
BY DEF StillSo, Saving

LEMMA SerialMoved ==
  ASSUME OneAtATime, TypeOK, TypeOK', NEW q \in Requests, NEW s, Goto(q, s), StillSo(s)'
  PROVE  \A o \in Requests : StillSo(req[o])'
<1>1. req'[q] = s
  BY GotoGives
<1>2. \A o \in Requests : req'[o] = s
  BY <1>1 DEF OneAtATime
<1>3. QED BY <1>2 DEF StillSo, Saving

LEMMA SerialArrival ==
  ASSUME OneAtATime, SerialInv, TypeOK', NEW q \in Requests, Arrival(q)
  PROVE  \A o \in Requests : StillSo(req[o])'
<1> USE DEF SerialInv
<1>1. ASSUME NEW s, Goto(q, s), StillSo(s)' PROVE \A o \in Requests : StillSo(req[o])'
  BY <1>1, SerialMoved
<1>2. ASSUME NEW c \in Contents, Post(q, c) PROVE \A o \in Requests : StillSo(req[o])'
  <2>1. PICK s : s = [Idle EXCEPT !.pc = "watch", !.op = "post", !.c = c]
    OBVIOUS
  <2>2. s.pc = "watch"
    BY <2>1 DEF Idle
  <2>3. QED BY <1>1, <1>2, <2>1, <2>2, ReliesOnNothing DEF Post
<1>3. ASSUME NEW c \in Contents, Restore(q, c) \/ Erase(q, c)
      PROVE  \A o \in Requests : StillSo(req[o])'
  <2>1. req' = req /\ At(q, "idle")
    BY <1>3 DEF Restore, Erase
  <2>2. Goto(q, req[q])
    BY <2>1 DEF Goto, TypeOK
  <2>3. PICK s : s = req[q]
    OBVIOUS
  <2>4. s.pc = "idle" /\ Goto(q, s)
    BY <2>1, <2>2, <2>3 DEF At
  <2>5. QED BY <1>1, <2>4, ReliesOnNothing
<1>4. ASSUME NEW c \in Contents, NEW u \in Users, CreateFlag(q, c, u)
      PROVE  \A o \in Requests : StillSo(req[o])'
  <2>1. PICK s : s = [Idle EXCEPT !.pc = "insert", !.op = "create", !.c = c, !.who = u]
    OBVIOUS
  <2>2. s.pc = "insert" /\ s.op = "create"
    BY <2>1 DEF Idle
  <2>3. StillSo(s)'
    BY <2>2 DEF StillSo, Saving
  <2>4. QED BY <1>1, <1>4, <2>1, <2>3 DEF CreateFlag
<1>5. ASSUME NEW i \in Ids, NEW u \in Users, RetractFlag(q, i, u)
      PROVE  \A o \in Requests : StillSo(req[o])'
  <2>1. PICK s : s = [Idle EXCEPT !.pc = "delete", !.op = "retract", !.c = flags[i].content,
                                  !.who = u, !.ids = {i}]
    OBVIOUS
  <2>2. s.pc = "delete" /\ s.op = "retract" /\ s.ids = {i} /\ s.c = flags[i].content /\ s.who = u
    BY <2>1 DEF Idle
  <2>3. /\ flags[i].reporter = u /\ flags[i].status = "pending"
        /\ flags' = flags /\ Ids' = Ids
    BY <1>5 DEF RetractFlag, MayRetract, Ids
  <2>4. StillSo(s)'
    BY <2>2, <2>3 DEF StillSo, Saving
  <2>5. QED BY <1>1, <1>5, <2>1, <2>4 DEF RetractFlag
<1>6. ASSUME NEW ids \in SUBSET Ids, NEW c \in Contents,
             NEW action \in {"dismiss", "action"}, ReviewFlags(q, ids, c, action)
      PROVE  \A o \in Requests : StillSo(req[o])'
  <2>1. PICK s : s = [Idle EXCEPT !.pc = "mark", !.op = action, !.c = c, !.ids = ids]
    OBVIOUS
  <2>2. s.pc = "mark"
    BY <2>1 DEF Idle
  <2>3. QED BY <1>1, <1>6, <2>1, <2>2, ReliesOnNothing DEF ReviewFlags
<1>7. QED BY <1>2, <1>3, <1>4, <1>5, <1>6 DEF Arrival

\* What a step leaves its request at.
LEMMA SerialStep ==
  ASSUME OneAtATime, SerialInv, TypeOK', NEW q \in Requests, Step(q) \/ Fail(q)
  PROVE  \A o \in Requests : StillSo(req[o])'
<1> USE DEF SerialInv
<1> DEFINE r == req[q]
           Goal == \A o \in Requests : StillSo(req[o])'
<1>0. r \in Request /\ StillSo(r)
  BY DEF TypeOK
<1>1. ASSUME NEW s, Goto(q, s), StillSo(s)' PROVE Goal
  BY <1>1, SerialMoved
<1>2. ASSUME NEW s, Goto(q, s), s.pc \notin {"insert", "delete", "save", "save_user"},
             s.pc = "load_user" => s.counter # "total"
      PROVE  Goal
  BY <1>1, <1>2, ReliesOnNothing
<1>3. ASSUME Goto(q, Idle) PROVE Goal
  BY <1>2, <1>3 DEF Idle
<1>4. CASE Watch(q) \/ Fail(q)
  BY <1>3, <1>4 DEF Watch, Fail, Finish
<1>5. CASE InsertFlag(q) \/ DeleteRow(q)
  <2>1. PICK s : s = [r EXCEPT !.pc = "count"]
    OBVIOUS
  <2>2. s.pc = "count" /\ (Goto(q, s) \/ Goto(q, Idle))
    BY <1>0, <1>5, <2>1 DEF Request, InsertFlag, DeleteRow, Finish
  <2>3. QED BY <1>2, <1>3, <2>2
<1>6. CASE MarkRows(q)
  <2>1. PICK s, t : s = [r EXCEPT !.pc = "load"] /\ t = [r EXCEPT !.pc = "remove"]
    OBVIOUS
  <2>2. s.pc = "load" /\ t.pc = "remove" /\ (Goto(q, s) \/ Goto(q, t))
    BY <1>0, <1>6, <2>1 DEF Request, MarkRows
  <2>3. QED BY <1>2, <2>2
<1>7. CASE CountPending(q)
  <2>1. PICK s : s = [r EXCEPT !.pc = "load", !.n = PendingCount(r.c)]
    OBVIOUS
  <2>2. s.pc = "load" /\ Goto(q, s)
    BY <1>0, <1>7, <2>1 DEF Request, CountPending
  <2>3. QED BY <1>2, <2>2
<1>8. ASSUME Goto(q, AfterContent(r)) PROVE Goal
  <2>1. PICK s : s = AfterContent(r)
    OBVIOUS
  <2>2. s = Idle \/ (s.pc = "load_user" /\ (s.counter = "total" => s.op = "create"))
    BY <2>1 DEF AfterContent, Idle
  <2>3. CASE s = Idle
    BY <1>3, <1>8, <2>1, <2>3
  <2>4. CASE s # Idle
    <3>1. StillSo(s)'
      BY <2>2, <2>4 DEF StillSo, Saving
    <3>2. QED BY <1>1, <1>8, <2>1, <3>1
  <2>5. QED BY <2>3, <2>4
<1>9. CASE LoadContent(q)
  <2>1. CASE content[r.c].state = "live"
    <3>1. PICK s : s = [r EXCEPT !.pc = "save", !.row = ColumnsOf(content[r.c])]
      OBVIOUS
    <3>2. s.pc = "save" /\ s.c = r.c /\ s.row = ColumnsOf(content[r.c])
      BY <1>0, <3>1 DEF Request
    <3>3. content' = content /\ Goto(q, s)
      BY <1>9, <2>1, <3>1 DEF LoadContent
    <3>4. content'[s.c].state = "live" /\ s.row = ColumnsOf(content'[s.c])
      BY <2>1, <3>2, <3>3
    <3>5. StillSo(s)'
      BY <3>2, <3>4 DEF StillSo, Saving
    <3>6. QED BY <1>1, <3>3, <3>5
  <2>2. CASE content[r.c].state # "live"
    BY <1>8, <1>9, <2>2 DEF LoadContent
  <2>3. QED BY <2>1, <2>2
<1>10. CASE SaveContent(q)
  BY <1>3, <1>8, <1>10 DEF SaveContent, Finish
<1>11. CASE Remove(q)
  <2>1. PICK s, t : /\ s = [r EXCEPT !.pc = "load_user", !.who = Author[r.c], !.counter = "valid"]
                    /\ t = [r EXCEPT !.pc = "reward"]
    OBVIOUS
  <2>2. s.pc = "load_user" /\ s.counter = "valid" /\ t.pc = "reward"
    BY <1>0, <2>1 DEF Request
  <2>3. Goto(q, s) \/ Goto(q, t) \/ Goto(q, Idle)
    BY <1>11, <2>1 DEF Remove, Finish
  <2>4. QED BY <1>2, <1>3, <2>2, <2>3
<1>12. CASE Reward(q)
  <2>1. PICK s : s = [Idle EXCEPT !.pc = "load_user", !.op = "action", !.c = r.c,
                                  !.counter = "validated",
                                  !.todo = {flags[i].reporter : i \in r.ids}]
    OBVIOUS
  <2>2. s.pc = "load_user" /\ s.counter = "validated"
    BY <2>1 DEF Idle
  <2>3. Goto(q, s) \/ Goto(q, Idle)
    BY <1>12, <2>1 DEF Reward
  <2>4. QED BY <1>2, <1>3, <2>2, <2>3
<1>13. CASE LoadUser(q)
  <2>1. ASSUME NEW u \in Targets(r),
               Goto(q, [r EXCEPT !.pc = "save_user", !.who = u, !.user = users[u],
                                 !.todo = @ \ {u}])
        PROVE  Goal
    <3>1. PICK s : s = [r EXCEPT !.pc = "save_user", !.who = u, !.user = users[u],
                                 !.todo = @ \ {u}]
      OBVIOUS
    <3>2. /\ s.pc = "save_user" /\ s.op = r.op /\ s.counter = r.counter
          /\ s.who = u /\ s.user = users[u]
      BY <1>0, <3>1 DEF Request
    <3>3. users' = users /\ r.pc = "load_user"
      BY <1>13 DEF LoadUser, At
    <3>4. s.counter = "total" => s.op = "create"
      BY <1>0, <3>2, <3>3 DEF StillSo, Saving
    <3>5. s.user = users'[s.who]
      BY <3>2, <3>3
    <3>6. StillSo(s)'
      BY <3>2, <3>4, <3>5 DEF StillSo, Saving
    <3>7. QED BY <1>1, <2>1, <3>1, <3>6
  <2>2. QED BY <1>3, <1>13, <2>1 DEF LoadUser, Finish
<1>14. CASE SaveUser(q)
  <2>1. PICK s : s = AfterUser(r)
    OBVIOUS
  <2>2. \/ s = Idle
        \/ s.pc = "reward"
        \/ s.pc = "load_user" /\ s.counter = "validated"
    BY <1>0, <2>1 DEF AfterUser, Request
  <2>3. Goto(q, s)
    BY <1>14, <2>1 DEF SaveUser
  <2>4. QED BY <1>2, <1>3, <2>2, <2>3
<1>15. QED
  BY <1>4, <1>5, <1>6, <1>7, <1>9, <1>10, <1>11, <1>12, <1>13, <1>14 DEF Step

\* A request that runs alone writes back the very row it computed.
LEMMA SavedUserRow ==
  ASSUME SerialInv, NEW q \in Requests, SaveUser(q)
  PROVE  LET r == req[q]
             new == Rescored(r.who, Counted(r.user, r.counter), r.counter)
         IN /\ r.user = users[r.who] /\ r.who \in Users /\ r.counter \in Counters
            /\ new \in UserRow /\ users[r.who] \in UserRow
            /\ users' = [users EXCEPT ![r.who] = new]
<1> USE DEF SerialInv
<1> DEFINE r == req[q]
           new == Rescored(r.who, Counted(r.user, r.counter), r.counter)
<1>1. /\ r \in Request /\ r.user = users[r.who] /\ r.who \in Users
      /\ r.counter \in Counters /\ r.user \in UserRow
  BY DEF TypeOK, Request, SaveUser, At, StillSo
<1>2. new \in UserRow
  BY <1>1, SavedUserType
<1>3. users' = [users EXCEPT ![r.who] = MergedUser(users[r.who], r.user, new)]
  BY DEF SaveUser, WriteUser
<1> HIDE DEF new
<1>4. MergedUser(users[r.who], r.user, new) = new
  BY <1>1, <1>2 DEF MergedUser, Changed, UserRow
<1>5. QED BY <1>1, <1>2, <1>3, <1>4 DEF new

LEMMA TrustStep ==
  ASSUME SerialInv, NEW q \in Requests, Step(q)
  PROVE  TrustFollows'
<1> USE DEF SerialInv
<1>1. CASE ~SaveUser(q)
  <2>1. UNCHANGED users
    BY <1>1 DEF Step, Watch, InsertFlag, DeleteRow, MarkRows, CountPending,
                LoadContent, SaveContent, Remove, Reward, LoadUser
  <2>2. QED BY <2>1 DEF TrustFollows
<1>2. CASE SaveUser(q)
  <2>1. PICK r, new : /\ r = req[q]
                      /\ new = Rescored(r.who, Counted(r.user, r.counter), r.counter)
    OBVIOUS
  <2>2. /\ r.user = users[r.who] /\ r.who \in Users /\ r.counter \in Counters
        /\ new \in UserRow /\ users[r.who] \in UserRow
        /\ users' = [users EXCEPT ![r.who] = new]
    BY <1>2, <2>1, SavedUserRow
  <2>3. new.trust = TrustScore(r.who, new)
    <3>1. PICK counted : counted = Counted(r.user, r.counter)
      OBVIOUS
    <3>2. new = Rescored(r.who, counted, r.counter)
      BY <2>1, <3>1
    <3>3. CASE r.counter = "total"
      <4>1. new = [r.user EXCEPT !.total = @ + 1]
        BY <3>1, <3>2, <3>3 DEF Rescored, Counted
      <4>2. /\ new.trust = r.user.trust /\ new.valid = r.user.valid
            /\ new.validated = r.user.validated
        BY <2>2, <4>1 DEF UserRow
      <4>3. r.user.trust = TrustScore(r.who, r.user)
        BY <2>2 DEF TrustFollows
      <4>4. QED BY <4>2, <4>3 DEF TrustScore
    <3>4. CASE r.counter # "total"
      <4>1. new = [counted EXCEPT !.trust = TrustScore(r.who, counted)]
        BY <3>2, <3>4 DEF Rescored
      <4>2. counted \in UserRow
        BY <2>2, <3>1 DEF Counted, Counters, UserRow
      <4>3. /\ new.trust = TrustScore(r.who, counted) /\ new.valid = counted.valid
            /\ new.validated = counted.validated
        BY <4>1, <4>2 DEF UserRow
      <4>4. QED BY <4>3 DEF TrustScore
    <3>5. QED BY <3>3, <3>4
  <2>4. QED BY <2>2, <2>3 DEF TrustFollows, TypeOK
<1>3. QED BY <1>1, <1>2

LEMMA SerialInductive ==
  ASSUME OneAtATime
  PROVE  SerialInv /\ [Next]_vars => SerialInv'
<1>1. SUFFICES ASSUME SerialInv, [Next]_vars PROVE SerialInv'
  OBVIOUS
<1>2. TypeOK /\ TypeOK'
  BY <1>1, NextTyped DEF SerialInv
<1>3. CASE UNCHANGED vars
  BY <1>1, <1>2, <1>3 DEF SerialInv, TrustFollows, StillSo, Saving, vars, Ids
<1>4. ASSUME NEW q \in Requests, Arrival(q) PROVE SerialInv'
  <2>1. TrustFollows'
    BY <1>1, <1>4 DEF Arrival, Post, Restore, Erase, CreateFlag, RetractFlag, ReviewFlags,
                      SerialInv, TrustFollows
  <2>2. QED BY <1>1, <1>2, <1>4, <2>1, SerialArrival DEF SerialInv
<1>5. ASSUME NEW q \in Requests, Step(q) PROVE SerialInv'
  <2>1. TrustFollows'
    BY <1>1, <1>5, TrustStep
  <2>2. QED BY <1>1, <1>2, <1>5, <2>1, SerialStep DEF SerialInv
<1>6. ASSUME NEW q \in Requests, Fail(q) PROVE SerialInv'
  <2>1. TrustFollows'
    BY <1>1, <1>6 DEF Fail, SerialInv, TrustFollows
  <2>2. QED BY <1>1, <1>2, <1>6, <2>1, SerialStep DEF SerialInv
<1>7. QED BY <1>1, <1>3, <1>4, <1>5, <1>6 DEF Next

LEMMA SerialInitially == Init => SerialInv
<1>1. SUFFICES ASSUME Init PROVE SerialInv
  OBVIOUS
<1>2. TypeOK
  BY <1>1, InitTyped
<1>3. TrustFollows
  BY <1>1 DEF Init, TrustFollows, NewUser, TrustScore
<1>4. ASSUME NEW q \in Requests PROVE StillSo(req[q])
  BY <1>1 DEF Init, StillSo, Saving, Idle
<1>5. QED BY <1>2, <1>3, <1>4 DEF SerialInv

\* Requests that run one at a time keep every stored trust score equal to the
\* formula over the stored counters, even between the steps of a request and
\* when requests die (calculate_trust_score is stored with what it is computed from).
THEOREM TrustStaysCurrent == ASSUME OneAtATime PROVE Spec => []TrustIsCurrent
<1>1. SerialInv => TrustIsCurrent
  BY DEF SerialInv, TrustFollows, TrustIsCurrent
<1>2. QED BY <1>1, SerialInitially, SerialInductive, PTL DEF Spec

\* Requests that run one at a time delete no flag that was reviewed: the row a
\* retraction deletes is still pending, as its check found it.
THEOREM ReviewedFlagsStay == ASSUME OneAtATime PROVE Spec => ReviewedNeverDeleted
<1> DEFINE A == \A i \in Ids : flags[i].status \in {"dismissed", "actioned"}
                                 => flags'[i].status # "deleted"
<1>1. SerialInv /\ [Next]_vars => [A]_vars
  <2>1. SUFFICES ASSUME SerialInv, Next, NEW i \in Ids,
                        flags[i].status \in {"dismissed", "actioned"}
                 PROVE  flags'[i].status # "deleted"
    OBVIOUS
  <2> USE DEF SerialInv
  <2>2. flags[i] \in FlagRow /\ Ids = 1..lastId /\ lastId \in Nat
    BY <2>1 DEF TypeOK, Ids
  <2>3. ASSUME UNCHANGED flags PROVE flags'[i].status # "deleted"
    BY <2>1, <2>3
  <2>4. ASSUME NEW c, NEW u, NEW auto, Insert(c, u, auto) PROVE flags'[i].status # "deleted"
    BY <2>1, <2>2, <2>4 DEF Insert
  <2>5. ASSUME NEW ids, NEW status, Mark(ids, status), status # "deleted" \/ i \notin ids
        PROVE  flags'[i].status # "deleted"
    BY <2>1, <2>2, <2>5 DEF Mark, FlagRow
  <2>6. ASSUME NEW q \in Requests, Arrival(q) PROVE flags'[i].status # "deleted"
    BY <2>3, <2>6 DEF Arrival, Post, Restore, Erase, CreateFlag, RetractFlag, ReviewFlags
  <2>7. ASSUME NEW q \in Requests, Step(q) \/ Fail(q) PROVE flags'[i].status # "deleted"
    <3>1. CASE Watch(q)
      BY <2>3, <2>4, <3>1 DEF Watch
    <3>2. CASE InsertFlag(q)
      BY <2>3, <2>4, <3>2 DEF InsertFlag
    <3>3. CASE DeleteRow(q)
      <4>1. i \notin req[q].ids
        BY <2>1, <3>3 DEF StillSo, DeleteRow, At
      <4>2. QED BY <2>5, <3>3, <4>1 DEF DeleteRow
    <3>4. CASE MarkRows(q)
      BY <2>5, <3>4 DEF MarkRows
    <3>5. CASE ~(Watch(q) \/ InsertFlag(q) \/ DeleteRow(q) \/ MarkRows(q))
      BY <2>3, <2>7, <3>5 DEF Step, Fail, CountPending, LoadContent, SaveContent, Remove,
                              Reward, LoadUser, SaveUser
    <3>6. QED BY <3>1, <3>2, <3>3, <3>4, <3>5
  <2>8. QED BY <2>1, <2>6, <2>7 DEF Next
<1>2. QED
  BY <1>1, SerialInitially, SerialInductive, PTL DEF Spec, ReviewedNeverDeleted
-----------------------------------------------------------------------------
(* One request at a time, none of which dies: the author's total is exact *)

Asked(u) == {i \in Ids : Author[flags[i].content] = u /\ ~flags[i].auto}
TotalDue(u) == \E q \in Requests : Owes("total", req[q], u)
TotalsFollow ==
  \A u \in Users :
    Cardinality(Asked(u)) = users[u].total + (IF TotalDue(u) THEN 1 ELSE 0)
TotalInv == SerialInv /\ TotalsFollow

LEMMA AskedFinite ==
  ASSUME TypeOK, NEW u
  PROVE  IsFiniteSet(Asked(u)) /\ Cardinality(Asked(u)) \in Nat
<1>1. IsFiniteSet(Ids) /\ Asked(u) \subseteq Ids
  BY FS_Interval DEF TypeOK, Ids, Asked
<1>2. IsFiniteSet(Asked(u))
  BY <1>1, FS_Subset
<1>3. QED BY <1>2, FS_CardinalityType

\* A step that counts nothing and asks nothing owes what it owed.
LEMMA TotalMoved ==
  ASSUME OneAtATime, TotalInv, NEW q \in Requests, NEW s, Goto(q, s), UNCHANGED users,
         \A u \in Users : Asked(u)' = Asked(u),
         \A u \in Users : Owes("total", s, u) <=> Owes("total", req[q], u)
  PROVE  TotalsFollow'
<1> USE DEF TotalInv, SerialInv
<1>1. req'[q] = s /\ \A o \in Requests : o = q
  BY GotoGives DEF OneAtATime
<1>2. \A u \in Users : TotalDue(u)' <=> TotalDue(u)
  BY <1>1 DEF TotalDue
<1>3. QED BY <1>2 DEF TotalsFollow

LEMMA SameAsked ==
  ASSUME UNCHANGED <<lastId, flags>>
  PROVE  \A u \in Users : Asked(u)' = Asked(u)
BY DEF Asked, Ids

LEMMA MarkedAsked ==
  ASSUME TypeOK, NEW ids, NEW status, Mark(ids, status), UNCHANGED lastId
  PROVE  \A u \in Users : Asked(u)' = Asked(u)
<1>1. Ids' = Ids
  BY DEF Ids
<1>2. \A i \in Ids : /\ flags'[i].content = flags[i].content
                     /\ flags'[i].auto = flags[i].auto
  BY DEF Mark, TypeOK, FlagRow
<1>3. QED BY <1>1, <1>2 DEF Asked

LEMMA AutoFlagAsked ==
  ASSUME TypeOK, NEW c \in Contents, Insert(c, System, TRUE)
  PROVE  \A u \in Users : Asked(u)' = Asked(u)
<1>1. PICK id : id = lastId + 1
  OBVIOUS
<1>2. /\ Ids' = Ids \cup {id} /\ id \notin Ids
      /\ flags'[id] = [content |-> c, reporter |-> System, status |-> "pending", auto |-> TRUE]
      /\ \A i \in Ids : flags'[i] = flags[i]
  BY <1>1, InsertKeeps, PeopleAssumption
<1>3. flags'[id].auto
  BY <1>2
<1>4. QED BY <1>2, <1>3 DEF Asked

LEMMA TotalArrival ==
  ASSUME OneAtATime, TotalInv, NEW q \in Requests, Arrival(q)
  PROVE  TotalsFollow'
<1> USE DEF TotalInv, SerialInv
<1>1. UNCHANGED <<lastId, flags, users>> /\ At(q, "idle")
  BY DEF Arrival, Post, Restore, Erase, CreateFlag, RetractFlag, ReviewFlags
<1>2. \A u \in Users : ~Owes("total", req[q], u)
  BY <1>1 DEF Owes, Saving, At
<1>3. PICK s : Goto(q, s) /\ s.pc \in {"idle", "watch", "insert", "delete", "mark"}
  <2>1. ASSUME NEW c \in Contents, Restore(q, c) \/ Erase(q, c)
        PROVE  Goto(q, req[q]) /\ req[q].pc = "idle"
    BY <2>1 DEF Restore, Erase, Goto, At, TypeOK
  <2>2. ASSUME NEW c \in Contents, Post(q, c)
        PROVE  \E s : Goto(q, s) /\ s.pc = "watch"
    <3>1. [Idle EXCEPT !.pc = "watch", !.op = "post", !.c = c].pc = "watch"
      BY DEF Idle
    <3>2. QED BY <2>2, <3>1 DEF Post
  <2>3. ASSUME NEW c \in Contents, NEW u \in Users, CreateFlag(q, c, u)
        PROVE  \E s : Goto(q, s) /\ s.pc = "insert"
    <3>1. [Idle EXCEPT !.pc = "insert", !.op = "create", !.c = c, !.who = u].pc = "insert"
      BY DEF Idle
    <3>2. QED BY <2>3, <3>1 DEF CreateFlag
  <2>4. ASSUME NEW i \in Ids, NEW u \in Users, RetractFlag(q, i, u)
        PROVE  \E s : Goto(q, s) /\ s.pc = "delete"
    <3>1. [Idle EXCEPT !.pc = "delete", !.op = "retract", !.c = flags[i].content,
                       !.who = u, !.ids = {i}].pc = "delete"
      BY DEF Idle
    <3>2. QED BY <2>4, <3>1 DEF RetractFlag
  <2>5. ASSUME NEW ids \in SUBSET Ids, NEW c \in Contents,
               NEW action \in {"dismiss", "action"}, ReviewFlags(q, ids, c, action)
        PROVE  \E s : Goto(q, s) /\ s.pc = "mark"
    <3>1. [Idle EXCEPT !.pc = "mark", !.op = action, !.c = c, !.ids = ids].pc = "mark"
      BY DEF Idle
    <3>2. QED BY <2>5, <3>1 DEF ReviewFlags
  <2>6. QED BY <2>1, <2>2, <2>3, <2>4, <2>5 DEF Arrival
<1>4. \A u \in Users : ~Owes("total", s, u)
  BY <1>3 DEF Owes, Saving
<1>5. QED BY <1>1, <1>2, <1>3, <1>4, SameAsked, TotalMoved

LEMMA TotalStep ==
  ASSUME OneAtATime, TotalInv, NEW q \in Requests, Step(q)
  PROVE  TotalsFollow'
<1> USE DEF TotalInv, SerialInv
<1> DEFINE r == req[q]
<1>0. r \in Request /\ StillSo(r) /\ r.c \in Contents /\ Author[r.c] \in Users
  BY PeopleAssumption DEF TypeOK, Request
<1>1. ASSUME NEW s, Goto(q, s), UNCHANGED <<lastId, flags, users>>,
             \A u \in Users : Owes("total", s, u) <=> Owes("total", r, u)
      PROVE  TotalsFollow'
  BY <1>1, SameAsked, TotalMoved
<1>2. CASE Watch(q)
  <2>1. Goto(q, Idle) /\ UNCHANGED users /\ r.pc = "watch"
    BY <1>2 DEF Watch, Finish, At
  <2>2. \A u \in Users : Asked(u)' = Asked(u)
    BY <1>0, <1>2, SameAsked, AutoFlagAsked DEF Watch
  <2>3. \A u \in Users : Owes("total", Idle, u) <=> Owes("total", r, u)
    BY <2>1, IdleOwesNothing DEF Owes, Saving
  <2>4. QED BY <2>1, <2>2, <2>3, TotalMoved
<1>3. CASE InsertFlag(q)
  <2>1. r.pc = "insert" /\ r.op = "create" /\ UNCHANGED users
    BY <1>0, <1>3 DEF InsertFlag, At, StillSo
  <2>2. \A u \in Users : ~Owes("total", r, u)
    BY <2>1 DEF Owes, Saving
  <2>3. CASE Flagged(r.c, r.who)
    BY <1>1, <1>3, <2>2, <2>3, IdleOwesNothing DEF InsertFlag, Finish
  <2>4. CASE ~Flagged(r.c, r.who)
    <3>1. PICK s, c, a, id : /\ s = [r EXCEPT !.pc = "count"]
                             /\ c = r.c /\ a = Author[c] /\ id = lastId + 1
      OBVIOUS
    <3>2. s.pc = "count" /\ s.op = "create" /\ s.c = c
      BY <1>0, <2>1, <3>1 DEF Request
    <3>3. Goto(q, s) /\ Insert(c, r.who, FALSE) /\ r.who \in Users
      BY <1>0, <1>3, <2>4, <3>1 DEF InsertFlag, Request
    <3>4. /\ Ids' = Ids \cup {id} /\ id \notin Ids
          /\ flags'[id] = [content |-> c, reporter |-> r.who, status |-> "pending",
                           auto |-> FALSE]
          /\ \A i \in Ids : flags'[i] = flags[i]
      BY <1>0, <3>1, <3>3, InsertKeeps
    <3>5. flags'[id].content = c /\ ~flags'[id].auto
      BY <3>4
    <3>6. ASSUME NEW u \in Users
          PROVE  /\ Asked(u)' = Asked(u) \cup (IF u = a THEN {id} ELSE {})
                 /\ id \notin Asked(u)
      BY <3>1, <3>4, <3>5 DEF Asked
    <3>7. ASSUME NEW u \in Users
          PROVE  Cardinality(Asked(u)') = Cardinality(Asked(u)) + (IF u = a THEN 1 ELSE 0)
      <4>1. IsFiniteSet(Asked(u)) /\ Cardinality(Asked(u)) \in Nat
        BY AskedFinite
      <4>2. CASE u = a
        BY <3>6, <4>1, <4>2, FS_AddElement
      <4>3. CASE u # a
        BY <3>6, <4>1, <4>3
      <4>4. QED BY <4>2, <4>3
    <3>8. req'[q] = s /\ \A o \in Requests : o = q
      BY <3>3, GotoGives DEF OneAtATime
    <3>9. \A u \in Users : /\ TotalDue(u)' <=> u = a
                           /\ ~TotalDue(u)
      BY <2>2, <3>1, <3>2, <3>8 DEF TotalDue, Owes, Saving
    <3>10. ASSUME NEW u \in Users
           PROVE  Cardinality(Asked(u)') = users'[u].total + (IF TotalDue(u)' THEN 1 ELSE 0)
      <4>1. users[u].total \in Nat /\ users' = users
        BY <2>1 DEF TypeOK, UserRow
      <4>2. Cardinality(Asked(u)) = users[u].total
        BY <3>9, <4>1 DEF TotalsFollow
      <4>3. QED BY <3>7, <3>9, <4>1, <4>2
    <3>11. QED BY <3>10 DEF TotalsFollow
  <2>5. QED BY <2>3, <2>4
<1>4. CASE DeleteRow(q)
  <2>1. PICK s : s = [r EXCEPT !.pc = "count"]
    OBVIOUS
  <2>2. r.pc = "delete" /\ s.pc = "count" /\ s.op = "retract"
    BY <1>0, <1>4, <2>1 DEF Request, StillSo, DeleteRow, At
  <2>3. \A u \in Users : Owes("total", s, u) <=> Owes("total", r, u)
    BY <2>2 DEF Owes, Saving
  <2>4. \A u \in Users : Asked(u)' = Asked(u)
    BY <1>4, MarkedAsked DEF DeleteRow
  <2>5. QED BY <1>4, <2>1, <2>3, <2>4, TotalMoved DEF DeleteRow
<1>5. CASE MarkRows(q)
  <2>1. PICK s, t : s = [r EXCEPT !.pc = "load"] /\ t = [r EXCEPT !.pc = "remove"]
    OBVIOUS
  <2>2. s.pc = "load" /\ s.op = r.op /\ t.pc = "remove" /\ r.pc = "mark"
    BY <1>0, <1>5, <2>1 DEF Request, MarkRows, At
  <2>3. \/ Goto(q, s) /\ r.op = "dismiss"
        \/ Goto(q, t)
    BY <1>5, <2>1 DEF MarkRows
  <2>4. \A u \in Users : /\ ~Owes("total", r, u) /\ ~Owes("total", t, u)
                         /\ r.op = "dismiss" => ~Owes("total", s, u)
    BY <2>2 DEF Owes, Saving
  <2>5. \A u \in Users : Asked(u)' = Asked(u)
    BY <1>5, MarkedAsked DEF MarkRows
  <2>6. UNCHANGED users
    BY <1>5 DEF MarkRows
  <2>7. CASE Goto(q, s) /\ r.op = "dismiss"
    BY <2>4, <2>5, <2>6, <2>7, TotalMoved
  <2>8. CASE Goto(q, t)
    BY <2>4, <2>5, <2>6, <2>8, TotalMoved
  <2>9. QED BY <2>3, <2>7, <2>8
<1>6. CASE CountPending(q)
  <2>1. PICK s : s = [r EXCEPT !.pc = "load", !.n = PendingCount(r.c)]
    OBVIOUS
  <2>2. s.pc = "load" /\ s.op = r.op /\ s.c = r.c /\ r.pc = "count"
    BY <1>0, <1>6, <2>1 DEF Request, CountPending, At
  <2>3. \A u \in Users : Owes("total", s, u) <=> Owes("total", r, u)
    BY <2>2 DEF Owes, Saving
  <2>4. QED BY <1>1, <1>6, <2>1, <2>3 DEF CountPending
<1>7. ASSUME r.pc \in {"load", "save"}, Goto(q, AfterContent(r)),
             UNCHANGED <<lastId, flags, users>>
      PROVE  TotalsFollow'
  <2>1. PICK s : s = AfterContent(r)
    OBVIOUS
  <2>2. /\ r.op = "create" => /\ s.pc = "load_user" /\ s.counter = "total"
                              /\ s.who = Author[r.c]
        /\ r.op # "create" => s.counter = "none" /\ s.pc \in {"idle", "load_user"}
    BY <2>1 DEF AfterContent, Idle
  <2>3. \A u \in Users : Owes("total", s, u) <=> Owes("total", r, u)
    BY <1>7, <2>2 DEF Owes, Saving
  <2>4. QED BY <1>1, <1>7, <2>1, <2>3
<1>8. CASE LoadContent(q)
  <2>1. r.pc = "load" /\ UNCHANGED <<lastId, flags, users>>
    BY <1>8 DEF LoadContent, At
  <2>2. CASE content[r.c].state = "live"
    <3>1. PICK s : s = [r EXCEPT !.pc = "save", !.row = ColumnsOf(content[r.c])]
      OBVIOUS
    <3>2. s.pc = "save" /\ s.op = r.op /\ s.c = r.c
      BY <1>0, <3>1 DEF Request
    <3>3. \A u \in Users : Owes("total", s, u) <=> Owes("total", r, u)
      BY <2>1, <3>2 DEF Owes, Saving
    <3>4. QED BY <1>1, <1>8, <2>1, <2>2, <3>1, <3>3 DEF LoadContent
  <2>3. CASE content[r.c].state # "live"
    BY <1>7, <1>8, <2>1, <2>3 DEF LoadContent
  <2>4. QED BY <2>2, <2>3
<1>9. CASE SaveContent(q)
  <2>1. r.pc = "save" /\ UNCHANGED <<lastId, flags, users>>
    BY <1>9 DEF SaveContent, At
  <2>2. content[r.c].state = "live"
    BY <1>0, <2>1 DEF StillSo
  <2>3. Goto(q, AfterContent(r))
    BY <1>9, <2>2 DEF SaveContent
  <2>4. QED BY <1>7, <2>1, <2>3
<1>10. CASE Remove(q)
  <2>1. PICK s, t : /\ s = [r EXCEPT !.pc = "load_user", !.who = Author[r.c], !.counter = "valid"]
                    /\ t = [r EXCEPT !.pc = "reward"]
    OBVIOUS
  <2>2. s.pc = "load_user" /\ s.counter = "valid" /\ t.pc = "reward" /\ r.pc = "remove"
    BY <1>0, <1>10, <2>1 DEF Request, Remove, At
  <2>3. \A u \in Users : /\ ~Owes("total", r, u) /\ ~Owes("total", s, u)
                         /\ ~Owes("total", t, u) /\ ~Owes("total", Idle, u)
    BY <2>2, IdleOwesNothing DEF Owes, Saving
  <2>4. UNCHANGED <<lastId, flags, users>> /\ (Goto(q, s) \/ Goto(q, t) \/ Goto(q, Idle))
    BY <1>10, <2>1 DEF Remove, Finish
  <2>5. QED BY <1>1, <2>3, <2>4
<1>11. CASE Reward(q)
  <2>1. PICK s : s = [Idle EXCEPT !.pc = "load_user", !.op = "action", !.c = r.c,
                                  !.counter = "validated",
                                  !.todo = {flags[i].reporter : i \in r.ids}]
    OBVIOUS
  <2>2. s.pc = "load_user" /\ s.counter = "validated" /\ r.pc = "reward"
    BY <1>11, <2>1 DEF Idle, Reward, At
  <2>3. \A u \in Users : /\ ~Owes("total", r, u) /\ ~Owes("total", s, u)
                         /\ ~Owes("total", Idle, u)
    BY <2>2, IdleOwesNothing DEF Owes, Saving
  <2>4. UNCHANGED <<lastId, flags, users>> /\ (Goto(q, s) \/ Goto(q, Idle))
    BY <1>11, <2>1 DEF Reward
  <2>5. QED BY <1>1, <2>3, <2>4
<1>12. CASE LoadUser(q)
  <2>1. r.pc = "load_user" /\ UNCHANGED <<lastId, flags, users>>
    BY <1>12 DEF LoadUser, At
  <2>2. CASE NoAuthor(r)
    <3>1. r.counter # "total"
      BY <1>0, <2>1, <2>2 DEF NoAuthor, StillSo, Saving
    <3>2. \A u \in Users : Owes("total", Idle, u) <=> Owes("total", r, u)
      BY <2>1, <3>1, IdleOwesNothing DEF Owes, Saving
    <3>3. QED BY <1>1, <1>12, <2>1, <2>2, <3>2 DEF LoadUser, Finish
  <2>3. ASSUME NEW u \in Targets(r),
               Goto(q, [r EXCEPT !.pc = "save_user", !.who = u, !.user = users[u],
                                 !.todo = @ \ {u}])
        PROVE  TotalsFollow'
    <3>1. PICK s : s = [r EXCEPT !.pc = "save_user", !.who = u, !.user = users[u],
                                 !.todo = @ \ {u}]
      OBVIOUS
    <3>2. s.pc = "save_user" /\ s.counter = r.counter /\ s.who = u
      BY <1>0, <3>1 DEF Request
    <3>3. r.counter # "validated" => u = r.who
      BY <2>3 DEF Targets
    <3>4. \A v \in Users : Owes("total", s, v) <=> Owes("total", r, v)
      BY <2>1, <3>2, <3>3 DEF Owes, Saving
    <3>5. QED BY <1>1, <2>1, <2>3, <3>1, <3>4
  <2>4. QED BY <1>12, <2>2, <2>3 DEF LoadUser
<1>13. CASE SaveUser(q)
  <2>1. PICK w, new : /\ w = r.who
                      /\ new = Rescored(r.who, Counted(r.user, r.counter), r.counter)
    OBVIOUS
  <2>2. /\ r.user = users[w] /\ w \in Users /\ r.counter \in Counters
        /\ new \in UserRow /\ users[w] \in UserRow
        /\ users' = [users EXCEPT ![w] = new]
    BY <1>13, <2>1, SavedUserRow
  <2>3. new.total = IF r.counter = "total" THEN users[w].total + 1 ELSE users[w].total
    BY <2>1, <2>2 DEF Rescored, Counted, Counters, UserRow
  <2>4. Goto(q, AfterUser(r)) /\ r.pc = "save_user" /\ UNCHANGED <<lastId, flags>>
    BY <1>13 DEF SaveUser, At
  <2>5. \A u \in Users : ~Owes("total", AfterUser(r), u)
    <3>1. PICK s : s = AfterUser(r)
      OBVIOUS
    <3>2. \/ s = Idle
          \/ s.pc = "reward"
          \/ s.pc = "load_user" /\ s.counter = "validated"
      BY <1>0, <3>1 DEF AfterUser, Request
    <3>3. QED BY <3>1, <3>2, IdleOwesNothing DEF Owes, Saving
  <2>6. req'[q] = AfterUser(r) /\ \A o \in Requests : o = q
    BY <2>4, GotoGives DEF OneAtATime
  <2>7. ASSUME NEW u \in Users
        PROVE  /\ ~TotalDue(u)'
               /\ TotalDue(u) <=> r.counter = "total" /\ u = w
               /\ Asked(u)' = Asked(u)
    <3>1. ~TotalDue(u)'
      BY <2>5, <2>6 DEF TotalDue
    <3>2. TotalDue(u) <=> r.counter = "total" /\ u = w
      BY <2>1, <2>4, <2>6 DEF TotalDue, Owes, Saving
    <3>3. QED BY <2>4, <3>1, <3>2, SameAsked
  <2>8. ASSUME NEW u \in Users
        PROVE  Cardinality(Asked(u)') = users'[u].total + (IF TotalDue(u)' THEN 1 ELSE 0)
    <3>1. users[u].total \in Nat /\ users[w].total \in Nat
      BY <2>2 DEF TypeOK, UserRow
    <3>2. Cardinality(Asked(u)') = users[u].total + (IF TotalDue(u) THEN 1 ELSE 0)
      BY <2>7 DEF TotalsFollow
    <3>3. users'[u].total = IF u = w THEN new.total ELSE users[u].total
      BY <2>2 DEF TypeOK
    <3>4. QED BY <2>3, <2>7, <3>1, <3>2, <3>3
  <2>9. QED BY <2>8 DEF TotalsFollow
<1>14. QED
  BY <1>2, <1>3, <1>4, <1>5, <1>6, <1>8, <1>9, <1>10, <1>11, <1>12, <1>13 DEF Step

\* Requests that run one at a time to their end count each flag that a user put
\* on a content once in its author's total, and no auto-flag
\* (_increment_author_flags is called by create_flag only).
THEOREM TotalsAreExact ==
  ASSUME OneAtATime, ~Failures
  PROVE  Spec => []TotalIsExact
<1>1. Init => TotalInv
  <2>1. SUFFICES ASSUME Init PROVE TotalsFollow
    BY SerialInitially DEF TotalInv
  <2>2. ASSUME NEW u \in Users
        PROVE  Cardinality(Asked(u)) = users[u].total + (IF TotalDue(u) THEN 1 ELSE 0)
    <3>1. Asked(u) = {} /\ users[u].total = 0
      BY <2>1 DEF Init, Asked, Ids, NewUser
    <3>2. ~TotalDue(u)
      BY <2>1, IdleOwesNothing DEF Init, TotalDue
    <3>3. QED BY <3>1, <3>2, FS_EmptySet
  <2>3. QED BY <2>2 DEF TotalsFollow
<1>2. TotalInv /\ [Next]_vars => TotalInv'
  <2>1. SUFFICES ASSUME TotalInv, [Next]_vars PROVE TotalsFollow'
    BY SerialInductive DEF TotalInv
  <2>2. CASE UNCHANGED vars
    BY <2>1, <2>2 DEF TotalInv, TotalsFollow, Asked, TotalDue, vars, Ids
  <2>3. CASE Next
    BY <2>1, <2>3, TotalArrival, TotalStep DEF Next, Fail
  <2>4. QED BY <2>1, <2>2, <2>3
<1>3. TotalInv => TotalIsExact
  <2>1. SUFFICES ASSUME TotalInv, Quiet, NEW u \in Users
                 PROVE  users[u].total = Cardinality(Asked(u))
    BY DEF TotalIsExact, Asked
  <2>2. ~TotalDue(u)
    BY <2>1 DEF Quiet, At, TotalDue, Owes, Saving
  <2>3. users[u].total \in Nat
    BY <2>1 DEF TotalInv, SerialInv, TypeOK, UserRow
  <2>4. QED BY <2>1, <2>2, <2>3 DEF TotalInv, TotalsFollow
<1>4. QED BY <1>1, <1>2, <1>3, PTL DEF Spec
-----------------------------------------------------------------------------
(* One request at a time, none of which dies, and reviews of all pending flags *)

\* What every flag request has established at each of its steps.
NoFlagsOn(c) == \A i \in Ids : flags[i].content # c
Closing(r) ==
  /\ r.ids # {} /\ r.ids \subseteq Ids /\ Pending(r.c) = {}
  /\ \A i \in r.ids : /\ flags[i].content = r.c
                      /\ flags[i].status \in {"dismissed", "actioned"}
AtWork(r) ==
  /\ r.pc = "watch" => NoFlagsOn(r.c) /\ content[r.c].state # "absent"
  /\ r.pc = "insert" => r.who # Author[r.c] /\ content[r.c].state # "absent"
  /\ r.pc = "mark" => r.op \in {"dismiss", "action"} /\ r.ids # {} /\ r.ids = Pending(r.c)
  /\ r.pc = "count" => r.op \in {"create", "retract"}
  /\ r.pc \in {"load", "save"} =>
       r.op = "dismiss" \/ (r.op \in {"create", "retract"} /\ r.n = PendingCount(r.c))
  /\ r.pc \in {"count", "load", "save"} =>
       /\ r.op = "create" => /\ r.who # Author[r.c]
                             /\ \E i \in Pending(r.c) : flags[i].reporter = r.who
       /\ r.op = "retract" => /\ ~Flagged(r.c, r.who)
                              /\ \E i \in Ids : /\ r.ids = {i}
                                                /\ flags[i].content = r.c
                                                /\ flags[i].reporter = r.who
       /\ r.op = "dismiss" => Closing(r)
  /\ r.pc = "remove" => r.op = "action" /\ Closing(r)

FlagsArePosted == \A i \in Ids : content[flags[i].content].state # "absent"
BoardInv ==
  /\ UniqueInv /\ SerialInv /\ FlagsArePosted
  /\ \A q \in Requests : AtWork(req[q])

\* Enough pending flags hide a content, or the request that put the last of them
\* is about to.
AboutToHide(c) ==
  \E q \in Requests : /\ req[q].c = c /\ req[q].op = "create"
                      /\ req[q].pc \in {"count", "load", "save"}
EnoughHide(c) ==
  content[c].state = "live" /\ PendingCount(c) >= FLAG_THRESHOLD
    => content[c].is_hidden \/ AboutToHide(c)
HideInv == BoardInv /\ \A c \in Contents : EnoughHide(c)

LEMMA BoardMoved ==
  ASSUME OneAtATime, TypeOK, NEW q \in Requests, NEW s, Goto(q, s), AtWork(s)'
  PROVE  \A o \in Requests : AtWork(req[o])'
<1>1. req'[q] = s
  BY GotoGives
<1>2. \A o \in Requests : req'[o] = s
  BY <1>1 DEF OneAtATime
<1>3. QED BY <1>2 DEF AtWork, Closing

LEMMA NothingEstablished ==
  ASSUME NEW s, s.pc \notin {"watch", "insert", "mark", "count", "load", "save", "remove"}
  PROVE  AtWork(s) /\ AtWork(s)'
BY DEF AtWork

LEMMA SameFlags ==
  ASSUME UNCHANGED <<lastId, flags>>
  PROVE  /\ Ids' = Ids
         /\ \A c : Pending(c)' = Pending(c) /\ PendingCount(c)' = PendingCount(c)
         /\ \A c, u : Flagged(c, u)' <=> Flagged(c, u)
         /\ \A r : Closing(r)' <=> Closing(r)
BY DEF Ids, Pending, PendingCount, Flagged, Live, Closing

\* A request that leaves the rows alone: what was established still is.
LEMMA EstablishedKept ==
  ASSUME UNCHANGED <<lastId, flags>>, NEW s, AtWork(s), s.pc \notin {"watch", "insert"}
  PROVE  AtWork(s)'
<1>1. /\ Ids' = Ids /\ Pending(s.c)' = Pending(s.c)
      /\ PendingCount(s.c)' = PendingCount(s.c)
      /\ Flagged(s.c, s.who)' <=> Flagged(s.c, s.who)
      /\ Closing(s)' <=> Closing(s)
  BY SameFlags
<1>2. QED BY <1>1 DEF AtWork

LEMMA PostedKept ==
  ASSUME FlagsArePosted, TypeOK, RowsKept, Ids' = Ids,
         \A c \in Contents : content'[c].state = "absent" => content[c].state = "absent"
  PROVE  FlagsArePosted'
BY DEF FlagsArePosted, RowsKept, TypeOK, FlagRow

LEMMA PostedInserted ==
  ASSUME FlagsArePosted, TypeOK, NEW c \in Contents, NEW u \in Users, NEW auto \in BOOLEAN,
         Insert(c, u, auto), content[c].state # "absent", UNCHANGED content
  PROVE  FlagsArePosted'
<1>1. PICK id : id = lastId + 1
  OBVIOUS
<1>2. /\ Ids' = Ids \cup {id}
      /\ flags'[id] = [content |-> c, reporter |-> u, status |-> "pending", auto |-> auto]
      /\ \A i \in Ids : flags'[i] = flags[i]
  BY <1>1, InsertKeeps
<1>3. flags'[id].content = c
  BY <1>2
<1>4. QED BY <1>2, <1>3 DEF FlagsArePosted

LEMMA BoardArrival ==
  ASSUME OneAtATime, BoardInv, NEW q \in Requests, Arrival(q), ~PartialReviews
  PROVE  FlagsArePosted' /\ \A o \in Requests : AtWork(req[o])'
<1> USE DEF BoardInv, UniqueInv
<1> DEFINE Goal == \A o \in Requests : AtWork(req[o])'
<1>1. UNCHANGED <<lastId, flags>> /\ RowsKept /\ Ids' = Ids
  BY SameRowsKept DEF Arrival, Post, Restore, Erase, CreateFlag, RetractFlag, ReviewFlags
<1>2. ASSUME NEW s, Goto(q, s), AtWork(s)' PROVE Goal
  BY <1>2, BoardMoved
<1>3. ASSUME NEW c \in Contents, Post(q, c) PROVE Goal
  <2>1. PICK s : s = [Idle EXCEPT !.pc = "watch", !.op = "post", !.c = c]
    OBVIOUS
  <2>2. s.pc = "watch" /\ s.c = c
    BY <2>1 DEF Idle
  <2>3. NoFlagsOn(c)' /\ content'[c].state # "absent"
    BY <1>1, <1>3 DEF Post, TypeOK, ContentRow, NoFlagsOn, FlagsArePosted
  <2>4. AtWork(s)'
    BY <2>2, <2>3 DEF AtWork
  <2>5. QED BY <1>2, <1>3, <2>1, <2>4 DEF Post
<1>4. ASSUME NEW c \in Contents, Restore(q, c) \/ Erase(q, c) PROVE Goal
  <2>1. req' = req /\ At(q, "idle")
    BY <1>4 DEF Restore, Erase
  <2>2. PICK s : s = req[q]
    OBVIOUS
  <2>3. Goto(q, s) /\ s.pc = "idle"
    BY <2>1, <2>2 DEF Goto, TypeOK, At
  <2>4. QED BY <1>2, <2>3, NothingEstablished
<1>5. ASSUME NEW c \in Contents, NEW u \in Users, CreateFlag(q, c, u) PROVE Goal
  <2>1. PICK s : s = [Idle EXCEPT !.pc = "insert", !.op = "create", !.c = c, !.who = u]
    OBVIOUS
  <2>2. s.pc = "insert" /\ s.c = c /\ s.who = u
    BY <2>1 DEF Idle
  <2>3. u # Author[c] /\ content'[c].state # "absent"
    BY <1>5 DEF CreateFlag, MayFlag
  <2>4. AtWork(s)'
    BY <2>2, <2>3 DEF AtWork
  <2>5. QED BY <1>2, <1>5, <2>1, <2>4 DEF CreateFlag
<1>6. ASSUME NEW i \in Ids, NEW u \in Users, RetractFlag(q, i, u) PROVE Goal
  <2>1. PICK s : s = [Idle EXCEPT !.pc = "delete", !.op = "retract", !.c = flags[i].content,
                                  !.who = u, !.ids = {i}]
    OBVIOUS
  <2>2. s.pc = "delete"
    BY <2>1 DEF Idle
  <2>3. QED BY <1>2, <1>6, <2>1, <2>2, NothingEstablished DEF RetractFlag
<1>7. ASSUME NEW ids \in SUBSET Ids, NEW c \in Contents,
             NEW action \in {"dismiss", "action"}, ReviewFlags(q, ids, c, action)
      PROVE  Goal
  <2>1. PICK s : s = [Idle EXCEPT !.pc = "mark", !.op = action, !.c = c, !.ids = ids]
    OBVIOUS
  <2>2. s.pc = "mark" /\ s.op = action /\ s.ids = ids /\ s.c = c
    BY <2>1 DEF Idle
  <2>3. ids # {} /\ ids = Pending(c)
    BY <1>7 DEF ReviewFlags, Reviewable, Pending
  <2>4. AtWork(s)'
    BY <1>1, <2>2, <2>3, SameFlags DEF AtWork
  <2>5. QED BY <1>2, <1>7, <2>1, <2>4 DEF ReviewFlags
<1>8. \A d \in Contents : content'[d].state = "absent" => content[d].state = "absent"
  <2>1. ASSUME NEW c \in Contents, Post(q, c) \/ Restore(q, c) \/ Erase(q, c),
               NEW d \in Contents
        PROVE  content'[d].state = "absent" => content[d].state = "absent"
    BY <2>1 DEF Post, Restore, Erase, TypeOK, ContentRow
  <2>2. CASE UNCHANGED content
    BY <2>2
  <2>3. QED BY <2>1, <2>2 DEF Arrival, CreateFlag, RetractFlag, ReviewFlags
<1>9. FlagsArePosted'
  BY <1>1, <1>8, PostedKept
<1>10. QED BY <1>3, <1>4, <1>5, <1>6, <1>7, <1>9 DEF Arrival

LEMMA BoardStep ==
  ASSUME OneAtATime, BoardInv, NEW q \in Requests, Step(q)
  PROVE  FlagsArePosted' /\ \A o \in Requests : AtWork(req[o])'
<1> USE DEF BoardInv, UniqueInv
<1> DEFINE r == req[q]
           Goal == FlagsArePosted' /\ \A o \in Requests : AtWork(req[o])'
<1>0. r \in Request /\ StillSo(r) /\ AtWork(r) /\ r.c \in Contents
  BY DEF TypeOK, SerialInv, Request
<1>1. FlagsArePosted'
  <2>1. CASE Watch(q)
    <3>1. content[r.c].state # "absent" /\ UNCHANGED content
      BY <1>0, <2>1 DEF AtWork, Watch, At
    <3>2. CASE UNCHANGED <<lastId, flags>>
      BY <3>1, <3>2, SameRowsKept, PostedKept
    <3>3. CASE Insert(r.c, System, TRUE)
      BY <1>0, <3>1, <3>3, PeopleAssumption, PostedInserted
    <3>4. QED BY <2>1, <3>2, <3>3 DEF Watch
  <2>2. CASE InsertFlag(q)
    <3>1. content[r.c].state # "absent" /\ UNCHANGED content /\ r.who \in Users
      BY <1>0, <2>2 DEF AtWork, InsertFlag, At, Request
    <3>2. CASE Flagged(r.c, r.who)
      BY <2>2, <3>1, <3>2, SameRowsKept, PostedKept DEF InsertFlag
    <3>3. CASE ~Flagged(r.c, r.who)
      BY <1>0, <2>2, <3>1, <3>3, PostedInserted DEF InsertFlag
    <3>4. QED BY <3>2, <3>3
  <2>3. CASE RowsKept /\ Ids' = Ids
    BY <2>3, StepFrame, PostedKept
  <2>4. QED BY <2>1, <2>2, <2>3, StepFrame
<1>2. ASSUME NEW s, Goto(q, s), AtWork(s)' PROVE Goal
  BY <1>1, <1>2, BoardMoved
<1>3. ASSUME NEW s, Goto(q, s),
             s.pc \notin {"watch", "insert", "mark", "count", "load", "save", "remove"}
      PROVE  Goal
  BY <1>2, <1>3, NothingEstablished
<1>4. ASSUME Goto(q, Idle) PROVE Goal
  BY <1>3, <1>4 DEF Idle
<1>5. CASE Watch(q)
  BY <1>4, <1>5 DEF Watch, Finish
<1>6. CASE InsertFlag(q)
  <2>1. CASE Flagged(r.c, r.who)
    BY <1>4, <1>6, <2>1 DEF InsertFlag, Finish
  <2>2. CASE ~Flagged(r.c, r.who)
    <3>1. PICK s, id : s = [r EXCEPT !.pc = "count"] /\ id = lastId + 1
      OBVIOUS
    <3>2. s.pc = "count" /\ s.op = "create" /\ s.c = r.c /\ s.who = r.who /\ r.who \in Users
      BY <1>0, <1>6, <3>1 DEF Request, InsertFlag, At, StillSo
    <3>3. Goto(q, s) /\ Insert(s.c, s.who, FALSE) /\ s.who # Author[s.c]
      BY <1>0, <1>6, <2>2, <3>1, <3>2 DEF InsertFlag, AtWork, At
    <3>4. /\ id \in Ids'
          /\ flags'[id] = [content |-> s.c, reporter |-> s.who, status |-> "pending",
                           auto |-> FALSE]
      BY <1>0, <3>1, <3>2, <3>3, InsertKeeps
    <3>5. id \in Pending(s.c)' /\ flags'[id].reporter = s.who
      BY <3>4 DEF Pending
    <3>6. AtWork(s)'
      BY <3>2, <3>3, <3>5 DEF AtWork
    <3>7. QED BY <1>2, <3>3, <3>6
  <2>3. QED BY <2>1, <2>2
<1>7. CASE DeleteRow(q)
  <2>1. PICK s : s = [r EXCEPT !.pc = "count"]
    OBVIOUS
  <2>2. /\ s.pc = "count" /\ s.op = "retract" /\ s.ids = r.ids /\ s.c = r.c /\ s.who = r.who
        /\ r.pc = "delete"
    BY <1>0, <1>7, <2>1 DEF Request, DeleteRow, At, StillSo
  <2>3. PICK i \in Ids : /\ s.ids = {i}
                         /\ flags[i].content = s.c
                         /\ flags[i].reporter = s.who
                         /\ flags[i].status = "pending"
    BY <1>0, <2>2 DEF StillSo
  <2>4. Mark({i}, "deleted") /\ Ids' = Ids /\ Goto(q, s)
    BY <1>7, <2>1, <2>2, <2>3 DEF DeleteRow, Ids
  <2>5. flags'[i] = [flags[i] EXCEPT !.status = "deleted"] /\ flags[i] \in FlagRow
    BY <2>3, <2>4 DEF Mark, Live, TypeOK
  <2>6. /\ flags'[i].content = s.c /\ flags'[i].reporter = s.who
        /\ flags'[i].status = "deleted"
    BY <2>3, <2>5 DEF FlagRow
  <2>7. \A j \in Ids \ {i} : flags'[j] = flags[j]
    BY <2>4 DEF Mark
  <2>8. \A j \in Ids \ {i} : ~(Live(j) /\ flags[j].content = s.c /\ flags[j].reporter = s.who)
    BY <2>3 DEF OneFlagPerReporter, LiveIds, Live
  <2>9. ~Flagged(s.c, s.who)'
    BY <2>4, <2>6, <2>7, <2>8 DEF Flagged, Live
  <2>10. AtWork(s)'
    BY <2>2, <2>3, <2>4, <2>6, <2>9 DEF AtWork
  <2>11. QED BY <1>2, <2>4, <2>10
<1>8. CASE MarkRows(q)
  <2>1. r.pc = "mark" /\ r.op \in {"dismiss", "action"} /\ r.ids # {} /\ r.ids = Pending(r.c)
    BY <1>0, <1>8 DEF MarkRows, At, AtWork
  <2>2. ASSUME NEW s, s.c = r.c, s.ids = r.ids, NEW status \in {"dismissed", "actioned"},
               Mark(r.ids, status), lastId' = lastId
        PROVE  Closing(s)'
    <3>1. Ids' = Ids /\ r.ids \subseteq Ids
      BY <2>1, <2>2 DEF Ids, Pending
    <3>2. ASSUME NEW i \in Ids, i \in r.ids
          PROVE  flags'[i].content = s.c /\ flags'[i].status = status
      <4>1. flags'[i] = [flags[i] EXCEPT !.status = status] /\ flags[i] \in FlagRow
        BY <2>1, <2>2, <3>2 DEF Mark, Live, Pending, TypeOK
      <4>2. QED BY <2>1, <2>2, <3>2, <4>1 DEF FlagRow, Pending
    <3>3. \A i \in Ids \ r.ids : flags'[i] = flags[i]
      BY <2>2 DEF Mark
    <3>4. Pending(s.c)' = {}
      BY <2>1, <2>2, <3>1, <3>2, <3>3 DEF Pending
    <3>5. QED BY <2>1, <2>2, <3>1, <3>2, <3>4 DEF Closing
  <2>3. CASE r.op = "dismiss"
    <3>1. PICK s : s = [r EXCEPT !.pc = "load"]
      OBVIOUS
    <3>2. s.pc = "load" /\ s.op = "dismiss" /\ s.c = r.c /\ s.ids = r.ids
      BY <1>0, <2>3, <3>1 DEF Request
    <3>3. Mark(r.ids, "dismissed") /\ Goto(q, s) /\ lastId' = lastId
      BY <1>8, <2>3, <3>1 DEF MarkRows
    <3>4. Closing(s)'
      BY <2>2, <3>2, <3>3
    <3>5. AtWork(s)'
      BY <3>2, <3>4 DEF AtWork
    <3>6. QED BY <1>2, <3>3, <3>5
  <2>4. CASE r.op = "action"
    <3>1. PICK s : s = [r EXCEPT !.pc = "remove"]
      OBVIOUS
    <3>2. s.pc = "remove" /\ s.op = "action" /\ s.c = r.c /\ s.ids = r.ids
      BY <1>0, <2>4, <3>1 DEF Request
    <3>3. Mark(r.ids, "actioned") /\ Goto(q, s) /\ lastId' = lastId
      BY <1>8, <2>4, <3>1 DEF MarkRows
    <3>4. Closing(s)'
      BY <2>2, <3>2, <3>3
    <3>5. AtWork(s)'
      BY <3>2, <3>4 DEF AtWork
    <3>6. QED BY <1>2, <3>3, <3>5
  <2>5. QED BY <2>1, <2>3, <2>4
<1>9. CASE CountPending(q)
  <2>1. PICK s : s = [r EXCEPT !.pc = "load", !.n = PendingCount(r.c)]
    OBVIOUS
  <2>2. /\ s.pc = "load" /\ s.n = PendingCount(s.c) /\ s.c = r.c /\ s.op = r.op
        /\ s.who = r.who /\ s.ids = r.ids /\ r.pc = "count"
    BY <1>0, <1>9, <2>1 DEF Request, CountPending, At
  <2>3. r.op \in {"create", "retract"}
    BY <1>0, <2>2 DEF AtWork
  <2>4. AtWork(s)
    BY <1>0, <2>2, <2>3 DEF AtWork
  <2>5. AtWork(s)'
    BY <1>9, <2>2, <2>4, EstablishedKept DEF CountPending
  <2>6. QED BY <1>2, <1>9, <2>1, <2>5 DEF CountPending
<1>10. AfterContent(r).pc \in {"idle", "load_user"}
  BY DEF AfterContent, Idle
<1>11. CASE LoadContent(q)
  <2>1. CASE content[r.c].state = "live"
    <3>1. PICK s : s = [r EXCEPT !.pc = "save", !.row = ColumnsOf(content[r.c])]
      OBVIOUS
    <3>2. /\ s.pc = "save" /\ s.n = r.n /\ s.c = r.c /\ s.op = r.op
          /\ s.who = r.who /\ s.ids = r.ids /\ r.pc = "load"
      BY <1>0, <1>11, <3>1 DEF Request, LoadContent, At
    <3>3. Closing(s) <=> Closing(r)
      BY <3>2 DEF Closing
    <3>4. AtWork(s)
      BY <1>0, <3>2, <3>3 DEF AtWork
    <3>5. AtWork(s)'
      BY <1>11, <3>2, <3>4, EstablishedKept DEF LoadContent
    <3>6. QED BY <1>2, <1>11, <2>1, <3>1, <3>5 DEF LoadContent
  <2>2. CASE content[r.c].state # "live"
    BY <1>3, <1>10, <1>11, <2>2 DEF LoadContent
  <2>3. QED BY <2>1, <2>2
<1>12. CASE SaveContent(q)
  BY <1>3, <1>4, <1>10, <1>12 DEF SaveContent, Finish
<1>13. CASE Remove(q)
  <2>1. PICK s, t : /\ s = [r EXCEPT !.pc = "load_user", !.who = Author[r.c], !.counter = "valid"]
                    /\ t = [r EXCEPT !.pc = "reward"]
    OBVIOUS
  <2>2. s.pc = "load_user" /\ t.pc = "reward"
    BY <1>0, <2>1 DEF Request
  <2>3. Goto(q, s) \/ Goto(q, t) \/ Goto(q, Idle)
    BY <1>13, <2>1 DEF Remove, Finish
  <2>4. QED BY <1>3, <1>4, <2>2, <2>3
<1>14. CASE Reward(q)
  <2>1. PICK s : s = [Idle EXCEPT !.pc = "load_user", !.op = "action", !.c = r.c,
                                  !.counter = "validated",
                                  !.todo = {flags[i].reporter : i \in r.ids}]
    OBVIOUS
  <2>2. s.pc = "load_user"
    BY <2>1 DEF Idle
  <2>3. Goto(q, s) \/ Goto(q, Idle)
    BY <1>14, <2>1 DEF Reward
  <2>4. QED BY <1>3, <1>4, <2>2, <2>3
<1>15. CASE LoadUser(q)
  <2>1. ASSUME NEW u \in Targets(r),
               Goto(q, [r EXCEPT !.pc = "save_user", !.who = u, !.user = users[u],
                                 !.todo = @ \ {u}])
        PROVE  Goal
    <3>1. [r EXCEPT !.pc = "save_user", !.who = u, !.user = users[u],
                    !.todo = @ \ {u}].pc = "save_user"
      BY <1>0 DEF Request
    <3>2. QED BY <1>3, <2>1, <3>1
  <2>2. QED BY <1>4, <1>15, <2>1 DEF LoadUser, Finish
<1>16. CASE SaveUser(q)
  <2>1. AfterUser(r).pc \in {"idle", "reward", "load_user"}
    BY <1>0 DEF AfterUser, Request, Idle
  <2>2. QED BY <1>3, <1>16, <2>1 DEF SaveUser
<1>17. QED
  BY <1>5, <1>6, <1>7, <1>8, <1>9, <1>11, <1>12, <1>13, <1>14, <1>15, <1>16 DEF Step

LEMMA BoardInductive ==
  ASSUME OneAtATime, ~Failures, ~PartialReviews
  PROVE  BoardInv /\ [Next]_vars => BoardInv'
<1>1. SUFFICES ASSUME BoardInv, [Next]_vars PROVE BoardInv'
  OBVIOUS
<1>2. UniqueInv' /\ SerialInv'
  BY <1>1, UniqueInductive, SerialInductive DEF BoardInv
<1>3. FlagsArePosted' /\ \A q \in Requests : AtWork(req[q])'
  <2>1. CASE UNCHANGED vars
    <3>1. UNCHANGED <<lastId, flags, content, req>>
      BY <2>1 DEF vars
    <3>2. FlagsArePosted'
      BY <1>1, <3>1 DEF BoardInv, FlagsArePosted, Ids
    <3>3. ASSUME NEW q \in Requests PROVE AtWork(req[q])'
      <4>1. PICK s : s = req[q]
        OBVIOUS
      <4>2. AtWork(s) /\ s = req'[q]
        BY <1>1, <3>1, <4>1 DEF BoardInv
      <4>3. /\ Ids' = Ids /\ Pending(s.c)' = Pending(s.c)
            /\ PendingCount(s.c)' = PendingCount(s.c)
            /\ Flagged(s.c, s.who)' <=> Flagged(s.c, s.who)
            /\ Closing(s)' <=> Closing(s)
        BY <3>1, SameFlags
      <4>4. AtWork(s)'
        BY <3>1, <4>2, <4>3 DEF AtWork, NoFlagsOn
      <4>5. QED BY <4>2, <4>4 DEF AtWork, Closing
    <3>4. QED BY <3>2, <3>3
  <2>2. CASE Next
    BY <1>1, <2>2, BoardArrival, BoardStep DEF Next, Fail
  <2>3. QED BY <1>1, <2>1, <2>2
<1>4. QED BY <1>2, <1>3 DEF BoardInv

LEMMA BoardInitially == Init => BoardInv
<1>1. SUFFICES ASSUME Init PROVE BoardInv
  OBVIOUS
<1>2. TypeOK /\ SerialInv
  BY <1>1, InitTyped, SerialInitially
<1>3. Ids = {} /\ \A q \in Requests : req[q] = Idle
  BY <1>1 DEF Init, Ids
<1>4. OneFlagPerReporter /\ FlagsArePosted
  BY <1>3 DEF OneFlagPerReporter, LiveIds, FlagsArePosted
<1>5. AtWork(Idle)
  BY DEF AtWork, Idle
<1>6. QED BY <1>2, <1>3, <1>4, <1>5 DEF BoardInv, UniqueInv

\* A request that runs alone writes the columns it recomputed to the content it read.
LEMMA SavedContentRow ==
  ASSUME SerialInv, NEW q \in Requests, SaveContent(q)
  PROVE  LET r == req[q]
             new == SavedContent(r)
         IN /\ content[r.c].state = "live" /\ r.c \in Contents
            /\ Goto(q, AfterContent(r))
            /\ content' = [content EXCEPT ![r.c] =
                             [@ EXCEPT !.flag_count = new.flag_count,
                                       !.is_hidden = new.is_hidden]]
<1> DEFINE r == req[q]
           new == SavedContent(r)
<1>1. /\ r \in Request /\ r.c \in Contents /\ content[r.c] \in ContentRow
      /\ content[r.c].state = "live" /\ r.row = ColumnsOf(content[r.c])
  BY DEF SerialInv, TypeOK, Request, SaveContent, At, StillSo
<1>2. WriteContent(r.c, r.row, new) /\ Goto(q, AfterContent(r))
  BY <1>1 DEF SaveContent
<1> HIDE DEF new
<1>3. MergedContent(content[r.c], r.row, new) =
        [content[r.c] EXCEPT !.flag_count = new.flag_count, !.is_hidden = new.is_hidden]
  <2>1. /\ r.row.flag_count = content[r.c].flag_count
        /\ r.row.is_hidden = content[r.c].is_hidden
    BY <1>1 DEF ColumnsOf
  <2>2. /\ Changed(content[r.c].flag_count, r.row.flag_count, new.flag_count) = new.flag_count
        /\ Changed(content[r.c].is_hidden, r.row.is_hidden, new.is_hidden) = new.is_hidden
    BY <2>1, Zenon DEF Changed
  <2>3. QED BY <2>2, Zenon DEF MergedContent
<1>4. QED BY <1>1, <1>2, <1>3 DEF WriteContent, new

LEMMA PendingFinite ==
  ASSUME TypeOK, NEW c
  PROVE  IsFiniteSet(Pending(c)) /\ PendingCount(c) \in Nat
<1>1. IsFiniteSet(Ids) /\ Pending(c) \subseteq Ids
  BY FS_Interval DEF TypeOK, Ids, Pending
<1>2. QED BY <1>1, FS_Subset, FS_CardinalityType DEF PendingCount

LEMMA PendingShrinks ==
  ASSUME TypeOK, NEW c, Pending(c)' \subseteq Pending(c)
  PROVE  /\ PendingCount(c) \in Nat /\ PendingCount(c)' \in Nat
         /\ PendingCount(c)' <= PendingCount(c)
<1>1. IsFiniteSet(Pending(c)) /\ PendingCount(c) \in Nat
  BY PendingFinite
<1>2. /\ IsFiniteSet(Pending(c)')
      /\ Cardinality(Pending(c)') <= Cardinality(Pending(c))
  BY <1>1, FS_Subset
<1>3. Cardinality(Pending(c)') \in Nat
  BY <1>2, FS_CardinalityType
<1>4. QED BY <1>1, <1>2, <1>3 DEF PendingCount

\* A content that keeps its columns and gets no more pending flags stays hidden.
LEMMA HidesStill ==
  ASSUME TypeOK, NEW c \in Contents, EnoughHide(c),
         content'[c].state = "live" => content[c].state = "live",
         content'[c].is_hidden = content[c].is_hidden,
         Pending(c)' \subseteq Pending(c),
         AboutToHide(c) => AboutToHide(c)'
  PROVE  EnoughHide(c)'
<1>1. PendingCount(c) \in Nat /\ PendingCount(c)' \in Nat /\ PendingCount(c)' <= PendingCount(c)
  BY PendingShrinks
<1>2. QED BY <1>1, ThresholdAssumption DEF EnoughHide

LEMMA HideArrival ==
  ASSUME OneAtATime, HideInv, FLAG_THRESHOLD > 1, NEW q \in Requests, Arrival(q)
  PROVE  \A c \in Contents : EnoughHide(c)'
<1> USE DEF HideInv, BoardInv, UniqueInv
<1>1. SUFFICES ASSUME NEW c \in Contents PROVE EnoughHide(c)'
  OBVIOUS
<1>2. UNCHANGED <<lastId, flags>> /\ At(q, "idle")
  BY <1>1 DEF Arrival, Post, Restore, Erase, CreateFlag, RetractFlag, ReviewFlags
<1>3. ~AboutToHide(c) /\ Pending(c)' \subseteq Pending(c)
  BY <1>2, SameFlags DEF AboutToHide, OneAtATime, At
<1>4. content'[c].is_hidden = content[c].is_hidden
  <2>1. ASSUME NEW d \in Contents, Post(q, d) \/ Restore(q, d) \/ Erase(q, d)
        PROVE  content'[c].is_hidden = content[c].is_hidden
    BY <2>1 DEF Post, Restore, Erase, TypeOK, ContentRow
  <2>2. CASE UNCHANGED content
    BY <2>2
  <2>3. QED BY <2>1, <2>2 DEF Arrival, CreateFlag, RetractFlag, ReviewFlags
<1>5. CASE content[c].state = "absent"
  <2>1. Pending(c)' = {}
    BY <1>2, <1>3, <1>5 DEF FlagsArePosted, Pending
  <2>2. PendingCount(c)' = 0
    BY <2>1, FS_EmptySet DEF PendingCount
  <2>3. QED BY <2>2, ThresholdAssumption DEF EnoughHide
<1>6. CASE content[c].state # "absent"
  <2>1. content'[c].state = "live" => content[c].state = "live"
    <3>1. ASSUME NEW d \in Contents, Post(q, d) \/ Restore(q, d) \/ Erase(q, d)
          PROVE  content'[c].state = "live" => content[c].state = "live"
      BY <1>6, <3>1 DEF Post, Restore, Erase, TypeOK, ContentRow
    <3>2. CASE UNCHANGED content
      BY <3>2
    <3>3. QED BY <3>1, <3>2 DEF Arrival, CreateFlag, RetractFlag, ReviewFlags
  <2>2. QED BY <1>3, <1>4, <2>1, HidesStill
<1>7. QED BY <1>5, <1>6

LEMMA HideStep ==
  ASSUME OneAtATime, HideInv, FLAG_THRESHOLD > 1, NEW q \in Requests, Step(q)
  PROVE  \A c \in Contents : EnoughHide(c)'
<1> USE DEF HideInv, BoardInv, UniqueInv
<1> DEFINE r == req[q]
<1>1. SUFFICES ASSUME NEW c \in Contents PROVE EnoughHide(c)'
  OBVIOUS
<1>2. /\ r \in Request /\ StillSo(r) /\ AtWork(r) /\ EnoughHide(c) /\ r.c \in Contents
      /\ content'[c].state = content[c].state
      /\ \A o \in Requests : o = q
  BY <1>1, StepFrame DEF TypeOK, SerialInv, OneAtATime, Request
<1>3. AboutToHide(c) <=> r.c = c /\ r.op = "create" /\ r.pc \in {"count", "load", "save"}
  BY <1>2 DEF AboutToHide
<1>4. ASSUME Pending(c)' \subseteq Pending(c), content'[c].is_hidden = content[c].is_hidden,
             AboutToHide(c) => AboutToHide(c)'
      PROVE  EnoughHide(c)'
  BY <1>1, <1>2, <1>4, HidesStill
<1>5. CASE Watch(q)
  <2>1. ~AboutToHide(c) /\ UNCHANGED content
    BY <1>3, <1>5 DEF Watch, At
  <2>2. CASE UNCHANGED <<lastId, flags>>
    BY <1>4, <2>1, <2>2, SameFlags
  <2>3. CASE Insert(r.c, System, TRUE)
    <3>1. PICK id : id = lastId + 1
      OBVIOUS
    <3>2. /\ Ids' = Ids \cup {id}
          /\ flags'[id] = [content |-> r.c, reporter |-> System, status |-> "pending",
                           auto |-> TRUE]
          /\ \A i \in Ids : flags'[i] = flags[i]
      BY <1>2, <2>3, <3>1, InsertKeeps, PeopleAssumption
    <3>3. flags'[id].content = r.c
      BY <3>2
    <3>4. CASE c = r.c
      <4>1. NoFlagsOn(c)
        BY <1>2, <1>5, <3>4 DEF AtWork, Watch, At
      <4>2. Pending(c)' \subseteq {id}
        BY <3>2, <4>1 DEF Pending, NoFlagsOn
      <4>3. PendingCount(c)' <= 1 /\ PendingCount(c)' \in Nat
        <5>1. IsFiniteSet({id}) /\ Cardinality({id}) = 1
          BY FS_Singleton
        <5>2. /\ IsFiniteSet(Pending(c)')
              /\ Cardinality(Pending(c)') <= 1
          BY <4>2, <5>1, FS_Subset
        <5>3. QED BY <5>2, FS_CardinalityType DEF PendingCount
      <4>4. QED BY <4>3, ThresholdAssumption DEF EnoughHide
    <3>5. CASE c # r.c
      <4>1. Pending(c)' \subseteq Pending(c)
        BY <3>2, <3>3, <3>5 DEF Pending
      <4>2. QED BY <1>4, <2>1, <4>1
    <3>6. QED BY <3>4, <3>5
  <2>4. QED BY <1>5, <2>2, <2>3 DEF Watch
<1>6. CASE InsertFlag(q)
  <2>1. ~AboutToHide(c) /\ UNCHANGED content /\ r.op = "create" /\ r.who \in Users
    BY <1>2, <1>3, <1>6 DEF InsertFlag, At, StillSo, Request
  <2>2. CASE Flagged(r.c, r.who)
    BY <1>4, <1>6, <2>1, <2>2, SameFlags DEF InsertFlag
  <2>3. CASE ~Flagged(r.c, r.who)
    <3>1. PICK id, s : id = lastId + 1 /\ s = [r EXCEPT !.pc = "count"]
      OBVIOUS
    <3>2. s.pc = "count" /\ s.op = "create" /\ s.c = r.c
      BY <1>2, <2>1, <3>1 DEF Request
    <3>3. Insert(r.c, r.who, FALSE) /\ Goto(q, s)
      BY <1>6, <2>3, <3>1 DEF InsertFlag
    <3>4. req'[q] = s
      BY <3>3, GotoGives
    <3>5. CASE c = r.c
      BY <3>2, <3>4, <3>5 DEF AboutToHide, EnoughHide
    <3>6. CASE c # r.c
      <4>1. /\ Ids' = Ids \cup {id}
            /\ flags'[id] = [content |-> r.c, reporter |-> r.who, status |-> "pending",
                             auto |-> FALSE]
            /\ \A i \in Ids : flags'[i] = flags[i]
        BY <1>2, <2>1, <3>1, <3>3, InsertKeeps
      <4>2. flags'[id].content = r.c
        BY <4>1
      <4>3. Pending(c)' \subseteq Pending(c)
        BY <3>6, <4>1, <4>2 DEF Pending
      <4>4. QED BY <1>4, <2>1, <4>3
    <3>7. QED BY <3>5, <3>6
  <2>4. QED BY <2>2, <2>3
<1>7. ASSUME NEW ids, NEW status \in {"deleted", "dismissed", "actioned"}, Mark(ids, status),
             UNCHANGED <<lastId, content>>, ~AboutToHide(c)
      PROVE  EnoughHide(c)'
  <2>1. Ids' = Ids
    BY <1>7 DEF Ids
  <2>2. ASSUME NEW i \in Ids, flags'[i].content = c, flags'[i].status = "pending"
        PROVE  flags'[i] = flags[i]
    <3>1. flags[i] \in FlagRow
      BY DEF TypeOK
    <3>2. QED BY <1>7, <2>2, <3>1 DEF Mark, FlagRow
  <2>3. Pending(c)' \subseteq Pending(c)
    BY <2>1, <2>2 DEF Pending
  <2>4. QED BY <1>4, <1>7, <2>3
<1>8. CASE DeleteRow(q)
  <2>1. ~AboutToHide(c)
    BY <1>3, <1>8 DEF DeleteRow, At
  <2>2. QED BY <1>7, <1>8, <2>1 DEF DeleteRow
<1>9. CASE MarkRows(q)
  <2>1. ~AboutToHide(c)
    BY <1>3, <1>9 DEF MarkRows, At
  <2>2. QED BY <1>7, <1>9, <2>1 DEF MarkRows
<1>10. CASE CountPending(q)
  <2>1. PICK s : s = [r EXCEPT !.pc = "load", !.n = PendingCount(r.c)]
    OBVIOUS
  <2>2. s.pc = "load" /\ s.op = r.op /\ s.c = r.c /\ req'[q] = s
    BY <1>2, <1>10, <2>1, GotoGives DEF Request, CountPending
  <2>3. AboutToHide(c) => AboutToHide(c)'
    BY <1>3, <2>2 DEF AboutToHide
  <2>4. QED BY <1>4, <1>10, <2>3, SameFlags DEF CountPending
<1>11. CASE LoadContent(q)
  <2>1. CASE content[r.c].state = "live"
    <3>1. PICK s : s = [r EXCEPT !.pc = "save", !.row = ColumnsOf(content[r.c])]
      OBVIOUS
    <3>2. s.pc = "save" /\ s.op = r.op /\ s.c = r.c
      BY <1>2, <3>1 DEF Request
    <3>3. req'[q] = s
      BY <1>11, <2>1, <3>1, GotoGives DEF LoadContent
    <3>4. AboutToHide(c) => AboutToHide(c)'
      BY <1>3, <3>2, <3>3 DEF AboutToHide
    <3>5. QED BY <1>4, <1>11, <3>4, SameFlags DEF LoadContent
  <2>2. CASE content[r.c].state # "live"
    <3>1. CASE c = r.c
      BY <1>2, <2>2, <3>1 DEF EnoughHide
    <3>2. CASE c # r.c
      BY <1>3, <1>4, <1>11, <3>2, SameFlags DEF LoadContent
    <3>3. QED BY <3>1, <3>2
  <2>3. QED BY <2>1, <2>2
<1>12. CASE SaveContent(q)
  <2>1. PICK new, d : new = SavedContent(r) /\ d = r.c
    OBVIOUS
  <2>2. /\ content' = [content EXCEPT ![d] = [@ EXCEPT !.flag_count = new.flag_count,
                                                       !.is_hidden = new.is_hidden]]
        /\ d \in Contents /\ r.pc = "save" /\ UNCHANGED <<lastId, flags>>
    BY <1>12, <2>1, SavedContentRow DEF SaveContent, At
  <2>3. Pending(c)' = Pending(c) /\ PendingCount(c)' = PendingCount(c)
    BY <2>2, SameFlags
  <2>4. CASE c = d
    <3>1. content'[c].is_hidden = new.is_hidden
      BY <2>2, <2>4 DEF TypeOK, ContentRow
    <3>2. CASE r.op = "dismiss"
      <4>1. Pending(c) = {}
        BY <1>2, <2>1, <2>2, <2>4, <3>2 DEF AtWork, Closing
      <4>2. PendingCount(c)' = 0
        BY <2>3, <4>1, FS_EmptySet DEF PendingCount
      <4>3. QED BY <4>2, ThresholdAssumption DEF EnoughHide
    <3>3. CASE r.op # "dismiss"
      <4>1. r.n = PendingCount(c)
        BY <1>2, <2>1, <2>2, <2>4, <3>3 DEF AtWork
      <4>2. new = Recounted(r.n)
        BY <2>1, <3>3 DEF SavedContent
      <4>3. new.is_hidden = (r.n >= FLAG_THRESHOLD)
        BY <4>2, Zenon DEF Recounted
      <4>4. PendingCount(c)' >= FLAG_THRESHOLD => content'[c].is_hidden
        BY <2>3, <3>1, <4>1, <4>3, Zenon
      <4>5. QED BY <4>4, Zenon DEF EnoughHide
    <3>4. QED BY <3>2, <3>3
  <2>5. CASE c # d
    <3>1. content'[c] = content[c] /\ ~AboutToHide(c)
      BY <1>3, <2>1, <2>2, <2>5 DEF TypeOK
    <3>2. QED BY <1>4, <2>3, <3>1
  <2>6. QED BY <2>4, <2>5
<1>13. CASE Remove(q)
  <2>1. /\ UNCHANGED <<lastId, flags>> /\ r.pc = "remove"
        /\ UNCHANGED content \/ content' = [content EXCEPT ![r.c].removed = TRUE]
    BY <1>13 DEF Remove, At
  <2>2. content'[c].is_hidden = content[c].is_hidden
    BY <1>2, <2>1 DEF TypeOK, ContentRow
  <2>3. QED BY <1>3, <1>4, <2>1, <2>2, SameFlags
<1>14. CASE Reward(q) \/ LoadUser(q) \/ SaveUser(q)
  <2>1. UNCHANGED <<lastId, flags, content>> /\ r.pc \in {"reward", "load_user", "save_user"}
    BY <1>14 DEF Reward, LoadUser, SaveUser, At
  <2>2. QED BY <1>3, <1>4, <2>1, SameFlags
<1>15. QED
  BY <1>5, <1>6, <1>8, <1>9, <1>10, <1>11, <1>12, <1>13, <1>14 DEF Step

\* Requests that run one at a time to their end hide each content that has
\* FLAG_THRESHOLD pending flags.  The threshold must be more than one: the
\* watchlist's flag is inserted without counting.
THEOREM EnoughFlagsHide ==
  ASSUME OneAtATime, ~Failures, ~PartialReviews, FLAG_THRESHOLD > 1
  PROVE  Spec => []PendingFlagsHide
<1>1. Init => HideInv
  BY BoardInitially DEF HideInv, EnoughHide, Init, NewContent
<1>2. HideInv /\ [Next]_vars => HideInv'
  <2>1. SUFFICES ASSUME HideInv, [Next]_vars PROVE \A c \in Contents : EnoughHide(c)'
    BY BoardInductive DEF HideInv
  <2>2. CASE UNCHANGED vars
    BY <2>1, <2>2 DEF HideInv, EnoughHide, PendingCount, Pending, AboutToHide, vars, Ids
  <2>3. CASE Next
    BY <2>1, <2>3, HideArrival, HideStep DEF Next, Fail
  <2>4. QED BY <2>1, <2>2, <2>3
<1>3. HideInv => PendingFlagsHide
  BY DEF HideInv, EnoughHide, AboutToHide, PendingFlagsHide, Quiet, At
<1>4. QED BY <1>1, <1>2, <1>3, PTL DEF Spec
-----------------------------------------------------------------------------
(* Such requests implement FlagBoard: each step is a step of the board or none *)

Reporters(ids) == {flags[i].reporter : i \in ids}

\* OpenBefore, read off the one request there is.
OpenWith(c, r) ==
  IF r.c = c /\ r.pc \in {"count", "load", "save", "remove"}
  THEN IF r.op = "create" THEN Reporters(Pending(c)) \ {r.who}
                          ELSE Reporters(Pending(c)) \cup Reporters(r.ids)
  ELSE Reporters(Pending(c))

LEMMA OpenIs ==
  ASSUME OneAtATime, NEW q \in Requests, NEW c
  PROVE  OpenBefore(c) = OpenWith(c, req[q])
<1>1. Underway(c) = IF req[q].c = c /\ req[q].pc \in {"count", "load", "save", "remove"}
                    THEN {q} ELSE {}
  BY DEF Underway, OneAtATime
<1>2. (CHOOSE o \in {q} : TRUE) = q
  OBVIOUS
<1>3. QED BY <1>1, <1>2 DEF OpenBefore, OpenWith, Reporters

LEMMA OpenBecomes ==
  ASSUME OneAtATime, NEW q \in Requests, NEW c
  PROVE  OpenBefore(c)' = OpenWith(c, req[q])'
<1>1. Underway(c)' = IF req'[q].c = c /\ req'[q].pc \in {"count", "load", "save", "remove"}
                     THEN {q} ELSE {}
  BY DEF Underway, OneAtATime
<1>2. (CHOOSE o \in {q} : TRUE) = q
  OBVIOUS
<1>3. QED BY <1>1, <1>2 DEF OpenBefore, OpenWith, Reporters

\* What the board shows.
Posted == [c \in Contents |-> content[c].state]
Opened == [c \in Contents |-> OpenBefore(c)]
Closed == [c \in Contents |-> Reviewed(c) \ OpenBefore(c)]
Hidden == [c \in Contents |-> content[c].is_hidden]
Removed == [c \in Contents |-> content[c].removed]

\* What one content looks like on the board stays as it is.
Unmoved(c) ==
  /\ OpenBefore(c)' = OpenBefore(c)
  /\ (Reviewed(c) \ OpenBefore(c))' = Reviewed(c) \ OpenBefore(c)
  /\ content'[c].state = content[c].state
  /\ content'[c].is_hidden = content[c].is_hidden
  /\ content'[c].removed = content[c].removed

LEMMA BoardStutters ==
  ASSUME \A c \in Contents : Unmoved(c)
  PROVE  UNCHANGED Board!vars
BY DEF Unmoved, Board!vars

\* One content moves on the board.
LEMMA OneMoves ==
  ASSUME NEW d \in Contents, \A c \in Contents \ {d} : Unmoved(c)
  PROVE  /\ \A v : content'[d].state = v => Posted' = [Posted EXCEPT ![d] = v]
         /\ \A v : OpenBefore(d)' = v => Opened' = [Opened EXCEPT ![d] = v]
         /\ \A v : (Reviewed(d) \ OpenBefore(d))' = v => Closed' = [Closed EXCEPT ![d] = v]
         /\ \A v : content'[d].is_hidden = v => Hidden' = [Hidden EXCEPT ![d] = v]
         /\ \A v : content'[d].removed = v => Removed' = [Removed EXCEPT ![d] = v]
         /\ content'[d].state = content[d].state => Posted' = Posted
         /\ OpenBefore(d)' = OpenBefore(d) => Opened' = Opened
         /\ (Reviewed(d) \ OpenBefore(d))' = Reviewed(d) \ OpenBefore(d) => Closed' = Closed
         /\ content'[d].is_hidden = content[d].is_hidden => Hidden' = Hidden
         /\ content'[d].removed = content[d].removed => Removed' = Removed
BY DEF Unmoved, Posted, Opened, Closed, Hidden, Removed

LEMMA BoardShows ==
  ASSUME NEW d \in Contents
  PROVE  /\ Posted[d] = content[d].state /\ Opened[d] = OpenBefore(d)
         /\ Closed[d] = Reviewed(d) \ OpenBefore(d)
         /\ Hidden[d] = content[d].is_hidden /\ Removed[d] = content[d].removed
BY DEF Posted, Opened, Closed, Hidden, Removed

\* The board counts as we do.
LEMMA BoardCounts == \A S : Board!Cardinality(S) = Cardinality(S)
BY DEF Board!Cardinality, Cardinality

LEMMA BoardPosts ==
  ASSUME NEW d \in Contents, \A c \in Contents \ {d} : Unmoved(c),
         OpenBefore(d)' = OpenBefore(d), Reviewed(d)' = Reviewed(d),
         content[d].state = "absent", content'[d].state = "live",
         content'[d].is_hidden = content[d].is_hidden,
         content'[d].removed = content[d].removed
  PROVE  Board!Next
<1>1. /\ Posted[d] = "absent" /\ Posted' = [Posted EXCEPT ![d] = "live"]
      /\ Opened' = Opened /\ Closed' = Closed /\ Hidden' = Hidden /\ Removed' = Removed
  BY OneMoves, BoardShows
<1>2. Board!Post(d)
  BY <1>1 DEF Board!Post, Posted, Opened, Closed, Hidden, Removed
<1>3. QED BY <1>2 DEF Board!Next

LEMMA BoardErases ==
  ASSUME NEW d \in Contents, \A c \in Contents \ {d} : Unmoved(c),
         OpenBefore(d)' = OpenBefore(d), Reviewed(d)' = Reviewed(d),
         content[d].state = "live", content'[d].state = "gone",
         content'[d].is_hidden = content[d].is_hidden,
         content'[d].removed = content[d].removed
  PROVE  Board!Next
<1>1. /\ Posted[d] = "live" /\ Posted' = [Posted EXCEPT ![d] = "gone"]
      /\ Opened' = Opened /\ Closed' = Closed /\ Hidden' = Hidden /\ Removed' = Removed
  BY OneMoves, BoardShows
<1>2. Board!Erase(d)
  BY <1>1 DEF Board!Erase, Posted, Opened, Closed, Hidden, Removed
<1>3. QED BY <1>2 DEF Board!Next

LEMMA BoardRestores ==
  ASSUME NEW d \in Contents, \A c \in Contents \ {d} : Unmoved(c),
         OpenBefore(d)' = OpenBefore(d), Reviewed(d)' = Reviewed(d),
         content[d].state = "live", content[d].removed,
         content'[d].state = content[d].state,
         content'[d].is_hidden = content[d].is_hidden,
         content'[d].removed = FALSE
  PROVE  Board!Next
<1>1. /\ Posted[d] = "live" /\ Removed[d] /\ Removed' = [Removed EXCEPT ![d] = FALSE]
      /\ Posted' = Posted /\ Opened' = Opened /\ Closed' = Closed /\ Hidden' = Hidden
  BY OneMoves, BoardShows
<1>2. Board!Restore(d)
  BY <1>1 DEF Board!Restore, Posted, Opened, Closed, Hidden, Removed
<1>3. QED BY <1>2 DEF Board!Next

LEMMA BoardAutoFlags ==
  ASSUME NEW d \in Contents, \A c \in Contents \ {d} : Unmoved(c),
         content[d].state # "absent", OpenBefore(d) = {}, Reviewed(d) = {},
         OpenBefore(d)' = {System}, Reviewed(d)' = {},
         content'[d].state = content[d].state,
         content'[d].is_hidden = content[d].is_hidden,
         content'[d].removed = content[d].removed
  PROVE  Board!Next
<1>1. (Reviewed(d) \ OpenBefore(d))' = Reviewed(d) \ OpenBefore(d)
  OBVIOUS
<1>2. /\ Posted[d] # "absent" /\ Opened[d] = {} /\ Closed[d] = {}
      /\ Opened' = [Opened EXCEPT ![d] = {System}]
      /\ Posted' = Posted /\ Closed' = Closed /\ Hidden' = Hidden /\ Removed' = Removed
  BY <1>1, OneMoves, BoardShows
<1>3. Board!AutoFlag(d)
  BY <1>2 DEF Board!AutoFlag, Posted, Opened, Closed, Hidden, Removed
<1>4. QED BY <1>3 DEF Board!Next

\* The columns of d are those of a recount of S.
LEMMA BoardRecounts ==
  ASSUME NEW d \in Contents, \A c \in Contents \ {d} : Unmoved(c), NEW S,
         OpenBefore(d)' = S,
         content'[d].is_hidden = IF content[d].state = "live"
                                 THEN Cardinality(S) >= FLAG_THRESHOLD
                                 ELSE content[d].is_hidden
  PROVE  /\ Opened' = [Opened EXCEPT ![d] = S]
         /\ Hidden' = [Hidden EXCEPT ![d] = IF Posted[d] = "live"
                                            THEN Board!Cardinality(S) >= FLAG_THRESHOLD
                                            ELSE Hidden[d]]
<1>1. content'[d].is_hidden = IF Posted[d] = "live"
                              THEN Board!Cardinality(S) >= FLAG_THRESHOLD ELSE Hidden[d]
  BY BoardCounts, BoardShows
<1>2. QED BY <1>1, OneMoves

LEMMA BoardFlags ==
  ASSUME NEW d \in Contents, NEW u \in Users, \A c \in Contents \ {d} : Unmoved(c),
         content'[d].state = content[d].state, content'[d].removed = content[d].removed,
         content[d].state # "absent",
         u \notin OpenBefore(d), u \notin Reviewed(d), u # Author[d],
         OpenBefore(d)' = OpenBefore(d) \cup {u}, Reviewed(d)' = Reviewed(d),
         content'[d].is_hidden = IF content[d].state = "live"
                                 THEN Cardinality(OpenBefore(d) \cup {u}) >= FLAG_THRESHOLD
                                 ELSE content[d].is_hidden
  PROVE  Board!Next
<1>1. PICK S : S = OpenBefore(d) \cup {u}
  OBVIOUS
<1>2. /\ Opened' = [Opened EXCEPT ![d] = S]
      /\ Hidden' = [Hidden EXCEPT ![d] = IF Posted[d] = "live"
                                         THEN Board!Cardinality(S) >= FLAG_THRESHOLD
                                         ELSE Hidden[d]]
  BY <1>1, BoardRecounts
<1>3. (Reviewed(d) \ OpenBefore(d))' = Reviewed(d) \ OpenBefore(d)
  OBVIOUS
<1>4. /\ Posted[d] # "absent" /\ S = Opened[d] \cup {u}
      /\ u \notin Opened[d] \cup Closed[d] \cup {Author[d]}
      /\ Posted' = Posted /\ Closed' = Closed /\ Removed' = Removed
  BY <1>1, <1>3, OneMoves, BoardShows
<1>5. Board!Flag(d, u)
  BY <1>2, <1>4 DEF Board!Flag, Board!Recount, Posted, Opened, Closed, Hidden, Removed
<1>6. QED BY <1>5 DEF Board!Next

LEMMA BoardRetracts ==
  ASSUME NEW d \in Contents, NEW u \in Users, \A c \in Contents \ {d} : Unmoved(c),
         content'[d].state = content[d].state, content'[d].removed = content[d].removed,
         u \in OpenBefore(d), u \notin Reviewed(d),
         OpenBefore(d)' = OpenBefore(d) \ {u}, Reviewed(d)' = Reviewed(d),
         content'[d].is_hidden = IF content[d].state = "live"
                                 THEN Cardinality(OpenBefore(d) \ {u}) >= FLAG_THRESHOLD
                                 ELSE content[d].is_hidden
  PROVE  Board!Next
<1>1. PICK S : S = OpenBefore(d) \ {u}
  OBVIOUS
<1>2. /\ Opened' = [Opened EXCEPT ![d] = S]
      /\ Hidden' = [Hidden EXCEPT ![d] = IF Posted[d] = "live"
                                         THEN Board!Cardinality(S) >= FLAG_THRESHOLD
                                         ELSE Hidden[d]]
  BY <1>1, BoardRecounts
<1>3. (Reviewed(d) \ OpenBefore(d))' = Reviewed(d) \ OpenBefore(d)
  OBVIOUS
<1>4. /\ S = Opened[d] \ {u} /\ u \in Opened[d]
      /\ Posted' = Posted /\ Closed' = Closed /\ Removed' = Removed
  BY <1>1, <1>3, OneMoves, BoardShows
<1>5. Board!Retract(d, u)
  BY <1>2, <1>4 DEF Board!Retract, Board!Recount, Posted, Opened, Closed, Hidden, Removed
<1>6. QED BY <1>5 DEF Board!Next

\* The pending flags of d are closed.
LEMMA BoardCloses ==
  ASSUME NEW d \in Contents, \A c \in Contents \ {d} : Unmoved(c),
         content'[d].state = content[d].state,
         OpenBefore(d) # {}, OpenBefore(d) \subseteq Reviewed(d),
         OpenBefore(d)' = {}, Reviewed(d)' = Reviewed(d)
  PROVE  Board!Close(d)
<1>1. (Reviewed(d) \ OpenBefore(d))' = (Reviewed(d) \ OpenBefore(d)) \cup OpenBefore(d)
  OBVIOUS
<1>2. PICK S : S = (Reviewed(d) \ OpenBefore(d)) \cup OpenBefore(d)
  OBVIOUS
<1>3. Opened[d] # {} /\ S = Closed[d] \cup Opened[d]
  BY <1>2, BoardShows
<1>4. Closed' = [Closed EXCEPT ![d] = S]
  <2>1. (Reviewed(d) \ OpenBefore(d))' = S
    BY <1>1, <1>2
  <2>2. QED BY <2>1, OneMoves
<1>5. Opened' = [Opened EXCEPT ![d] = {}] /\ Posted' = Posted
  BY OneMoves
<1>6. QED BY <1>3, <1>4, <1>5 DEF Board!Close, Posted, Opened, Closed

LEMMA BoardDismisses ==
  ASSUME NEW d \in Contents, \A c \in Contents \ {d} : Unmoved(c),
         content'[d].state = content[d].state, content'[d].removed = content[d].removed,
         OpenBefore(d) # {}, OpenBefore(d) \subseteq Reviewed(d),
         OpenBefore(d)' = {}, Reviewed(d)' = Reviewed(d),
         content'[d].is_hidden = IF content[d].state = "live" THEN FALSE
                                                              ELSE content[d].is_hidden
  PROVE  Board!Next
<1>1. Board!Close(d)
  BY BoardCloses
<1>2. /\ Hidden' = [Hidden EXCEPT ![d] = IF Posted[d] = "live" THEN FALSE ELSE Hidden[d]]
      /\ Removed' = Removed
  BY OneMoves, BoardShows
<1>3. Board!Dismiss(d)
  BY <1>1, <1>2 DEF Board!Dismiss, Posted, Hidden, Removed
<1>4. QED BY <1>3 DEF Board!Next

LEMMA BoardRemoves ==
  ASSUME NEW d \in Contents, \A c \in Contents \ {d} : Unmoved(c),
         content'[d].state = content[d].state, content'[d].is_hidden = content[d].is_hidden,
         OpenBefore(d) # {}, OpenBefore(d) \subseteq Reviewed(d),
         OpenBefore(d)' = {}, Reviewed(d)' = Reviewed(d),
         content'[d].removed = (content[d].state = "live" \/ content[d].removed)
  PROVE  Board!Next
<1>1. Board!Close(d)
  BY BoardCloses
<1>2. /\ Removed' = [Removed EXCEPT ![d] = (Posted[d] = "live") \/ Removed[d]]
      /\ Hidden' = Hidden
  BY OneMoves, BoardShows
<1>3. Board!Remove(d)
  BY <1>1, <1>2 DEF Board!Remove, Posted, Hidden, Removed
<1>4. QED BY <1>3 DEF Board!Next

\* As many users as pending flags.
LEMMA ReportersCounted ==
  ASSUME UniqueInv, NEW c
  PROVE  Cardinality(Reporters(Pending(c))) = PendingCount(c)
<1> DEFINE f == [i \in Pending(c) |-> flags[i].reporter]
<1>1. \A i, j \in Pending(c) : flags[i].reporter = flags[j].reporter => i = j
  BY DEF UniqueInv, OneFlagPerReporter, LiveIds, Live, Pending
<1>2. f \in Bijection(Pending(c), Reporters(Pending(c)))
  <2>1. f \in [Pending(c) -> Reporters(Pending(c))]
    BY DEF Reporters
  <2>2. \A i, j \in Pending(c) : f[i] = f[j] => i = j
    BY <1>1
  <2>3. \A u \in Reporters(Pending(c)) : \E i \in Pending(c) : f[i] = u
    BY DEF Reporters
  <2>4. QED BY <2>1, <2>2, <2>3 DEF Bijection, Injection, Surjection, IsInjective
<1>3. IsFiniteSet(Pending(c))
  BY PendingFinite DEF UniqueInv
<1>4. ExistsBijection(Pending(c), Reporters(Pending(c)))
  BY <1>2 DEF ExistsBijection
<1>5. QED BY <1>3, <1>4, FS_Bijection DEF PendingCount

LEMMA FlagsStay ==
  ASSUME UNCHANGED <<lastId, flags>>
  PROVE  \A c, s : /\ Reviewed(c)' = Reviewed(c) /\ OpenWith(c, s)' = OpenWith(c, s)
                   /\ Reporters(Pending(c))' = Reporters(Pending(c))
<1>1. SUFFICES ASSUME NEW c, NEW s
               PROVE  /\ Reviewed(c)' = Reviewed(c) /\ OpenWith(c, s)' = OpenWith(c, s)
                      /\ Reporters(Pending(c))' = Reporters(Pending(c))
  OBVIOUS
<1>2. Ids' = Ids /\ Pending(c)' = Pending(c)
  BY SameFlags
<1>3. Reporters(Pending(c))' = Reporters(Pending(c)) /\ Reporters(s.ids)' = Reporters(s.ids)
  BY <1>2 DEF Reporters
<1>4. Reviewed(c)' = Reviewed(c)
  BY <1>2 DEF Reviewed
<1>5. QED BY <1>3, <1>4 DEF OpenWith

LEMMA OpensAs ==
  ASSUME OneAtATime, TypeOK, NEW q \in Requests, NEW s, Goto(q, s), NEW c
  PROVE  OpenBefore(c)' = OpenWith(c, s)'
<1>1. req'[q] = s
  BY GotoGives
<1>2. QED BY <1>1, OpenBecomes DEF OpenWith

\* A request that is not under way leaves what was pending on the board.
LEMMA OpenAtRest ==
  ASSUME NEW s, s.pc \notin {"count", "load", "save", "remove"}, NEW c
  PROVE  OpenWith(c, s) = Reporters(Pending(c)) /\ OpenWith(c, s)' = Reporters(Pending(c))'
BY DEF OpenWith

LEMMA BoardSeesArrival ==
  ASSUME OneAtATime, TypeOK, NEW q \in Requests, Arrival(q)
  PROVE  Board!Next \/ UNCHANGED Board!vars
<1>1. UNCHANGED <<lastId, flags>> /\ At(q, "idle")
  BY DEF Arrival, Post, Restore, Erase, CreateFlag, RetractFlag, ReviewFlags
<1>2. \A c : OpenBefore(c) = Reporters(Pending(c))
  BY <1>1, OpenIs, OpenAtRest DEF At
<1>3. \E s : Goto(q, s) /\ s.pc \in {"idle", "watch", "insert", "delete", "mark"}
  <2>1. CASE req' = req
    <3>1. Goto(q, req[q])
      BY <2>1 DEF Goto, TypeOK
    <3>2. QED BY <1>1, <3>1 DEF At
  <2>2. ASSUME NEW c \in Contents, Post(q, c)
        PROVE  \E s : Goto(q, s) /\ s.pc \in {"idle", "watch", "insert", "delete", "mark"}
    <3>1. PICK s : s = [Idle EXCEPT !.pc = "watch", !.op = "post", !.c = c]
      OBVIOUS
    <3>2. s.pc \in {"idle", "watch", "insert", "delete", "mark"}
      BY <3>1 DEF Idle
    <3>3. QED BY <2>2, <3>1, <3>2 DEF Post
  <2>3. ASSUME NEW c \in Contents, NEW u \in Users, CreateFlag(q, c, u)
        PROVE  \E s : Goto(q, s) /\ s.pc \in {"idle", "watch", "insert", "delete", "mark"}
    <3>1. PICK s : s = [Idle EXCEPT !.pc = "insert", !.op = "create", !.c = c, !.who = u]
      OBVIOUS
    <3>2. s.pc \in {"idle", "watch", "insert", "delete", "mark"}
      BY <3>1 DEF Idle
    <3>3. QED BY <2>3, <3>1, <3>2 DEF CreateFlag
  <2>4. ASSUME NEW i \in Ids, NEW u \in Users, RetractFlag(q, i, u)
        PROVE  \E s : Goto(q, s) /\ s.pc \in {"idle", "watch", "insert", "delete", "mark"}
    <3>1. PICK s : s = [Idle EXCEPT !.pc = "delete", !.op = "retract",
                              !.c = flags[i].content, !.who = u, !.ids = {i}]
      OBVIOUS
    <3>2. s.pc \in {"idle", "watch", "insert", "delete", "mark"}
      BY <3>1 DEF Idle
    <3>3. QED BY <2>4, <3>1, <3>2 DEF RetractFlag
  <2>5. ASSUME NEW ids \in SUBSET Ids, NEW c \in Contents,
               NEW action \in {"dismiss", "action"}, ReviewFlags(q, ids, c, action)
        PROVE  \E s : Goto(q, s) /\ s.pc \in {"idle", "watch", "insert", "delete", "mark"}
    <3>1. PICK s : s = [Idle EXCEPT !.pc = "mark", !.op = action, !.c = c, !.ids = ids]
      OBVIOUS
    <3>2. s.pc \in {"idle", "watch", "insert", "delete", "mark"}
      BY <3>1 DEF Idle
    <3>3. QED BY <2>5, <3>1, <3>2 DEF ReviewFlags
  <2>6. QED BY <2>1, <2>2, <2>3, <2>4, <2>5 DEF Arrival, Restore, Erase
<1>4. \A c : OpenBefore(c)' = OpenBefore(c) /\ Reviewed(c)' = Reviewed(c)
  <2>1. PICK s : Goto(q, s) /\ s.pc \in {"idle", "watch", "insert", "delete", "mark"}
    BY <1>3
  <2>2. \A c : OpenBefore(c)' = OpenWith(c, s)'
    BY <2>1, OpensAs
  <2>3. \A c : OpenWith(c, s)' = Reporters(Pending(c))'
    BY <2>1, OpenAtRest
  <2>4. QED BY <1>1, <1>2, <2>2, <2>3, FlagsStay
<1>5. \A c : (Reviewed(c) \ OpenBefore(c))' = Reviewed(c) \ OpenBefore(c)
  BY <1>4
<1>6. ASSUME UNCHANGED content PROVE UNCHANGED Board!vars
  BY <1>4, <1>5, <1>6, BoardStutters DEF Unmoved
<1>7. ASSUME NEW d \in Contents, \A c \in Contents \ {d} : content'[c] = content[c]
      PROVE  \A c \in Contents \ {d} : Unmoved(c)
  BY <1>4, <1>5, <1>7 DEF Unmoved
<1>8. ASSUME NEW d \in Contents, Post(q, d) PROVE Board!Next
  <2>1. /\ content[d].state = "absent" /\ content'[d] = [content[d] EXCEPT !.state = "live"]
        /\ \A c \in Contents \ {d} : content'[c] = content[c]
    BY <1>8 DEF Post, TypeOK
  <2>2. /\ content'[d].state = "live" /\ content'[d].is_hidden = content[d].is_hidden
        /\ content'[d].removed = content[d].removed
    BY <2>1 DEF TypeOK, ContentRow
  <2>3. QED BY <1>4, <1>7, <2>1, <2>2, BoardPosts
<1>9. ASSUME NEW d \in Contents, Erase(q, d) PROVE Board!Next
  <2>1. /\ content[d].state = "live" /\ content'[d] = [content[d] EXCEPT !.state = "gone"]
        /\ \A c \in Contents \ {d} : content'[c] = content[c]
    BY <1>9 DEF Erase, TypeOK
  <2>2. /\ content'[d].state = "gone" /\ content'[d].is_hidden = content[d].is_hidden
        /\ content'[d].removed = content[d].removed
    BY <2>1 DEF TypeOK, ContentRow
  <2>3. QED BY <1>4, <1>7, <2>1, <2>2, BoardErases
<1>10. ASSUME NEW d \in Contents, Restore(q, d) PROVE Board!Next
  <2>1. /\ content[d].state = "live" /\ content[d].removed
        /\ content'[d] = [content[d] EXCEPT !.removed = FALSE]
        /\ \A c \in Contents \ {d} : content'[c] = content[c]
    BY <1>10 DEF Restore, TypeOK
  <2>2. /\ content'[d].state = content[d].state
        /\ content'[d].is_hidden = content[d].is_hidden /\ content'[d].removed = FALSE
    BY <2>1 DEF TypeOK, ContentRow
  <2>3. QED BY <1>4, <1>7, <2>1, <2>2, BoardRestores
<1>11. QED
  BY <1>6, <1>8, <1>9, <1>10 DEF Arrival, CreateFlag, RetractFlag, ReviewFlags

\* A step that changes no row, and nothing of what is pending on the board.
LEMMA BoardRests ==
  ASSUME OneAtATime, TypeOK, NEW q \in Requests, NEW s, Goto(q, s),
         UNCHANGED <<lastId, flags, content>>,
         \A c \in Contents : OpenWith(c, s) = OpenWith(c, req[q])
  PROVE  UNCHANGED Board!vars
<1>1. ASSUME NEW c \in Contents PROVE OpenBefore(c)' = OpenBefore(c)
  BY <1>1, OpenIs, OpensAs, FlagsStay
<1>2. QED BY <1>1, FlagsStay, BoardStutters DEF Unmoved

\* A request that has stored what it recomputed, on content still there or gone,
\* moves the board as one Flag, Retract or Dismiss.
LEMMA BoardSeesSave ==
  ASSUME OneAtATime, BoardInv, NEW q \in Requests, req[q].pc \in {"load", "save"},
         NEW s, s.pc \notin {"count", "load", "save", "remove"}, Goto(q, s),
         UNCHANGED <<lastId, flags>>,
         NEW d \in Contents, d = req[q].c,
         \A c \in Contents \ {d} : content'[c] = content[c],
         content'[d].state = content[d].state, content'[d].removed = content[d].removed,
         content'[d].is_hidden = IF content[d].state = "live"
                                 THEN SavedContent(req[q]).is_hidden
                                 ELSE content[d].is_hidden
  PROVE  Board!Next
<1> USE DEF BoardInv
<1>1. PICK r : r = req[q]
  OBVIOUS
<1>2. /\ r \in Request /\ AtWork(r) /\ r.c = d /\ r.pc \in {"load", "save"}
      /\ TypeOK /\ UniqueInv /\ r.who \in Users
  BY <1>1 DEF UniqueInv, TypeOK, Request
<1>3. PICK P : P = Reporters(Pending(d))
  OBVIOUS
<1>4. \A c : OpenBefore(c)' = Reporters(Pending(c)) /\ Reviewed(c)' = Reviewed(c)
  BY <1>2, OpensAs, OpenAtRest, FlagsStay
<1>5. \A c : OpenBefore(c) = OpenWith(c, r)
  BY <1>1, OpenIs
<1>6. \A c \in Contents \ {d} : OpenBefore(c)' = OpenBefore(c)
  BY <1>2, <1>4, <1>5 DEF OpenWith
<1>7. \A c \in Contents \ {d} : Unmoved(c)
  BY <1>4, <1>6 DEF Unmoved
<1>8. /\ OpenBefore(d)' = P /\ Reviewed(d)' = Reviewed(d)
      /\ r.op = "create" => OpenBefore(d) = P \ {r.who}
      /\ r.op # "create" => OpenBefore(d) = P \cup Reporters(r.ids)
  BY <1>2, <1>3, <1>4, <1>5 DEF OpenWith
<1>9. ASSUME r.op # "dismiss"
      PROVE  content'[d].is_hidden = IF content[d].state = "live"
                                     THEN Cardinality(P) >= FLAG_THRESHOLD
                                     ELSE content[d].is_hidden
  <2>1. r.n = PendingCount(d)
    BY <1>2, <1>9 DEF AtWork
  <2>2. r.n = Cardinality(P)
    BY <1>2, <1>3, <2>1, ReportersCounted
  <2>3. SavedContent(r) = Recounted(r.n)
    BY <1>9 DEF SavedContent
  <2>4. PICK new : new = SavedContent(r)
    OBVIOUS
  <2>5. new = Recounted(r.n)
    BY <2>3, <2>4
  <2>6. new.is_hidden = (r.n >= FLAG_THRESHOLD)
    BY <2>5, Zenon DEF Recounted
  <2>7. QED BY <1>1, <2>2, <2>4, <2>6, Zenon
<1>10. CASE r.op = "create"
  <2>1. r.who # Author[d] /\ \E i \in Pending(d) : flags[i].reporter = r.who
    BY <1>2, <1>10 DEF AtWork
  <2>2. r.who \in P /\ OpenBefore(d) \cup {r.who} = P /\ r.who \notin OpenBefore(d)
    BY <1>3, <1>8, <1>10, <2>1 DEF Reporters
  <2>3. r.who \notin Reviewed(d)
    BY <1>2, <2>1 DEF UniqueInv, OneFlagPerReporter, LiveIds, Live, Pending, Reviewed
  <2>4. content[d].state # "absent"
    BY <2>1 DEF FlagsArePosted, Pending
  <2>5. QED
    BY <1>2, <1>7, <1>8, <1>9, <1>10, <2>1, <2>2, <2>3, <2>4, BoardFlags
<1>11. CASE r.op = "retract"
  <2>1. PICK i \in Ids : /\ r.ids = {i} /\ flags[i].content = d
                         /\ flags[i].reporter = r.who
    BY <1>2, <1>11 DEF AtWork
  <2>2. ~Flagged(d, r.who)
    BY <1>2, <1>11 DEF AtWork
  <2>3. Reporters(r.ids) = {r.who} /\ r.who \notin P /\ r.who \notin Reviewed(d)
    BY <1>3, <2>1, <2>2 DEF Reporters, Flagged, Live, Pending, Reviewed
  <2>4. r.who \in OpenBefore(d) /\ OpenBefore(d) \ {r.who} = P
    BY <1>8, <1>11, <2>3
  <2>5. QED BY <1>2, <1>7, <1>8, <1>9, <1>11, <2>3, <2>4, BoardRetracts
<1>12. CASE r.op = "dismiss"
  <2>1. Closing(r)
    BY <1>2, <1>12 DEF AtWork
  <2>2. P = {} /\ Reporters(r.ids) # {} /\ Reporters(r.ids) \subseteq Reviewed(d)
    BY <1>2, <1>3, <2>1 DEF Closing, Reporters, Reviewed
  <2>3. SavedContent(r).is_hidden = FALSE
    BY <1>12 DEF SavedContent, Unhidden
  <2>4. QED BY <1>1, <1>7, <1>8, <1>12, <2>2, <2>3, BoardDismisses
<1>13. QED BY <1>2, <1>10, <1>11, <1>12 DEF AtWork

\* The watchlist's flag is the first on its content, and all else it does is nothing.
LEMMA BoardSeesWatch ==
  ASSUME OneAtATime, BoardInv, NEW q \in Requests, Watch(q)
  PROVE  Board!Next \/ UNCHANGED Board!vars
<1> USE DEF BoardInv, UniqueInv
<1>1. PICK r : r = req[q]
  OBVIOUS
<1>2. /\ r \in Request /\ r.c \in Contents /\ r.pc = "watch" /\ TypeOK
      /\ NoFlagsOn(r.c) /\ content[r.c].state # "absent"
  BY <1>1 DEF TypeOK, Request, Watch, At, AtWork
<1>3. /\ Goto(q, Idle) /\ UNCHANGED content
      /\ Insert(r.c, System, TRUE) \/ UNCHANGED <<lastId, flags>>
  BY <1>1 DEF Watch, Finish
<1>4. Idle.pc = "idle"
  BY DEF Idle
<1>5. \A c : OpenBefore(c) = Reporters(Pending(c)) /\ OpenBefore(c)' = Reporters(Pending(c))'
  BY <1>1, <1>2, <1>3, <1>4, OpenIs, OpensAs, OpenAtRest
<1>6. CASE UNCHANGED <<lastId, flags>>
  <2>1. \A c : OpenBefore(c)' = OpenBefore(c) /\ Reviewed(c)' = Reviewed(c)
    BY <1>5, <1>6, FlagsStay
  <2>2. QED BY <1>3, <2>1, BoardStutters DEF Unmoved
<1>7. CASE Insert(r.c, System, TRUE)
  <2>1. PICK id, d : id = lastId + 1 /\ d = r.c
    OBVIOUS
  <2>2. /\ Ids' = Ids \cup {id}
        /\ flags'[id] = [content |-> d, reporter |-> System, status |-> "pending",
                         auto |-> TRUE]
        /\ id \notin Ids /\ \A i \in Ids : flags'[i] = flags[i]
    BY <1>2, <1>7, <2>1, InsertKeeps, PeopleAssumption
  <2>3. /\ flags'[id].content = d /\ flags'[id].reporter = System
        /\ flags'[id].status = "pending"
    BY <2>2
  <2>4. ASSUME NEW c, c # d
        PROVE  OpenBefore(c)' = OpenBefore(c) /\ Reviewed(c)' = Reviewed(c)
    <3>1. Pending(c)' = Pending(c)
      BY <2>2, <2>3, <2>4 DEF Pending
    <3>2. \A i \in Pending(c) : flags'[i] = flags[i]
      BY <2>2 DEF Pending
    <3>3. Reporters(Pending(c))' = Reporters(Pending(c))
      BY <3>1, <3>2 DEF Reporters
    <3>4. Reviewed(c)' = Reviewed(c)
      BY <2>2, <2>3, <2>4 DEF Reviewed
    <3>5. QED BY <1>5, <3>3, <3>4
  <2>5. Pending(d) = {} /\ Reviewed(d) = {}
    BY <1>2, <2>1 DEF NoFlagsOn, Pending, Reviewed
  <2>6. Pending(d)' = {id} /\ Reviewed(d)' = {}
    BY <1>2, <2>1, <2>2, <2>3 DEF NoFlagsOn, Pending, Reviewed
  <2>7. OpenBefore(d) = {} /\ OpenBefore(d)' = {System}
    BY <1>5, <2>3, <2>5, <2>6 DEF Reporters
  <2>8. \A c \in Contents \ {d} : Unmoved(c)
    BY <1>3, <2>4 DEF Unmoved
  <2>9. QED BY <1>2, <1>3, <2>1, <2>5, <2>6, <2>7, <2>8, BoardAutoFlags
<1>8. QED BY <1>3, <1>6, <1>7

\* A row that is inserted does not show before its content is recomputed.
LEMMA BoardSeesInsert ==
  ASSUME OneAtATime, BoardInv, NEW q \in Requests, InsertFlag(q)
  PROVE  UNCHANGED Board!vars
<1> USE DEF BoardInv, UniqueInv
<1>1. PICK r, d : r = req[q] /\ d = r.c
  OBVIOUS
<1>2. /\ r \in Request /\ d \in Contents /\ r.who \in Users /\ r.pc = "insert" /\ TypeOK
      /\ r.op = "create" /\ UNCHANGED content
  BY <1>1 DEF TypeOK, Request, InsertFlag, At, SerialInv, StillSo
<1>3. \A c : OpenBefore(c) = Reporters(Pending(c))
  BY <1>1, <1>2, OpenIs, OpenAtRest
<1>4. CASE Flagged(d, r.who)
  <2>1. Goto(q, Idle) /\ UNCHANGED <<lastId, flags, content>>
    BY <1>1, <1>2, <1>4 DEF InsertFlag, Finish
  <2>2. Idle.pc = "idle"
    BY DEF Idle
  <2>3. \A c \in Contents : OpenWith(c, Idle) = OpenWith(c, req[q])
    BY <1>1, <1>2, <2>2, OpenAtRest
  <2>4. QED BY <1>2, <2>1, <2>3, BoardRests
<1>5. CASE ~Flagged(d, r.who)
  <2>1. PICK s, id : s = [r EXCEPT !.pc = "count"] /\ id = lastId + 1
    OBVIOUS
  <2>2. s.pc = "count" /\ s.op = "create" /\ s.c = d /\ s.who = r.who
    BY <1>1, <1>2, <2>1 DEF Request
  <2>3. Insert(d, r.who, FALSE) /\ Goto(q, s)
    BY <1>1, <1>5, <2>1 DEF InsertFlag
  <2>4. /\ Ids' = Ids \cup {id} /\ id \notin Ids
        /\ flags'[id] = [content |-> d, reporter |-> r.who, status |-> "pending",
                         auto |-> FALSE]
        /\ \A i \in Ids : flags'[i] = flags[i]
    BY <1>2, <2>1, <2>3, InsertKeeps
  <2>5. /\ flags'[id].content = d /\ flags'[id].reporter = r.who
        /\ flags'[id].status = "pending"
    BY <2>4
  <2>6. ASSUME NEW c
        PROVE  OpenBefore(c)' = OpenBefore(c) /\ Reviewed(c)' = Reviewed(c)
    <3>1. Reviewed(c)' = Reviewed(c)
      BY <2>4, <2>5 DEF Reviewed
    <3>2. OpenBefore(c)' = OpenWith(c, s)'
      BY <1>2, <2>3, OpensAs
    <3>3. \A i \in Pending(c) : flags'[i] = flags[i]
      BY <2>4 DEF Pending
    <3>4. CASE c = d
      <4>1. Pending(c)' = Pending(c) \cup {id}
        BY <2>4, <2>5, <3>4 DEF Pending
      <4>2. Reporters(Pending(c))' = Reporters(Pending(c)) \cup {r.who}
        BY <2>5, <3>3, <4>1 DEF Reporters
      <4>3. r.who \notin Reporters(Pending(c))
        BY <1>5, <3>4 DEF Flagged, Live, Reporters, Pending
      <4>4. OpenWith(c, s)' = Reporters(Pending(c))' \ {r.who}
        BY <2>2, <3>4 DEF OpenWith
      <4>5. QED BY <1>3, <3>1, <3>2, <4>2, <4>3, <4>4
    <3>5. CASE c # d
      <4>1. Pending(c)' = Pending(c)
        BY <2>4, <2>5, <3>5 DEF Pending
      <4>2. Reporters(Pending(c))' = Reporters(Pending(c))
        BY <3>3, <4>1 DEF Reporters
      <4>3. OpenWith(c, s)' = Reporters(Pending(c))'
        BY <2>2, <3>5 DEF OpenWith
      <4>4. QED BY <1>3, <3>1, <3>2, <4>2, <4>3
    <3>6. QED BY <3>4, <3>5
  <2>7. QED BY <1>2, <2>6, BoardStutters DEF Unmoved
<1>6. QED BY <1>4, <1>5

\* Deleting the row or marking the rows does not show before the content changes:
\* till then the board has the flags of the request as pending.
LEMMA BoardSeesMark ==
  ASSUME OneAtATime, BoardInv, NEW q \in Requests, NEW r, r = req[q],
         r.pc \in {"delete", "mark"}, r.ids \subseteq Pending(r.c),
         NEW status \in {"deleted", "dismissed", "actioned"}, Mark(r.ids, status),
         NEW s, Goto(q, s), s.pc \in {"count", "load", "remove"}, s.op # "create",
         s.c = r.c, s.ids = r.ids, UNCHANGED <<lastId, content>>
  PROVE  UNCHANGED Board!vars
<1> USE DEF BoardInv, UniqueInv
<1>1. PICK d, ids : d = r.c /\ ids = r.ids
  OBVIOUS
<1>2. Ids' = Ids /\ ids \subseteq Ids /\ TypeOK
  BY <1>1 DEF Ids, Pending
<1>3. \A c : OpenBefore(c) = Reporters(Pending(c)) /\ OpenBefore(c)' = OpenWith(c, s)'
  BY <1>1, <1>2, OpenIs, OpenAtRest, OpensAs
<1>4. ASSUME NEW i \in ids
      PROVE  /\ flags'[i].content = d /\ flags'[i].reporter = flags[i].reporter
             /\ flags'[i].status = status /\ flags[i].content = d
             /\ flags[i].status = "pending"
  <2>1. i \in Ids /\ flags[i].content = d /\ flags[i].status = "pending"
    BY <1>1, <1>4 DEF Pending
  <2>2. flags'[i] = [flags[i] EXCEPT !.status = status] /\ flags[i] \in FlagRow
    BY <1>1, <1>2, <1>4, <2>1 DEF Mark, Live, TypeOK
  <2>3. QED BY <2>1, <2>2 DEF FlagRow
<1>5. \A i \in Ids \ ids : flags'[i] = flags[i]
  BY <1>1 DEF Mark
<1>6. ASSUME NEW c, c # d
      PROVE  OpenBefore(c)' = OpenBefore(c) /\ Reviewed(c)' = Reviewed(c)
  <2>1. Pending(c)' = Pending(c) /\ \A i \in Pending(c) : flags'[i] = flags[i]
    BY <1>2, <1>4, <1>5, <1>6 DEF Pending
  <2>2. Reporters(Pending(c))' = Reporters(Pending(c))
    BY <2>1 DEF Reporters
  <2>3. Reviewed(c)' = Reviewed(c)
    BY <1>2, <1>4, <1>5, <1>6 DEF Reviewed
  <2>4. OpenWith(c, s)' = Reporters(Pending(c))'
    BY <1>1, <1>6 DEF OpenWith
  <2>5. QED BY <1>3, <2>2, <2>3, <2>4
<1>7. OpenBefore(d)' = OpenBefore(d)
  <2>1. Pending(d)' = Pending(d) \ ids /\ \A i \in Pending(d) \ ids : flags'[i] = flags[i]
    BY <1>2, <1>4, <1>5 DEF Pending
  <2>2. Reporters(Pending(d))' = Reporters(Pending(d) \ ids)
    BY <2>1 DEF Reporters
  <2>3. Reporters(ids)' = Reporters(ids)
    BY <1>4 DEF Reporters
  <2>4. Reporters(Pending(d) \ ids) \cup Reporters(ids) = Reporters(Pending(d))
    BY <1>1 DEF Reporters
  <2>5. OpenWith(d, s)' = Reporters(Pending(d))' \cup Reporters(ids)'
    BY <1>1 DEF OpenWith
  <2>6. QED BY <1>3, <2>2, <2>3, <2>4, <2>5
<1>8. (Reviewed(d) \ OpenBefore(d))' = Reviewed(d) \ OpenBefore(d)
  <2>1. Reporters(ids) \subseteq OpenBefore(d)
    BY <1>1, <1>3 DEF Reporters
  <2>2. Reviewed(d) \subseteq Reviewed(d)'
    BY <1>2, <1>4, <1>5 DEF Reviewed
  <2>3. Reviewed(d)' \subseteq Reviewed(d) \cup Reporters(ids)
    BY <1>2, <1>4, <1>5 DEF Reviewed, Reporters
  <2>4. QED BY <1>7, <2>1, <2>2, <2>3
<1>9. \A c \in Contents : Unmoved(c)
  BY <1>6, <1>7, <1>8 DEF Unmoved
<1>10. QED BY <1>9, BoardStutters

\* The content is removed, and the flags of the request are closed, in one step.
LEMMA BoardSeesRemove ==
  ASSUME OneAtATime, BoardInv, NEW q \in Requests, Remove(q)
  PROVE  Board!Next
<1> USE DEF BoardInv, UniqueInv
<1>1. PICK r, d : r = req[q] /\ d = r.c
  OBVIOUS
<1>2. /\ r \in Request /\ d \in Contents /\ r.pc = "remove" /\ TypeOK /\ AtWork(r)
      /\ r.op = "action" /\ UNCHANGED <<lastId, flags>>
  BY <1>1 DEF TypeOK, Request, Remove, At, AtWork
<1>3. \E s : Goto(q, s) /\ s.pc \in {"idle", "load_user", "reward"}
  <2>1. PICK s, t : /\ s = [r EXCEPT !.pc = "load_user", !.who = Author[d], !.counter = "valid"]
                    /\ t = [r EXCEPT !.pc = "reward"]
    OBVIOUS
  <2>2. s.pc = "load_user" /\ t.pc = "reward" /\ Idle.pc = "idle"
    BY <1>2, <2>1 DEF Request, Idle
  <2>3. Goto(q, s) \/ Goto(q, t) \/ Goto(q, Idle)
    BY <1>1, <2>1 DEF Remove, Finish
  <2>4. QED BY <2>2, <2>3
<1>4. PICK s : Goto(q, s) /\ s.pc \in {"idle", "load_user", "reward"}
  BY <1>3
<1>5. \A c : OpenBefore(c)' = Reporters(Pending(c)) /\ Reviewed(c)' = Reviewed(c)
  BY <1>2, <1>4, OpensAs, OpenAtRest, FlagsStay
<1>6. \A c : OpenBefore(c) = OpenWith(c, r)
  BY <1>1, OpenIs
<1>7. /\ \A c \in Contents \ {d} : content'[c] = content[c]
      /\ content'[d].state = content[d].state
      /\ content'[d].is_hidden = content[d].is_hidden
      /\ content'[d].removed = (content[d].state = "live" \/ content[d].removed)
  <2>1. CASE content[d].state = "live"
    <3>1. content' = [content EXCEPT ![d].removed = TRUE]
      BY <1>1, <2>1 DEF Remove
    <3>2. QED BY <1>2, <2>1, <3>1 DEF TypeOK, ContentRow
  <2>2. CASE content[d].state # "live"
    <3>1. UNCHANGED content /\ content[d].removed \in BOOLEAN
      BY <1>1, <1>2, <2>2 DEF Remove, TypeOK, ContentRow
    <3>2. QED BY <2>2, <3>1
  <2>3. QED BY <2>1, <2>2
<1>8. \A c \in Contents \ {d} : Unmoved(c)
  <2>1. \A c \in Contents \ {d} : OpenBefore(c)' = OpenBefore(c)
    BY <1>1, <1>5, <1>6 DEF OpenWith
  <2>2. QED BY <1>5, <1>7, <2>1 DEF Unmoved
<1>9. Closing(r)
  BY <1>2 DEF AtWork
<1>10. /\ Reporters(Pending(d)) = {} /\ Reporters(r.ids) # {}
       /\ Reporters(r.ids) \subseteq Reviewed(d)
  BY <1>1, <1>9 DEF Closing, Reporters, Reviewed
<1>11. OpenBefore(d) = Reporters(r.ids)
  BY <1>1, <1>2, <1>6, <1>10 DEF OpenWith
<1>12. QED BY <1>2, <1>5, <1>7, <1>8, <1>10, <1>11, BoardRemoves

LEMMA BoardSeesStep ==
  ASSUME OneAtATime, BoardInv, NEW q \in Requests, Step(q)
  PROVE  Board!Next \/ UNCHANGED Board!vars
<1> DEFINE Goal == Board!Next \/ UNCHANGED Board!vars
<1>1. PICK r, d : r = req[q] /\ d = r.c
  OBVIOUS
<1>2. /\ r \in Request /\ d \in Contents /\ AtWork(r) /\ StillSo(r)
      /\ TypeOK /\ UniqueInv /\ SerialInv
  BY <1>1 DEF BoardInv, UniqueInv, SerialInv, TypeOK, Request
<1>3. CASE Watch(q) \/ InsertFlag(q) \/ Remove(q)
  BY <1>3, BoardSeesWatch, BoardSeesInsert, BoardSeesRemove
<1>4. CASE DeleteRow(q)
  <2>1. PICK s : s = [r EXCEPT !.pc = "count"]
    OBVIOUS
  <2>2. /\ s.pc = "count" /\ s.op = "retract" /\ s.c = r.c /\ s.ids = r.ids
        /\ r.pc = "delete" /\ r.ids \subseteq Pending(r.c)
    BY <1>1, <1>2, <1>4, <2>1 DEF Request, DeleteRow, At, StillSo, Pending
  <2>3. Mark(r.ids, "deleted") /\ Goto(q, s) /\ UNCHANGED <<lastId, content>>
    BY <1>1, <1>4, <2>1 DEF DeleteRow
  <2>4. QED BY <1>1, <2>2, <2>3, BoardSeesMark
<1>5. CASE MarkRows(q)
  <2>1. r.pc = "mark" /\ r.ids = Pending(r.c) /\ r.op \in {"dismiss", "action"}
    BY <1>1, <1>2, <1>5 DEF MarkRows, At, AtWork
  <2>2. PICK s, t : s = [r EXCEPT !.pc = "load"] /\ t = [r EXCEPT !.pc = "remove"]
    OBVIOUS
  <2>3. /\ s.pc = "load" /\ s.op # "create" /\ s.c = r.c /\ s.ids = r.ids
        /\ t.pc = "remove" /\ t.op # "create" /\ t.c = r.c /\ t.ids = r.ids
    BY <1>2, <2>1, <2>2 DEF Request
  <2>4. /\ UNCHANGED <<lastId, content>>
        /\ \/ Mark(r.ids, "dismissed") /\ Goto(q, s)
           \/ Mark(r.ids, "actioned") /\ Goto(q, t)
    BY <1>1, <1>5, <2>2 DEF MarkRows
  <2>5. CASE Mark(r.ids, "dismissed") /\ Goto(q, s)
    BY <1>1, <2>1, <2>3, <2>4, <2>5, BoardSeesMark
  <2>6. CASE Mark(r.ids, "actioned") /\ Goto(q, t)
    BY <1>1, <2>1, <2>3, <2>4, <2>6, BoardSeesMark
  <2>7. QED BY <2>4, <2>5, <2>6
<1>6. CASE CountPending(q)
  <2>1. PICK s : s = [r EXCEPT !.pc = "load", !.n = PendingCount(r.c)]
    OBVIOUS
  <2>2. /\ s.pc = "load" /\ s.op = r.op /\ s.c = r.c /\ s.ids = r.ids /\ s.who = r.who
        /\ r.pc = "count"
    BY <1>1, <1>2, <1>6, <2>1 DEF Request, CountPending, At
  <2>3. \A c \in Contents : OpenWith(c, s) = OpenWith(c, req[q])
    BY <1>1, <2>2 DEF OpenWith
  <2>4. Goto(q, s) /\ UNCHANGED <<lastId, flags, content>>
    BY <1>1, <1>6, <2>1 DEF CountPending
  <2>5. QED BY <1>2, <2>3, <2>4, BoardRests
<1>7. AfterContent(r).pc \notin {"count", "load", "save", "remove"}
  BY DEF AfterContent, Idle
<1>8. CASE LoadContent(q)
  <2>1. UNCHANGED <<lastId, flags, content>> /\ r.pc = "load"
    BY <1>1, <1>8 DEF LoadContent, At
  <2>2. CASE content[d].state = "live"
    <3>1. PICK s : s = [r EXCEPT !.pc = "save", !.row = ColumnsOf(content[r.c])]
      OBVIOUS
    <3>2. s.pc = "save" /\ s.op = r.op /\ s.c = r.c /\ s.ids = r.ids /\ s.who = r.who
      BY <1>2, <3>1 DEF Request
    <3>3. \A c \in Contents : OpenWith(c, s) = OpenWith(c, req[q])
      BY <1>1, <2>1, <3>2 DEF OpenWith
    <3>4. Goto(q, s)
      BY <1>1, <1>8, <2>2, <3>1 DEF LoadContent
    <3>5. QED BY <1>2, <2>1, <3>3, <3>4, BoardRests
  <2>3. CASE content[d].state # "live"
    <3>1. PICK s : s = AfterContent(r)
      OBVIOUS
    <3>2. Goto(q, s) /\ s.pc \notin {"count", "load", "save", "remove"}
      BY <1>1, <1>7, <1>8, <2>3, <3>1 DEF LoadContent
    <3>3. QED BY <1>1, <1>2, <2>1, <2>3, <3>2, BoardSeesSave
  <2>4. QED BY <2>2, <2>3
<1>9. CASE SaveContent(q)
  <2>1. PICK s, new : s = AfterContent(r) /\ new = SavedContent(r)
    OBVIOUS
  <2>2. /\ content[d].state = "live" /\ Goto(q, s)
        /\ content' = [content EXCEPT ![d] = [@ EXCEPT !.flag_count = new.flag_count,
                                                       !.is_hidden = new.is_hidden]]
    BY <1>1, <1>2, <1>9, <2>1, SavedContentRow
  <2>3. r.pc = "save" /\ UNCHANGED <<lastId, flags>>
    BY <1>1, <1>9 DEF SaveContent, At
  <2>4. /\ \A c \in Contents \ {d} : content'[c] = content[c]
        /\ content'[d].state = content[d].state /\ content'[d].removed = content[d].removed
        /\ content'[d].is_hidden = new.is_hidden
    BY <1>2, <2>2 DEF TypeOK, ContentRow
  <2>5. content'[d].is_hidden = IF content[d].state = "live"
                                THEN SavedContent(req[q]).is_hidden
                                ELSE content[d].is_hidden
    BY <1>1, <2>1, <2>2, <2>4, Zenon
  <2>6. req[q].pc \in {"load", "save"} /\ d = req[q].c
    BY <1>1, <2>3
  <2>7. QED BY <1>2, <1>7, <2>1, <2>2, <2>3, <2>4, <2>5, <2>6, BoardSeesSave
<1>10. CASE Reward(q) \/ LoadUser(q) \/ SaveUser(q)
  <2>1. UNCHANGED <<lastId, flags, content>> /\ r.pc \in {"reward", "load_user", "save_user"}
    BY <1>1, <1>10 DEF Reward, LoadUser, SaveUser, At
  <2>2. ASSUME NEW s, Goto(q, s), s.pc \notin {"count", "load", "save", "remove"} PROVE Goal
    <3>1. \A c \in Contents : OpenWith(c, s) = OpenWith(c, req[q])
      BY <1>1, <2>1, <2>2, OpenAtRest
    <3>2. QED BY <1>2, <2>1, <2>2, <3>1, BoardRests
  <2>3. Idle.pc = "idle"
    BY DEF Idle
  <2>4. CASE Reward(q)
    <3>1. PICK s : s = [Idle EXCEPT !.pc = "load_user", !.op = "action", !.c = r.c,
                                    !.counter = "validated",
                                    !.todo = {flags[i].reporter : i \in r.ids}]
      OBVIOUS
    <3>2. s.pc = "load_user"
      BY <3>1 DEF Idle
    <3>3. Goto(q, s) \/ Goto(q, Idle)
      BY <1>1, <2>4, <3>1 DEF Reward
    <3>4. QED BY <2>2, <2>3, <3>2, <3>3
  <2>5. CASE LoadUser(q)
    <3>1. ASSUME NEW u, Goto(q, [r EXCEPT !.pc = "save_user", !.who = u, !.user = users[u],
                                          !.todo = @ \ {u}])
          PROVE  Goal
      <4>1. PICK s : s = [r EXCEPT !.pc = "save_user", !.who = u, !.user = users[u],
                                   !.todo = @ \ {u}]
        OBVIOUS
      <4>2. s.pc = "save_user"
        BY <1>2, <4>1 DEF Request
      <4>3. QED BY <2>2, <3>1, <4>1, <4>2
    <3>2. QED BY <1>1, <2>2, <2>3, <2>5, <3>1 DEF LoadUser, Finish
  <2>6. CASE SaveUser(q)
    <3>1. PICK s : s = AfterUser(r)
      OBVIOUS
    <3>2. s.pc \in {"idle", "reward", "load_user"}
      BY <1>2, <3>1 DEF AfterUser, Request, Idle
    <3>3. Goto(q, s)
      BY <1>1, <2>6, <3>1 DEF SaveUser
    <3>4. QED BY <2>2, <3>2, <3>3
  <2>7. QED BY <1>10, <2>4, <2>5, <2>6
<1>11. QED
  BY <1>3, <1>4, <1>5, <1>6, <1>8, <1>9, <1>10 DEF Step

\* Requests that run one at a time to their end, with reviews of all the pending
\* flags of a content, implement FlagBoard: the steps of each amount to one step
\* of the board.
THEOREM RequestsImplementBoard ==
  ASSUME OneAtATime, ~Failures, ~PartialReviews
  PROVE  Spec => ImplementsBoard
<1>1. Init => BoardInv
  BY BoardInitially
<1>2. BoardInv /\ [Next]_vars => BoardInv'
  BY BoardInductive
<1>3. Init => Board!Init
  <2>1. SUFFICES ASSUME Init PROVE Board!Init
    OBVIOUS
  <2>2. Ids = {} /\ \A c \in Contents : content[c] = NewContent
    BY <2>1 DEF Init, Ids
  <2>3. \A c : Underway(c) = {}
    BY <2>1 DEF Init, Underway, Idle
  <2>4. \A c : OpenBefore(c) = {} /\ Reviewed(c) = {}
    BY <2>2, <2>3 DEF OpenBefore, Reviewed, Pending
  <2>5. \A c \in Contents : /\ content[c].state = "absent" /\ content[c].is_hidden = FALSE
                            /\ content[c].removed = FALSE
    BY <2>2 DEF NewContent
  <2>6. QED BY <2>4, <2>5 DEF Board!Init
<1>4. BoardInv /\ [Next]_vars => [Board!Next]_(Board!vars)
  <2>1. SUFFICES ASSUME BoardInv, [Next]_vars PROVE Board!Next \/ UNCHANGED Board!vars
    OBVIOUS
  <2>2. CASE UNCHANGED vars
    BY <2>2 DEF vars, Board!vars, OpenBefore, Underway, Reviewed, Pending, Ids
  <2>3. CASE Next
    BY <2>1, <2>3, BoardSeesArrival, BoardSeesStep DEF Next, Fail, BoardInv, UniqueInv
  <2>4. QED BY <2>1, <2>2, <2>3
<1>5. QED BY <1>1, <1>2, <1>3, <1>4, PTL DEF Spec, ImplementsBoard, Board!Spec
=============================================================================
