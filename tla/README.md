# OpenCitiVibes in TLA+

OpenCitiVibes is a platform where citizens post ideas, comment, vote and flag
content, and admins moderate. This directory holds TLA+ modules of its backend
(`src/backend`), TLC configurations that check them on small instances, and
proofs that TLAPS checks for every value of the constants.

## 1. The system

FastAPI over SQLAlchemy and PostgreSQL (SQLite in development), in layers: router, service, repository.

- **Concurrency.** Endpoints are synchronous functions. FastAPI runs each in a
  thread of a pool, and the Dockerfile starts four worker processes. Each request
  has a session of its own (`repositories/database.py:43-54`; no autocommit, no
  autoflush). Isolation is PostgreSQL's default, READ COMMITTED, and no query locks
  a row.
- **Atomicity.** A service commits several times in one handler. A commit expires
  the loaded objects, so they are read again when next used. `flush` writes only the
  columns whose value differs from the loaded one. Closing the session rolls back
  what was not committed.
- **Failure.** A handler that raises, or a process that dies, leaves the commits it
  made. Nothing repairs them at start-up, apart from SQLite's search index.

So the hazards of this code are read-modify-write cycles over several sessions,
handlers that stop between two commits, and long legal sequences of moderation steps.

### Components

| Component | State | Operations | What makes it correct |
|---|---|---|---|
| Flags (`flag_service`) | `content_flags`; `flag_count`, `is_hidden` of ideas and comments; `total_flags_received` of users | create, retract | content is hidden exactly when enough different users have a pending flag on it |
| Moderation review (`moderation_service`) | flag status, `deleted_at`, trust counters | dismiss, action | a review takes effect once, as a whole, and rewards and charges the right people |
| Watchlist (`watchlist_service`) | keywords, auto-flags | check new content | an auto-flag never breaks posting and counts like any flag |
| Trust score (`trust_score_service`) | `trust_score` and its counters | rescore, increments | the stored score is the formula over the stored counters |
| Penalties (`penalty_service`) | `user_penalties` | issue, revoke, expire, ban check | a user with a ban in force is banned |
| Appeals (`appeal_service`) | `appeals`, penalty status | submit, review | a suspension ends, and a lifted penalty stays lifted unless its appeal is rejected |
| Ideas (`idea_service`) | status, `previous_status`, `edit_count`, `last_edit_at`, `deleted_at` | create, edit, moderate, delete, restore, merge | what is public was approved, as it is shown; edits keep within their limit; votes and comments survive a merge |
| Comments (`comment_service`) | approval, moderation, deletion | create, approve, reject, delete, restore | an approval counts once |
| Votes (`vote_service`, `merge_ideas`) | votes, qualities | vote, change, remove, merge | what a user said on an idea stands until they take it back |
| Comment likes (`comment_like_service`) | like rows, `like_count` | toggle | the counter equals the rows |
| Cached lists (categories, tags, analytics) | a dictionary per process | read, invalidate | nothing older than the time to live is served, and one's own writes are seen |
| Tags (`tag_service`) | tags, `idea_tags` | create, sync, delete | an idea has the tags last asked for it |
| Login codes, password reset (`email_login_service`, `password_reset_service`) | codes, attempts, tokens | request, verify, use, clean up | a code works once, within its time and attempts; requests stay under their limits |
| Two-factor login (`totp_service`, `trusted_device_service`) | secret, backup codes, devices | set up, disable, log in, trust, revoke | a backup code works once; devices stay under their limit |
| Accounts (`user_service`, `policy_service`, `auth_service`, `account_deletion_service`, `retention_service`) | profile, consents and their log, activity, anonymisation date | register, consent, log in, delete, daily job | the log tells what the row holds; inactive users are warned, and anonymised after their grace unless they come back |
| Search index (`search_service` and its backends) | an index entry for each idea | index, remove, rebuild, check at start-up | a live idea is found by its text and tags of now |
| Security monitor, incidents (`main.py`, `security_audit_service`, `incident_service`) | failed logins, register of incidents | log, watch, file | an attack is filed within a period of the monitor |
| Everything else | single rows, logs, or none | administrative edits, reads, outgoing I/O | - |

They interact through the database only, apart from the caches and the monitor, which each process has for itself. Flags and comments read and write the same
content rows. Flags, review, comments, penalties and appeals rescore the same user row.
A review may issue a penalty. A penalty may soft-delete all of its user's content. Every
endpoint for active users asks the ban check.

`PROJECT.json` lists all components, and under `hazards` every place where
this code can go wrong in a way a test would hardly reach.

## 2. Modules

| Module | What it is |
|---|---|
| `ContentFlags` | Flags, review, watchlist auto-flag, flag counters, trust score; the refinement mapping to `FlagBoard` |
| `FlagBoard` | The abstract specification: what flagging promises when every request is one step |
| `MCContentFlags` | Instances of `ContentFlags` |
| `ContentFlags_proofs` | Theorems about `ContentFlags`, and the proof that it implements `FlagBoard` |
| `Penalties` | Penalties, appeals, ban check, the score's deduction for a penalty |
| `MCPenalties` | Instances of `Penalties` |
| `Penalties_proofs` | Theorems about `Penalties` |
| `IdeaLifecycle` | Ideas: creation, edits with limit and cool-down, (re-)moderation, deletion, restoration |
| `MCIdeaLifecycle` | Instances of `IdeaLifecycle` |
| `IdeaLifecycle_proofs` | Theorems about `IdeaLifecycle` |
| `Workers` | The threads of a server: one, or several. The service modules below extend it |
| `Votes` | Votes, and the merge of a duplicate idea with its votes and comments |
| `CommentDesk` | Comments from creation to approval and deletion, the credit of an approval, likes |
| `ListCache` | The time-to-live caches, per process |
| `TagDesk` | Tags and the tags of an idea |
| `LoginCodes` | E-mailed login codes |
| `PasswordReset` | Reset codes, the tokens they are exchanged for, new passwords |
| `TwoFactor` | TOTP secret, backup codes, trusted devices |
| `Accounts` | Registration, consents, logins, deletion, the daily job for inactive users |
| `SearchIndex` | Ideas as the full-text index sees them, and the index, in PostgreSQL and in both set-ups of SQLite |
| `SecurityWatch` | Failed logins, the monitor of each process, the register of incidents and its numbers |
| `MCServices` | The ten service modules in one run, one of them in use in each behaviour |
| `Workers_proofs` | Lemmas that count workers |
| `Contributions_proofs` | Theorems about `Votes` and `CommentDesk` |
| `Credentials_proofs` | Theorems about `LoginCodes`, `PasswordReset`, `TwoFactor`, `Accounts` and `SecurityWatch` |
| `Lists_proofs` | Theorems about `ListCache`, `TagDesk` and `SearchIndex` |
| `Services_proofs` | Theorems about `MCServices`: what is proved of each service holds in the server |

### How the code becomes actions

A handler is a *request* in a slot of `req`: a record with the step it is at (`pc`) and
what its session has read. Arrival actions (`CreateFlag`, `ReviewFlags`, `IssuePenalty`, ...)
are the handler up to its first write, with its checks as guards. A request that a check
refuses changes nothing and is no action. Each later step is one transaction, cut
again wherever a query's result is kept and written later, because other sessions
may commit in between. `Fail` ends a request at any step. An error the code itself meets
(a unique constraint, an UPDATE of a row that has gone, an expired object that cannot be read
again) is a branch of its step.

`MergedContent`, `MergedUser`, `Merged` and `Written` are SQLAlchemy's flush: a column is
written if its new value differs from the loaded one, and otherwise keeps what the database
holds by now.

`ContentFlags`, by handler:

| Handler | Steps |
|---|---|
| `create_flag` | `CreateFlag`, `InsertFlag`, `CountPending`, `LoadContent`, `SaveContent`, `LoadUser`, `SaveUser` |
| `retract_flag` | `RetractFlag`, `DeleteRow`, `CountPending`, `LoadContent`, `SaveContent` |
| `review_flags`, dismiss | `ReviewFlags`, `MarkRows`, `LoadContent`, `SaveContent` (unhide), `LoadUser`, `SaveUser` |
| `review_flags`, action | `ReviewFlags`, `MarkRows`, `Remove`, `LoadUser`, `SaveUser` (author), `Reward`, then `LoadUser`, `SaveUser` for each reporter |
| `create_comment`, `create_idea` | `Post`, `Watch` |
| restore, delete | `Restore`, `Erase` |

`Erase` is a comment's hard deletion by its author; its flags stay in the table. The row of
the first content of `ids` decides which content is reviewed; the query has no ORDER BY,
so any of them may be first. User 1 is `SYSTEM_USER_ID` and also the first account
`init_db.py` creates, an admin's, so `System` writes, flags and retracts like others.

`Penalties`, by handler:

| Handler | Steps |
|---|---|
| `issue_penalty` | `IssuePenalty`, `InsertPenalty` (with the bulk deletion), `ReadScore`, `SaveScore` |
| `revoke_penalty` | `RevokePenalty`, `Revoke`, `ReadScore`, `SaveScore` |
| `submit_appeal` | `SubmitAppeal`, `Submit` |
| `review_appeal`, approve | `ReviewAppeal`, `LoadPenalty`, `ReadScore`, `SaveScore` (which commits the revocation), `Approve` |
| `review_appeal`, reject | `ReviewAppeal`, `LoadPenalty`, `Reject` |
| `expire_penalties` | `ExpirePenalties`, if `ExpiryRuns` |
| publishing endpoints | `Publish` (the ban check), `PublishContent` |

`docked[u]` stands for the 20 points the stored score lacks for an active penalty;
`shown[u]` for visible content of `u`; `Elapse` for the arrival of `expires_at`.

`IdeaLifecycle`, by handler:

| Handler | Steps |
|---|---|
| `validate_and_create_idea` | `Create` |
| `update_idea` | `UpdateIdea` (ownership, status, limit, cool-down), `SaveEdit` |
| `moderate_idea_with_permissions` | `ModerateIdea`, `SaveModeration` |
| `soft_delete_idea`, `restore_idea` | `SoftDelete`, `Restore` |

Each of these handlers commits the idea's row once, so a handler that dies leaves it as it was and
`Fail` is not needed. Deletion and restoration write `deleted_at` and read nothing that they write
back. `Tick` is the time, which goes on while handlers run: the cool-down and the month are in ticks. `update_idea` reads the clock
when it checks the limits, in `UpdateIdea`, and again before the commit, at any time since (`at` in `SaveEdit`). The load and the
check are in one tick. `reviewed`, `edits` and `spanned` are history variables: the text that the
last approval read, the times that edits of an approved idea stored, and the months at whose ends such an edit was running. `comment` is the text that
`admin_comment` is about. An idea may be moderated in any status and to any, as the endpoint allows.

The service modules take the same approach. Their requests are in a variable of each module (`voteReq`,
`codeReq`, ...), by worker. A behaviour starts with a set of workers and keeps it; `Serial` says that it has one.

| Module | Handler | Steps |
|---|---|---|
| `Votes` | `vote_on_idea` | `Vote`, `UpdateVote` or `InsertVote` |
| | `remove_vote`, `delete_account` | `RemoveVote`, `DeleteVote`; `LeaveVotes` |
| | `merge_ideas` | `Merge`, then for each vote `MoveVote` or `DropVote` (or `VoteGone`), `MoveComments`, `Cascade`, `DeleteSource` |
| `CommentDesk` | `create_comment` | `CreateComment`, `CommentCreated` |
| | `approve_comment` | `ApproveComment`, `CommentApproved`, `Credit`, `Credited` |
| | `moderate_`, `delete_`, `admin_delete_`, `reject_pending_`, `restore_comment` | `ModerateComment`, `DeleteComment`, `RemoveComment`, `RestoreComment` |
| | `toggle_like` | `ToggleLike`, `ToggleRow`, `ReadCount`, `WriteCount` |
| | `delete_account` | `LeaveDesk` |
| `ListCache` | `get_` handlers | `ReadList`, `GetEntry`, `DropExpired`, `QueryList`, `SetCache` |
| | handlers that change the list | `ChangeList`, then `ClearCache`, or `CollectKeys` and `DeleteKeys` |
| `TagDesk` | `sync_idea_tags` | `SyncTags`, `UnlinkOne`, `AllUnlinked`, then for each name `TakeName`, `TagCreated`, `LinkTag`; `TagsSynced` |
| | `create_tag`, `delete_tag`, `delete_unused_tags` | `CreateTag`, `TagCreated`; `DeleteTag`, `DeleteUnusedTags`, `DeleteOne` |
| `LoginCodes` | `request_login_code` | `RequestCode`, `CodeSent` or `CodeLost` |
| | `verify_code` | `VerifyCode`, `CheckCode`, `WrongCode` or `RightCode` |
| | both clean-ups | `CleanupCodes` |
| `PasswordReset` | `request_reset` | `RequestReset`, `CreateToken` |
| | `verify_code` | `VerifyReset`, `CheckReset`, `WrongReset` or `RightReset` |
| | `reset_password` | `ResetPassword`, `PasswordChanged` or `ResetFails` |
| | `cleanup_expired_tokens` | `CleanupTokens` |
| `TwoFactor` | `setup_2fa`, `verify_setup`, `disable_2fa`, `regenerate_backup_codes` | `Setup2fa`, `SecretCreated`; `VerifySetup`, `SetupVerified`; `Disable2fa`, `Disabled`; `Regenerate`, `Regenerated` |
| | `verify_2fa_login`, with `trust_device` | `LoginWithBackup`, `BackupConsumed`, or `LoginWithTotp`; `CountDevices`, `DeviceTrusted` |
| | revocations and clean-ups of devices | `RevokeDevice`, `RevokeAllDevices`, `CleanupDevices`, `DeleteOldDevices` |
| `Accounts` | `register_user`, `update_consent`, `record_reconsent` | `Register`; `UpdateConsent`, `ConsentUpdated`; `Reconsent`, `Reconsented` |
| | `update_last_login`, `delete_account` | `Login`, `LoggedIn`; `DeleteAccount`, `AccountDeleted` |
| | `process_inactive_accounts` | `Sweep`, `AnonymizeDue` for each user who is due, `SweepEnds` |
| `SearchIndex` | `validate_and_create_idea`, `update_idea` | `CreatePage`, or `UpdatePage`, `SavePage`; `LoadPage`; with tags `StoreTags`, `LoadPage`; then `IndexRows` (SQLite), or `ReadTags`, `WriteColumns` (PostgreSQL) |
| | `soft_delete_idea`, `restore_idea` | `DeletePage`, `RemoveEntry`, `PageDeleted`; `RestorePage`, `PageRestored`, `LoadPage`, and the index |
| | deletion by a moderator, `merge_ideas`, `delete_account` | `ModeratePage`; `MergePage`; `LeavePage` |
| | `cleanup_soft_deleted_content` | `PurgePages`, `PagesPurged` |
| | `reindex_idea`, `rebuild_index`, `ensure_index_ready` | `ReindexPage`, `RebuildIndex`, `StartWorker`, and the index |
| `SecurityWatch` | `_security_monitoring_task` | `StartPass`, then for each alert `NumberAlert`, `FileIncident`; `PassFails` |
| | `create_incident` | `ReportIncident`, `FileIncident` or `RequestFails` |
| | `log_login_failure` | `LoginFails` |

`VoteGone`, `CodeLost`, `ResetFails`, `TagFails`, `FactorDies`, `DeskDies`, `AccountDies`, `SearchCut` and `WatcherDies` end a handler where it is.
`Moderate` and `Remark` in `Votes`, `DeletedLongAgo` (the time) in `SearchIndex`, and `ChangeCounts` in `ListCache`, are other handlers as far as the module sees them.
History variables: `said` and `overlap` in `Votes`, `cleared` and `cutShort` in `CommentDesk`, `retired` in `ListCache`,
`asked` and `broken` in `TagDesk`, `loggedIn`, `passwords`, `opened`, `cameBack`,
`torn` in `SearchIndex` (ideas whose handler stopped before it indexed them, or that were restored while the retention job deleted their tags) and `cut` in `SecurityWatch` (when a pass failed).

- *Merge.* The session does not flush by itself. A vote assigned to the target is in memory until the deletion
  of a duplicate commits; `Cascade` is `session.delete`, which loads what the database still has for the source, the votes
  just moved among them, and `DeleteSource` deletes them with it.
- *Caches.* `KeyError` is what a thread gets that found a key and lost the entry to another thread.
- *Login codes.* A request is one transaction: until its commit others read the old rows and wait to write them.
- *The search index.* The entry is made with what the session has: in SQLite the text that `refresh` loaded, while the tags are queried then. A
  PostgreSQL UPDATE that waited for the row evaluates its expressions again on the row of now, but its subquery on the tags of before.
- *The monitor.* A worker is a process here. Its passes are short next to the period, so time passes (`WatchTick`) when every process has made its
  pass. Addresses are logged without their last part: a subnet.
- *The daily job.* `AnonymizeDue` commits with its log, and with it the warnings of the same run; `SweepEnds` does not commit.
  `Scheduled` gives users a date of anonymisation from the start, as the job's tests do: no code stores the first one (see Findings).

### Abstracted data

Users, contents and rows are model values and numbers. Reasons, notes, times and texts are left
out. The parts of the trust score that other services maintain are the parameter
`Standing`, and the penalty's deduction, part of `Penalties`, is not in `ContentFlags`. Which
keyword matches is a choice in `Watch`. An idea's title and description are one number, new with each
edit; tags are in `TagDesk`, the search index in `SearchIndex`; category and the text checks are left out. In `SearchIndex` texts and
sets of tags are the numbers of their versions. An incident is what it is about and when it was found. Codes, tokens and backup codes are the ids of their rows: a typed code is
one of them or none. A cached list is the number of its version. Qualities of votes, which their handler never commits, are not
state. Times in `LoginCodes` and `PasswordReset` are small numbers, in `Accounts` what the job makes of them.

## 3. Runs

| Run | Instance | What it shows |
|---|---|---|
| `flags_serial` | 1 slot, 1 content, 4 users, threshold 3, 4 flags, 2 reviews | One at a time, and without failures, requests implement `FlagBoard`; pending flags hide content; totals and scores are exact; a reviewed flag is never deleted; every request ends |
| `flags_concurrent` | 2 slots, 1 content, 3 users, threshold 2, 2 flags, 2 reviews of any flags, failures | What interleaving and failures cannot break: hiding takes enough different users, scores move only for a cause, and no counter is ever too high |
| `flags_race` | 2 slots, 5 users, threshold 3, 4 flags, no reviews | A violation: see Findings |
| `ideas_serial` | 1 slot, 1 idea, limit 2, cool-down 2, months of 6 ticks, 12 ticks, 7 texts | Edits of a public idea keep within limit and cool-down, over a month's end; an edit that waits can be approved; what is public is what was reviewed |
| `ideas_concurrent` | 2 slots, 1 idea, limit 2, months of 3 ticks, 3 ticks, 4 texts, all 4 statuses | Nothing is public that nobody approved, and no edit is counted that was not made, in a month at whose ends no edit was running |
| `ideas_race` | 2 slots | A violation: see Findings |
| `ideas_comment` | 1 slot | A violation: see Findings |
| `penalties_serial` | 1 slot, 1 user, 3 penalties of all 5 levels | Appeals and penalties agree, the deduction follows the penalties, and the banned publish nothing unless a ban was appealed |
| `penalties_concurrent` | 2 slots, 1 user, 2 penalties of 3 levels, failures, expiry | A suspended penalty can always be decided, and only a rejection reinstates one |
| `penalties_masked` | 1 slot, 1 user, 2 penalties | A violation: see Findings |
| `services` | each service in turn, with one worker and with two | Votes stand through changes and merges; comments survive merges; first comments are reviewed; likes are counted; stale lists go after their time; logins, resets, backup codes and devices stay within their limits, or exceed them by at most one for every further worker; an idea's tags are those asked for; consents match their log; who comes back is not anonymised; the search index follows the ideas; an attack has an incident about it within a period of the monitor |
| `retention_lost` | 1 worker, 1 user | A violation: see Findings |

**Bounds.** `MaxFlags`, `MaxReviews` and `MaxPenalties` bound rows and requests; the actions
`RoomForFlag` and `RoomForPenalty` guard are otherwise always possible. One content and one penalised user are
enough because no handler relates two contents or two users' penalties, apart from a review
of mixed flags: that is in the proved model, for any number of contents. Threshold 3 with four
flags lets content be hidden, retracted below the threshold, hidden again and reviewed. Threshold 2 in the
concurrent run keeps hiding within reach of two flags. Two slots let every pair of handlers meet,
and a slot is free again when its request fails or ends.
Ideas are independent of each other, so one is enough; the serial run has room for a full month of edits,
the refusal of one more, and the edits of the next month; the concurrent run for an edit, and then two that both loaded
the idea again, any of them before, after or over a month's end. The theorems below need none of these bounds.
In `services` the services share no variable but the workers, so one at a time in use (`focus`) is the same as all at once, for
each property. Two ideas are what a merge needs, two users one who has voted on both and one who has not, one of whom may leave; two
processes are what a stale cache needs; one user suffices for codes, secrets and devices, which no handler relates across users,
and one idea for the index, where handlers of one idea meet: text, tags and deletion each change more than once. Two subnets are what a failed pass needs to lose an
alert; two failures of each exceed the threshold at one time or across a pass; two incidents let two processes, or a process and an admin, take one number. With three, which takes longer, `SecurityWatch` passes as well. The window
is two periods (four in the code), which is what tells it from the last period.
Limits are 1 where the next one already is too many (attempts, trusted devices, daily resets) and 2 where the code invalidates
an older row (codes per hour). `MaxVoteId`, `MaxRemarks`, `MaxComments` and `MaxCodes` are one fewer with two workers, which keeps
the run within minutes: two workers with three votes, one comment or two codes already meet in every pair of steps. The workers are symmetric (`Symmetry`): no
definition tells one from another, the sets of workers are closed under the permutation, and all properties of the run are invariants.
`CHECK_DEADLOCK FALSE`: when the bounds are used up the model stops, as a server without requests does.

**Serial properties.** Some properties hold only when no two handlers overlap: `PendingFlagsHide`,
`TotalIsExact`, `TrustIsCurrent`, `ReviewedNeverDeleted`, `AppealsAgree`, `DeductionFollows`,
`BannedDontPublish`, `EditsAreLimited`, `PendingEditsCanBeApproved`, `PublicTextWasReviewed`
and the refinement. Two sessions lose each other's updates, and a status
that was checked may have changed when the row is written. The serial runs say the logic is right; only
the concurrent runs say what remains of it with several workers. In `services` the properties `CommentsSurviveMerge`,
`FirstCommentsReviewed`, `LikesCounted`, `OwnWritesSeen`, `OneLiveCode`, `TagsAsAsked`, `ConsentMatchesLog` and `AnonymizedStayedAway`
say `Serial` themselves, `VotesStand` excludes two merges at once, and of `IndexFollows` only one half
holds without it: tags in SQLite, texts in PostgreSQL. The others hold for two workers too, with the number of
workers in their bound where handlers check first and write later.
`PendingFlagsHide` also needs whole reviews: dismissing some flags unhides content that others still flag.
The admin page sends all flags of a content, so `PartialReviews` is FALSE in the serial run, and TRUE in the concurrent one.

**Fairness.** `FairSpec`, used for `RequestsEnd` and the serial run, asks weak fairness of `Step(q)`
alone: a handler that was accepted is run on by its thread. Nobody is obliged to flag, review or appeal,
and no fairness is asked of `Fail`.
`SweptSpec`, used for `InactiveAnonymized`, is generous: requests end, the grace passes, and the daily job, started again and
again, is in the end never killed by `AccountDies` (strong fairness of its steps; the scheduler of `core/scheduler.py` starts it each night). The property fails all the same.

## 4. Findings

- **A race hides too little** (`flags_race`, `flag_service.py:265`). Two users flag a content that has one
  flag. Both insert; one counted two flags before the other's insert, the other counts three, hides the
  content and commits, and the first then writes its two. Three flags are pending and the content is
  visible, against `db_models.py:678`: "When flag_count reaches threshold (3), content is auto-hidden."
- **A warning masks a ban** (`penalties_masked`, `penalty_service.py:165`). A 24-hour ban is appealed, a
  warning is issued while the ban is suspended, and the appeal is rejected. The newest active
  penalty is now the warning, so `check_user_banned` returns None although a ban is in force, against
  its docstring, "Active ban penalty if exists, None otherwise".
- **An edit slips past its approval** (`ideas_race`, `idea_service.py:370`). The author's edit loads a
  pending idea; an admin approves it; the edit commits its text. The branch for pending ideas assigns no
  status, so nothing is reset: the idea is public with a text that nobody reviewed, against
  `idea_service.py:250`, "PENDING ideas: direct edit, resets to PENDING".
- **The comment on an approved edit is lost** (`ideas_comment`, `idea_service.py:574`). `admin_comment` is
  assigned after `restore_previous_status` has committed, and nothing commits again. The test
  `test_idea_edit_workflow.py:216` looks at the object in memory, where the comment is, and asserts
  `result.admin_comment == "Edit approved"`.
- **The warnings of the daily job are not stored** (`retention_lost`, `retention_service.py:165`). The job marks an inactive
  user as warned, sets the date of anonymisation, flushes and returns; `core/scheduler.py:37` closes the session. The user is warned again
  each night and never anonymised, against `retention_service.py:148`, "Process inactive accounts: warn inactive users, anonymize past grace.".
  The tests look in the job's own session. If `SweepEnds` stores the warnings the property holds.

Disagreements met while modelling that no run of their own states; most, because no line says what should happen, or the state that would tell is not in the model:

- `merge_ideas` ("Merge duplicate ideas by moving votes and comments") loses the votes that it moved and no later commit of its loop
  flushed: the deletion of the source takes them (`idea_service.py:700-709`). `VotesStand` therefore expects on the target only what was flushed.
- `update_edit_tracking` "Increments edit_count (or resets to 1 if new month)" (`idea_repository.py:1644`). Two edits load an idea with one edit in a month that is about to end.
  The first stores 2; the other reads the clock in the next month and assigns 1, which is what it loaded, so the flush leaves the 2. The month begins with a count of 2 for
  one edit, and the limit refuses the author an edit too early. `EditsNeverOvercounted` therefore excepts the months at whose ends an edit was running;
  `ideas_concurrent` reaches this case: without the second line of `CountIsSound` TLC shows it as a violation.
- Two merges at once: the second holds a vote that the first has moved, and deletes it.
- `category_service.py:29-31` calls races on the cache benign. A thread that loses its entry between the check and the read gets a `KeyError`
  (`ListCache`, `GetEntry`), and a slow reader puts a replaced list back after `invalidate_cache`; what does hold is `StaleForTTLOnly`.
- `vote_service.py:80-95,139`: qualities are flushed after the vote's commit and rolled back when the session closes.
- `password_reset_service.py:391`: the remaining attempts are computed from the row refreshed after the commit, and are one too few.
- A new reset code expires the older codes, not the tokens already given for them; `ResetsBounded` bounds when such a token works.
- `cleanup_expired` deletes reset codes after a day, while the weekly limit counts those of a week.
- `process_inactive_accounts` never warns users without any login (`last_activity_at` is NULL).
- A second `setup_2fa` between the check and the commit of `verify_setup` leaves a user enabled without a verified secret.
- `sync_idea_tags` removes an idea's tags before it looks at the new names: a bad one leaves the idea without tags.
- `idea_service.py:449`, "Remove from search index before soft delete": in PostgreSQL the statement is about a table that does not exist, fails and is rolled
  back, so the entry stays; `get_suggestions` there looks at the status only and suggests titles of deleted ideas. In SQLite it looks at no column
  of the idea at all, and ideas that wait for approval or were deleted by a moderator are suggested.
- `ensure_index_ready` compares the number of entries with the number of live ideas: entries of deleted or merged ideas hide that others are missing.
- `cleanup_soft_deleted_content` reads which ideas are due, then deletes their tags, votes and comments, and last the ideas that are still due
  (`retention_service.py:61-70`): an idea that an admin restores in between stays, without them. `IndexFollows` leaves such an idea out until it is indexed again.
- `delete_account` overwrites the texts of the user's ideas and does not touch the index: in SQLite without triggers the entries keep the texts,
  and suggestions show their titles. A vote whose handler was under way is stored after the account's votes were deleted.
- The monitor of each process files an incident on each pass in which an attack is still within the hour: up to sixteen for one attack, with four processes.
  Processes that start together count the same numbers; the one that comes second loses the rest of its pass (`PassFails`).

## 5. Proofs

Every safety property that a passing run checks is a theorem, for every set of users, contents, ideas, comments and
processes, any number of concurrent requests or workers, any thresholds and limits, and with failures, except where
the table names a hypothesis. What was proved is what TLC checks: the statement of a theorem is the run's own definition.

| Theorem | Statement | Under |
|---|---|---|
| `ContentFlags_proofs!TypeCorrect` | `Spec => []TypeOK` | |
| `FlagsAreUnique` | `Spec => []OneFlagPerReporter` | |
| `ScoresHaveCause` | `Spec => []CountersHaveCause` | |
| `HidingIsEarned` | `Spec => []HiddenByDistinctReporters` | |
| `CountersAreNotOvercounted` | `Spec => []CountersNeverOvercount` | |
| `TrustStaysCurrent` | `Spec => []TrustIsCurrent` | `OneAtATime` |
| `ReviewedFlagsStay` | `Spec => ReviewedNeverDeleted` | `OneAtATime` |
| `TotalsAreExact` | `Spec => []TotalIsExact` | `OneAtATime`, no failures |
| `EnoughFlagsHide` | `Spec => []PendingFlagsHide` | `OneAtATime`, no failures, whole reviews, threshold > 1 |
| `RequestsImplementBoard` | `Spec => ImplementsBoard` | `OneAtATime`, no failures, whole reviews |
| `Penalties_proofs!TypeCorrect` | `Spec => []TypeOK` | |
| `SuspensionsCanEnd` | `Spec => []SuspendedOnlyWhilePending` | |
| `OnlyRejectionReinstates` | `Spec => ReinstatedOnlyByRejection` | |
| `BansAreKept` | `Spec => BannedDontPublish` | `OneAtATime` |
| `AppealsFollow` | `Spec => []AppealsAgree` | `OneAtATime`, no failures |
| `DeductionIsCurrent` | `Spec => []DeductionFollows` | `OneAtATime`, no failures |
| `IdeaLifecycle_proofs!TypeCorrect` | `Spec => []TypeOK` | |
| `OnlyApprovedIsPublic` | `Spec => []OnlyAdminsPublish` | |
| `EditsAreNotOvercounted` | `Spec => []EditsNeverOvercounted` (of months at whose ends no edit was running) | |
| `PublicTextIsReviewed` | `Spec => []PublicTextWasReviewed` | `OneAtATime` |
| `PendingEditsStayApprovable` | `Spec => []PendingEditsCanBeApproved` | `OneAtATime`, no admin sends `pending_edit` |
| `EditsStayLimited` | `Spec => []EditsAreLimited` | `OneAtATime` |
| `Contributions_proofs!VotesTypeCorrect`, `DeskTypeCorrect` | the types of `Votes`, `CommentDesk` | |
| `WhatWasSaidStands`, `CommentsAreKept` | `VotesSpec => []VotesStand`, `[]CommentsSurviveMerge` | |
| `FirstCommentsAreReviewed`, `LikesAreCounted` | `CommentDeskSpec => []FirstCommentsReviewed`, `[]LikesCounted` | |
| `Credentials_proofs!CodesTypeCorrect`, `ResetTypeCorrect`, `FactorTypeCorrect`, `AccountsTypeCorrect`, `WatchTypeCorrect` | the types of the five modules | |
| `CodeUseIsBounded`, `OneCodeIsLive` | `LoginCodesSpec => []CodeUseBounded`, `[]OneLiveCode` | |
| `TokensAreBounded`, `LockoutIsKept` | `PasswordResetSpec => []ResetsBounded`, `[]LockoutHolds` | |
| `DevicesAreBounded`, `BackupCodesAreBounded` | `TwoFactorSpec => []DevicesBounded`, `[]BackupCodesBounded` | |
| `ConsentsAreLogged`, `OnlyAbsentAnonymized` | `AccountsSpec => []ConsentMatchesLog`, `[]AnonymizedStayedAway` | |
| `AttacksAreFiled` | `SecurityWatchSpec => []AttacksFiled` | |
| `Lists_proofs!ListsTypeCorrect`, `TagsTypeCorrect`, `SearchTypeCorrect` | the types of the three modules | |
| `ListsAreYoung`, `OwnChangesAreSeen` | `ListCacheSpec => []StaleForTTLOnly`, `[]OwnWritesSeen` | |
| `TagsAreAsAsked` | `TagDeskSpec => []TagsAsAsked` | |
| `IndexIsFollowed` | `SearchIndexSpec => []IndexFollows` | |
| `Services_proofs!ServicesRunApart` | `Spec =>` the specification of each of the ten services | |
| `ServicesTypeCorrect` | `Spec => []TypeOK` | |
| `ServicesKeepPromises` | `Spec => []` of all seventeen properties of the services | |

**Hypotheses.** The assumptions named in the modules (`ThresholdAssumption`, `BoundAssumption`, `PeopleAssumption`, `ModeAssumption`,
`UsersAssumption`, `LimitAssumption` and one for each service module) are evaluated by TLC in the runs. `OneAtATime` says that any two request
slots are the same one: it is the serial server of the serial runs; the service modules say `Serial` in the property itself.
No failures and whole reviews are the modes of the serial runs, for the reasons given there. `FLAG_THRESHOLD > 1` (it is 3) is needed because the
watchlist inserts its flag without counting: with a threshold of 1 that flag alone would hide nothing.
With `pending_edit` among the decisions, which the endpoint accepts, an admin may set an idea to it by hand, and nothing is stored then that its approval could restore.

**Arguments.**

- *Types.* One lemma per helper and one step per action; a row's columns keep their types through
  `MergedContent` and `MergedUser`. Some types need more than the types: that incident numbers have no gap, so that a number in hand is
  at most the next one (`Numbered`); that a handler's rows are there (`SearchWork`, `FactorTyped`).
- *Hiding.* `HiddenByDistinctReporters` is not inductive: a request writes a count it took earlier.
  `HiddenInv` adds that a count a request carries is at most the users who had flagged by then
  (`CountIsSound`), which stays true because that set only grows, and `OneFlagPerReporter`, which makes
  a count of rows a count of people. `PendingAtMostReporters` is the cardinality argument: the pending
  rows of a content inject into its reporters.
- *Causes.* `CauseInv` adds what a running request already knows: `HasCause` says that whoever it will
  reward has reported, and whoever it will charge wrote flagged content. It uses that flag rows keep
  content and reporter (`RowsKept` in `StepFrame`).
- *Counters.* A request that has decided to add one and has not stored it *owes* it. `OwedInv`: what is stored, and what the
  requests owe, is together at most the flags or the reviews; so what is stored is. A lost update only lowers the sum.
- *Serial properties of flags.* `SerialInv`: what the only request has read is still so (`StillSo`); then a score that is stored is the formula over the
  counters stored with it. `TotalInv` counts the flag whose author is still to be charged. `BoardInv` says of each step of a request what rows, content and the request have in
  common (`AtWork`): which rows are marked, that the count is of the rows of now. `HideInv` adds that content with enough flags is hidden or about to be.
- *Refinement.* The mapping shows a request's rows on the board only when its content changes (`OpenBefore`). `Board...` lemmas (`BoardFlags`, `BoardRetracts`, `BoardDismisses`, ...) say
  when a change is a step of the board, `BoardSees...` lemmas which step of a request that is, and `BoardStutters` that the others show nothing: the insert, the mark and the count are
  invisible, `SaveContent` is one `Flag`, `Retract` or `Dismiss`, `Remove` is `Remove`, and `Watch` is `AutoFlag`.
- *Suspensions.* `SuspensionInv` adds `ReviewIsSound`: a review under way is of a penalty that was
  appealed; an appeal is made once, so a suspension that ended while a review was running cannot come back under it.
- *Reinstatement.* A step of `Spec` sets a penalty active again only in `Reject`, with its appeal.
- *Bans.* `BanInv`: the levels of a user's unappealed penalties climb, as a new one must be above the newest; so the newest active penalty, the one that the ban check looks at, is a ban if any is.
- *Appeals, deductions.* `AgreeInv` and `DeductionInv` say at each step of a review which half of the change is stored: a penalty may be revoked whose appeal is still pending only between
  the commit of the score and `Approve`; a deduction may lag only while its user is about to be scored.
- *Publication.* `PublishInv` adds that what a running request loaded was, if it looked published, approved
  by then, and that a row that is there has a text, so that `reviewed` is a text once it is written.
  `FlushSound` is the common argument for both kinds of commit.
- *Edit counts.* Two edits may add one to the same count: one is lost, none made up. `CountInv` adds what a
  running edit knows (`EditIsSound`): the count it loaded was sound in its month, and if the row's count is
  another by now, the row was edited in the edit's month or later, or over the beginning of that month. The last part is what
  the flush needs: when the new count happens to equal the loaded one it is not written, and the row keeps what the other edit
  wrote. `SpannedMonths` tells edits over a month's end from the others, `OneMoreEdit` is the cardinality argument.
- *Edits, one at a time.* `ReviewedInv` and `DecidedInv`: the loaded row is the stored row. `LimitInv`: the stored count is the number of edits in the month of the last one,
  which is the last element of `edits`; so a count below the limit, or a new month, leaves room for one more.
- *Votes.* `StandInv`: without overlapping merges each vote has a key of its own, one merge runs, and the votes it has read and not moved are the ones stored. `SurviveInv`: the
  comments that a merge has taken are all that its source has when it deletes it.
- *Comments and likes.* `ReviewInv`: a comment held back is not visible unless approved; a credit under way is for a comment that was approved and is not counted twice.
  `CountInv`: likes and like count differ by the one that a handler has stored or removed and not counted (`Due`).
- *Limits that several workers exceed.* Everything in use and everything that a worker has already decided to use, together, stay within the limit and the further workers
  (`DevicesInv`, `BackupInv`, `CodeUseInv`, `PasswordsInv`, `LockoutInv`): a worker decides only below the limit, and no worker has decided twice.
- *Cached lists.* `StaleInv`: whatever a process holds, or has read and will put there, was in use when it was read, and the time of reading is the one that the time to live counts from (`EntrySound`).
- *Tags.* `TagsInv`: during a synchronisation the links are the tags of the names already placed, and the name in hand is not among them.
- *Accounts.* `AccountsInv`: the old consents that a handler compares with are the row's, and a user with a scheduled date has not come back since the warning.
- *Search index.* `SearchInv`: a live idea is indexed, or torn, or a handler *owes* its entry; what the only handler has read is still so. That half of the property holds with several workers is that
  the other columns are computed in the very transaction that writes them.
- *Attacks.* `WatchInv`: an attack has an incident, or a failed pass, or the process is still to file it: it has an alert, its next pass is due within the period, or it began one in this
  very tick. `AttackIsSeen` is why the window must be longer than the period: the attack's window, less the period, is within the pass's.
- *Composition.* The services share no variable but the workers, so a step of the server is a step or a stutter of each service (`OneServiceSteps`).

**What the proofs changed in the models.** In `Votes`, `DeleteSource` used a `CASE` whose guards overlap, which leaves the value open: the proof of `CommentsAreKept` failed on it, and it is an `IF` now.
`CommentDesk` bounded `approved` by twice the comments, which is true with two workers and not with more. Some bounds on constants were not stated (`MAX_EDITS_PER_MONTH` and `EDIT_COOLDOWN` of at least one, nonempty sets of ideas, names and users).

Only model-checked: `RequestsEnd`, which is liveness; the violations, which are counterexamples; and whether the bounds of a run let the interesting cases happen, which only a run shows.

## 6. Not modelled, and the plan

Left out of the modelled components:

- the penalty that `review_flags` may issue at its end (a request of `Penalties` on its own); soft deletion of an idea by
  its author; the flags that `delete_account` deletes; watchlist administration; approved votes in the trust score;
- `update_vote_qualities` and the administration of qualities;
- the weekly limit of password resets, and the attempts counted on a token that was shown for another user;
- the check of a trusted device at login, and renaming it; a second batch of backup codes that two regenerations at once leave behind;
- the votes and comments that go with an idea that was soft-deleted long ago, and old consent logs; in `TagDesk`, the tags that this and `delete_account` take from an idea;
- which ideas a search returns and in what order, and triggers in PostgreSQL, which write what the handlers write;
- the status, notifications and resolution of an incident, and alerts that are only reported;
- columns of a category, policy versions, privacy settings, officials and admin roles: single rows that one admin writes.

Order of the work:

1. `ContentFlags`, `FlagBoard`, `Penalties`, `IdeaLifecycle`, with their runs and first proofs: built.
2. `Votes`, `CommentDesk`, `ListCache`, `TagDesk`, `LoginCodes`, `PasswordReset`, `TwoFactor`, `Accounts`, `SearchIndex`,
   `SecurityWatch`, checked by `services`: built.
3. Proofs of every safety property that the runs check, of the refinement of `FlagBoard`, and of the composition of the services: built.
4. Next: what `FlagBoard` itself promises, as theorems about it that the refinement carries over to the requests; lemmas about when two requests that overlap do no harm
   (on different contents or ideas).
5. `Moderation`: `ContentFlags` and `Penalties` composed over one user row, with the penalty of a review.

Out of the prover's reach, and so left to TLC: liveness under fairness, and ENABLED.

Not planned: analytics, export, sharing, diagnostics, the listing of logs, e-mail and other I/O, ranking,
configuration, the web client. They read, log, or change one row that nothing else depends on. They are most of
the lines of the implementation, with schemas, scripts and start-up code, which hold no state of their own.
