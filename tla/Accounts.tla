-------------------------------- MODULE Accounts --------------------------------
(***************************************************************************)
(* A user's account from registration to anonymisation: the consents given *)
(* and their log (UserService, PolicyService), logins (AuthService), the   *)
(* deletion of an account (AccountDeletionService), and the job that warns *)
(* and anonymises inactive users (RetentionService, which the scheduler    *)
(* runs with a session of its own and closes without a commit).            *)
(*                                                                         *)
(* Times are what the job makes of them: a user's last activity is recent  *)
(* or idle, a scheduled anonymisation lies ahead or is due.                *)
(***************************************************************************)
EXTENDS Integers, Workers

CONSTANTS
  Users,
  Scheduled  \* inactive users whose rows hold a scheduled anonymisation from the start:
             \* stored by hand, as the job's tests do, since the job's own are rolled back

ASSUME AccountsAssumption == Scheduled \subseteq Users /\ Users # {}

VARIABLES
  accounts,   \* the rows
  consentLog, \* by user and type, the last action that was logged
  cameBack,   \* history: users who logged in since their last warning was stored
  accountReq  \* the handler that each worker runs

accountVars == <<workers, accounts, consentLog, cameBack, accountReq>>

-----------------------------------------------------------------------------
ConsentType == {"marketing", "terms"}
AccountRow == [state : {"none", "active", "anonymous"},
               activity : {"never", "recent", "idle"},
               scheduled : {"no", "ahead", "due"},
               consents : [ConsentType -> BOOLEAN]]
NoAccount == [state |-> "none", activity |-> "never", scheduled |-> "no",
              consents |-> [type \in ConsentType |-> FALSE]]
Warned == [NoAccount EXCEPT !.state = "active", !.activity = "idle", !.scheduled = "ahead",
                            !.consents["terms"] = TRUE]
NoLog == [marketing |-> "nothing", terms |-> "nothing", account |-> "nothing"]
TermsLog == [NoLog EXCEPT !.terms = "granted"]
LogAction == {"nothing", "granted", "withdrawn", "deleted", "anonymized_inactive"}

AccountRequest == [pc : {"idle", "consent", "reconsent", "login", "delete", "sweep"},
                   user : Users, old : [ConsentType -> BOOLEAN], dated : BOOLEAN,
                   warn : SUBSET Users, due : SUBSET Users]
AccountIdle == [pc |-> "idle", user |-> CHOOSE u \in Users : TRUE, old |-> NoAccount.consents,
                dated |-> FALSE, warn |-> {}, due |-> {}]
AccountAt(q, step) == q \in workers /\ accountReq[q].pc = step
AccountGoto(q, r) == accountReq' = [accountReq EXCEPT ![q] = r]
AccountEnds(q) == AccountGoto(q, AccountIdle)
IsActive(u) == accounts[u].state = "active"
Logged(u, type, action) == consentLog' = [consentLog EXCEPT ![u][type] = action]

AccountsInit ==
  /\ WorkersInit
  /\ accounts = [u \in Users |-> IF u \in Scheduled THEN Warned ELSE NoAccount]
  /\ consentLog = [u \in Users |-> IF u \in Scheduled THEN TermsLog ELSE NoLog]
  /\ cameBack = {}
  /\ accountReq = [q \in Worker |-> AccountIdle]

-----------------------------------------------------------------------------
(* Consents *)

\* register_user: the row and its logs in one commit.
Register(q, u, marketing) ==
  /\ AccountAt(q, "idle") /\ accounts[u].state = "none"
  /\ accounts' = [accounts EXCEPT ![u].state = "active",
                    ![u].consents = [marketing |-> marketing, terms |-> TRUE]]
  /\ consentLog' = [consentLog EXCEPT ![u] =
                      [TermsLog EXCEPT !.marketing = IF marketing THEN "granted" ELSE "nothing"]]
  /\ UNCHANGED <<cameBack, accountReq>>

\* A user's request is checked, and decided on the row of now: its consents, and
\* whether an anonymisation is scheduled.
Begin(q, u, step, old, dated) ==
  /\ AccountAt(q, "idle") /\ IsActive(u)
  /\ AccountGoto(q, [AccountIdle EXCEPT !.pc = step, !.user = u, !.old = old, !.dated = dated])
  /\ UNCHANGED <<accounts, consentLog, cameBack>>
UpdateConsent(q, u) == Begin(q, u, "consent", accounts[u].consents, FALSE)
Reconsent(q, u) == Begin(q, u, "reconsent", accounts[u].consents, FALSE)
Login(q, u) == Begin(q, u, "login", NoAccount.consents, accounts[u].scheduled # "no")
DeleteAccount(q, u) == Begin(q, u, "delete", accounts[u].consents, FALSE)

\* update_consent: a marketing consent that doesn't change is neither written
\* nor logged, one that does is both.
ConsentUpdated(q) ==
  /\ AccountAt(q, "consent") /\ AccountEnds(q)
  /\ LET r == accountReq[q]
         new == ~r.old["marketing"]
     IN /\ accounts' = [accounts EXCEPT ![r.user].consents["marketing"] = new]
        /\ Logged(r.user, "marketing", IF new THEN "granted" ELSE "withdrawn")
  /\ UNCHANGED cameBack

\* record_reconsent, and update_consent's part about the terms and the privacy
\* policy: "reconsented" or "updated" in the log, which grants them again.
Reconsented(q) ==
  /\ AccountAt(q, "reconsent") /\ AccountEnds(q)
  /\ accounts' = [accounts EXCEPT ![accountReq[q].user].consents["terms"] =
                                     @ \/ ~accountReq[q].old["terms"]]
  /\ Logged(accountReq[q].user, "terms", "granted")
  /\ UNCHANGED cameBack

-----------------------------------------------------------------------------
(* Logging in, and leaving *)

\* update_last_login clears a scheduled anonymisation that it found.
\* Mutant of SeenAgain: only the activity is written.
SeenAgainOnly(row, dated) == [row EXCEPT !.activity = "recent"]
SeenAgain(row, dated) ==
  [row EXCEPT !.activity = "recent", !.scheduled = IF dated THEN "no" ELSE @]
LoggedIn(q) ==
  /\ AccountAt(q, "login") /\ AccountEnds(q)
  /\ accounts' = [accounts EXCEPT ![accountReq[q].user] = SeenAgain(@, accountReq[q].dated)]
  /\ cameBack' = cameBack \cup {accountReq[q].user}
  /\ UNCHANGED consentLog

\* _anonymize_user_profile writes the columns that differ from what was loaded.
\* Mutant of Anonymized: the marketing consent is forgotten.
AnonymizedPartly(row, old) ==
  [row EXCEPT !.state = "anonymous", !.consents["terms"] = @ /\ ~old["terms"]]
Anonymized(row, old) ==
  [row EXCEPT !.state = "anonymous",
              !.consents = [type \in ConsentType |-> @[type] /\ ~old[type]]]

\* delete_account: content, profile and sensitive data, in the log's commit.
AccountDeleted(q) ==
  /\ AccountAt(q, "delete") /\ AccountEnds(q)
  /\ LET r == accountReq[q]
     IN /\ accounts' = [accounts EXCEPT ![r.user] = Anonymized(@, r.old)]
        /\ Logged(r.user, "account", "deleted")
  /\ UNCHANGED cameBack

-----------------------------------------------------------------------------
(* Inactive accounts *)

\* process_inactive_accounts marks whom to warn, in its session, and reads who
\* is due.
Sweep(q) ==
  /\ AccountAt(q, "idle")
  /\ AccountGoto(q, [AccountIdle EXCEPT !.pc = "sweep",
       !.warn = {u \in Users : /\ IsActive(u) /\ accounts[u].activity = "idle"
                               /\ accounts[u].scheduled = "no"},
       !.due = {u \in Users : IsActive(u) /\ accounts[u].scheduled = "due"}])
  /\ UNCHANGED <<accounts, consentLog, cameBack>>

\* A user who is due is anonymised, without another look.  The log's commit
\* stores the pending warnings too.
AnonymizeDue(q, u) ==
  /\ AccountAt(q, "sweep") /\ u \in accountReq[q].due
  /\ LET r == accountReq[q]
         warned(v) == IF v \in r.warn THEN [accounts[v] EXCEPT !.scheduled = "ahead"]
                                      ELSE accounts[v]
     IN /\ accounts' = [v \in Users |-> IF v = u THEN Anonymized(warned(v), accounts[v].consents)
                                                 ELSE warned(v)]
        /\ AccountGoto(q, [r EXCEPT !.due = @ \ {u}, !.warn = {}])
        /\ cameBack' = cameBack \ r.warn
  /\ Logged(u, "account", "anonymized_inactive")

\* The last flush: closing the session rolls back what no commit has stored.
SweepEnds(q) ==
  /\ AccountAt(q, "sweep") /\ accountReq[q].due = {} /\ AccountEnds(q)
  /\ UNCHANGED <<accounts, consentLog, cameBack>>

\* Years without a login, and the days of grace.
Idles(u) ==
  /\ accounts[u].activity = "recent"
  /\ accounts' = [accounts EXCEPT ![u].activity = "idle"]
  /\ UNCHANGED <<consentLog, cameBack, accountReq>>
GracePasses(u) ==
  /\ accounts[u].scheduled = "ahead"
  /\ accounts' = [accounts EXCEPT ![u].scheduled = "due"]
  /\ UNCHANGED <<consentLog, cameBack, accountReq>>

\* The process dies: what isn't committed is lost.
AccountDies(q) ==
  /\ q \in workers /\ accountReq[q].pc # "idle" /\ AccountEnds(q)
  /\ UNCHANGED <<accounts, consentLog, cameBack>>

AccountStep(q) ==
  \/ \E u \in Users :
       \/ \E b \in BOOLEAN : Register(q, u, b)
       \/ UpdateConsent(q, u) \/ Reconsent(q, u) \/ Login(q, u) \/ DeleteAccount(q, u)
       \/ AnonymizeDue(q, u)
  \/ ConsentUpdated(q) \/ Reconsented(q) \/ LoggedIn(q) \/ AccountDeleted(q)
  \/ Sweep(q) \/ SweepEnds(q) \/ AccountDies(q)
AccountsNext ==
  /\ UNCHANGED workers
  /\ \/ \E q \in workers : AccountStep(q)
     \/ \E u \in Users : Idles(u) \/ GracePasses(u)
AccountsSpec == AccountsInit /\ [][AccountsNext]_accountVars

\* Requests end.  The scheduler starts the job every day, and one day lets it
\* finish; time passes.
RequestEnds(q) == ConsentUpdated(q) \/ Reconsented(q) \/ LoggedIn(q) \/ AccountDeleted(q)
SweptSpec ==
  /\ AccountsSpec
  /\ \A q \in Worker :
       /\ WF_accountVars(UNCHANGED workers /\ RequestEnds(q))
       /\ SF_accountVars(UNCHANGED workers /\ Sweep(q))
       /\ SF_accountVars(UNCHANGED workers /\ SweepEnds(q))
       /\ \A u \in Users : SF_accountVars(UNCHANGED workers /\ AnonymizeDue(q, u))
  /\ \A u \in Users : WF_accountVars(UNCHANGED workers /\ GracePasses(u))

AccountsTypeOK ==
  /\ accounts \in [Users -> AccountRow]
  /\ consentLog \in [Users -> [{"marketing", "terms", "account"} -> LogAction]]
  /\ cameBack \subseteq Users
  /\ accountReq \in [Worker -> AccountRequest]

\* With one handler at a time, the consents in a user's row are the ones that
\* the log shows, a deletion or an anonymisation withdrawing them all.
ConsentMatchesLog ==
  Serial => \A u \in Users :
    LET log == consentLog[u]
        kept == accounts[u].state # "none" /\ log.account = "nothing"
    IN /\ accounts[u].consents["marketing"] = (kept /\ log.marketing = "granted")
       /\ accounts[u].consents["terms"] = kept

\* With one handler at a time, the job anonymises nobody who has logged in
\* since the warning that it stored.
AnonymizedStayedAway ==
  Serial => \A u \in Users :
    consentLog[u].account = "anonymized_inactive" => u \notin cameBack

\* "Process inactive accounts: warn inactive users, anonymize past grace": a
\* user who stays inactive is in the end anonymised.
InactiveAnonymized ==
  \A u \in Users : IsActive(u) /\ accounts[u].activity = "idle"
                     ~> ~IsActive(u) \/ accounts[u].activity = "recent"
=============================================================================
