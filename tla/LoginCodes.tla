------------------------------ MODULE LoginCodes ------------------------------
(***************************************************************************)
(* Codes e-mailed to a user who logs in without a password, as             *)
(* EmailLoginService makes and checks them.  Users share nothing: the      *)
(* module is about the codes of one.                                       *)
(*                                                                         *)
(* A request invalidates the older codes, inserts the new one and sends it *)
(* in one transaction.  Until it ends, others read the rows as they were   *)
(* and wait to write them: it is one step, over the rows its update saw.   *)
(***************************************************************************)
EXTENDS Integers, Sequences, Workers

CONSTANTS
  EMAIL_LOGIN_MAX_ATTEMPTS, EMAIL_LOGIN_CODES_PER_HOUR,
  CODE_EXPIRY, HOUR,  \* how long a code lasts, and the window of the rate limit
  CODE_KEPT,          \* how long an expired code is kept
  MaxCodeTime, MaxCodes  \* bounds: time, and codes ever created, one fewer with two workers

ASSUME LoginCodesAssumption ==
  /\ {EMAIL_LOGIN_MAX_ATTEMPTS, EMAIL_LOGIN_CODES_PER_HOUR} \subseteq Nat \ {0}
  /\ {CODE_EXPIRY, HOUR, CODE_KEPT, MaxCodeTime, MaxCodes} \subseteq Nat
  /\ CODE_KEPT >= HOUR

VARIABLES
  codes,     \* the rows, by id
  loggedIn,  \* history, by id: how many logins the code opened
  codeTime,
  codeReq    \* the handler that each worker runs

codesVars == <<workers, codes, loggedIn, codeTime, codeReq>>

-----------------------------------------------------------------------------
CodeRow == [created_at : Nat, expires_at : Nat, used : BOOLEAN, attempts : Nat,
            kept : BOOLEAN]
CodeIds == DOMAIN codes
Unused(c) == codes[c].kept /\ ~codes[c].used /\ codes[c].expires_at > codeTime
Live(c) == Unused(c) /\ codes[c].attempts < EMAIL_LOGIN_MAX_ATTEMPTS
InWindow(c) == codes[c].kept /\ codes[c].created_at + HOUR >= codeTime
Recent == {c \in CodeIds : InWindow(c)}

\* A request remembers the codes its update sees; a verification, the code of
\* the last step and the one that was typed (0: none of them).
CodeRequest == [pc : {"idle", "send", "check", "wrong", "right"},
                codes : SUBSET Nat, code : Nat, typed : Nat]
CodeIdle == [pc |-> "idle", codes |-> {}, code |-> 0, typed |-> 0]
CodeAt(q, step) == q \in workers /\ codeReq[q].pc = step
CodeGoto(q, r) == codeReq' = [codeReq EXCEPT ![q] = r]
CodeEnds(q) == CodeGoto(q, CodeIdle)

LoginCodesInit ==
  /\ WorkersInit
  /\ codes = <<>>
  /\ loggedIn = <<>>
  /\ codeTime = 0
  /\ codeReq = [q \in Worker |-> CodeIdle]

-----------------------------------------------------------------------------
(* Requesting a code *)

\* request_login_code counts the codes of the last hour.
UnderRateLimit == Cardinality(Recent) < EMAIL_LOGIN_CODES_PER_HOUR
RequestCode(q) ==
  /\ CodeAt(q, "idle") /\ UnderRateLimit
  /\ CodeGoto(q, [CodeIdle EXCEPT !.pc = "send", !.codes = CodeIds])
  /\ UNCHANGED <<codes, loggedIn, codeTime>>

\* invalidate_user_codes, create_code, the e-mail, and then the commit.
\* Mutant of Invalidated: older codes are left as they are.
InvalidatedNot(c) == codes[c]
Invalidated(c) == IF Unused(c) THEN [codes[c] EXCEPT !.expires_at = codeTime] ELSE codes[c]
CodeSent(q) ==
  /\ CodeAt(q, "send") /\ CodeEnds(q) /\ Len(codes) + Cardinality(workers) <= MaxCodes
  /\ LET older == [c \in CodeIds |-> IF c \in codeReq[q].codes THEN Invalidated(c) ELSE codes[c]]
     IN codes' = Append(older, [created_at |-> codeTime, expires_at |-> codeTime + CODE_EXPIRY,
                                used |-> FALSE, attempts |-> 0, kept |-> TRUE])
  /\ loggedIn' = Append(loggedIn, 0)
  /\ UNCHANGED codeTime

\* The e-mail isn't sent, or the process dies: nothing is stored, and the
\* older codes are what they were.
CodeLost(q) ==
  /\ q \in workers /\ codeReq[q].pc # "idle" /\ CodeEnds(q)
  /\ UNCHANGED <<codes, loggedIn, codeTime>>

-----------------------------------------------------------------------------
(* Verifying a code *)

\* get_active_code_for_user: the newest live code.
VerifyCode(q, typed) ==
  /\ CodeAt(q, "idle") /\ typed \in CodeIds \cup {0}
  /\ \E c \in CodeIds :
       /\ Live(c) /\ \A d \in CodeIds : Live(d) => codes[d].created_at <= codes[c].created_at
       /\ CodeGoto(q, [CodeIdle EXCEPT !.pc = "check", !.code = c, !.typed = typed])
  /\ UNCHANGED <<codes, loggedIn, codeTime>>

\* get_valid_code accepts any live code of the user, not only the newest.
CheckCode(q) ==
  /\ CodeAt(q, "check")
  /\ LET r == codeReq[q]
     IN CodeGoto(q, IF r.typed # 0 /\ Live(r.typed)
                    THEN [r EXCEPT !.pc = "right", !.code = r.typed]
                    ELSE [r EXCEPT !.pc = "wrong"])
  /\ UNCHANGED <<codes, loggedIn, codeTime>>

\* increment_attempts adds one in the database, and commits.
WrongCode(q) ==
  /\ CodeAt(q, "wrong") /\ CodeEnds(q)
  /\ codes' = [codes EXCEPT ![codeReq[q].code].attempts = @ + 1]
  /\ UNCHANGED <<loggedIn, codeTime>>

\* mark_as_used, whatever the row is by now; update_last_login commits it.
\* Mutant of Used: the code is not marked.
UsedNot(row) == row
Used(row) == [row EXCEPT !.used = TRUE]
RightCode(q) ==
  /\ CodeAt(q, "right") /\ CodeEnds(q)
  /\ codes' = [codes EXCEPT ![codeReq[q].code] = Used(@)]
  /\ loggedIn' = [loggedIn EXCEPT ![codeReq[q].code] = @ + 1]
  /\ UNCHANGED codeTime

\* cleanup_expired_codes, and the retention job's delete_expired_login_codes.
CleanupCodes(q) ==
  /\ CodeAt(q, "idle")
  /\ codes' = [c \in CodeIds |-> [codes[c] EXCEPT
                 !.kept = @ /\ codes[c].expires_at + CODE_KEPT >= codeTime]]
  /\ UNCHANGED <<loggedIn, codeTime, codeReq>>

CodeTick ==
  /\ codeTime < MaxCodeTime /\ codeTime' = codeTime + 1
  /\ UNCHANGED <<codes, loggedIn, codeReq>>

CodeStep(q) ==
  \/ RequestCode(q) \/ CodeSent(q) \/ CodeLost(q)
  \/ \E typed \in 0..MaxCodes : VerifyCode(q, typed)
  \/ CheckCode(q) \/ WrongCode(q) \/ RightCode(q) \/ CleanupCodes(q)
LoginCodesNext == UNCHANGED workers /\ (CodeTick \/ \E q \in workers : CodeStep(q))
LoginCodesSpec == LoginCodesInit /\ [][LoginCodesNext]_codesVars

LoginCodesTypeOK ==
  /\ DOMAIN codes \in {1..n : n \in 0..MaxCodes}
  /\ \A c \in CodeIds : codes[c] \in CodeRow
  /\ DOMAIN loggedIn = CodeIds /\ \A c \in CodeIds : loggedIn[c] \in Nat
  /\ codeTime \in 0..MaxCodeTime
  /\ codeReq \in [Worker -> CodeRequest]

\* A code can be tried as often as allowed, and once more for every further
\* handler that checked the count before any of them wrote it; and it opens one
\* login, or one for each handler that found it unused before any marked it.
CodeUseBounded ==
  \A c \in CodeIds :
    /\ codes[c].attempts < EMAIL_LOGIN_MAX_ATTEMPTS + Cardinality(workers)
    /\ loggedIn[c] <= Cardinality(workers)

\* With one handler at a time, a user has at most one code that is good for a
\* login, also when e-mails fail to be sent.
OneLiveCode == Serial => Cardinality({c \in CodeIds : Live(c)}) <= 1
=============================================================================
