----------------------------- MODULE PasswordReset -----------------------------
(***************************************************************************)
(* Resetting a forgotten password, as PasswordResetService does it: a code *)
(* is requested, the right code is exchanged for a token, and the token    *)
(* for a new password.  Users share nothing: the module is about one.      *)
(*                                                                         *)
(* A request stores its code before it sends it.  Handlers are short next  *)
(* to the times that matter: time passes when none runs.                   *)
(***************************************************************************)
EXTENDS Integers, Sequences, Workers

CONSTANTS
  PASSWORD_RESET_MAX_ATTEMPTS, PASSWORD_RESET_CODES_PER_HOUR, PASSWORD_RESET_DAILY_LIMIT,
  RESET_CODE_EXPIRY, RESET_TOKEN_EXPIRY, RESET_HOUR, RESET_DAY,
  MaxResetTime, MaxResetCodes  \* bounds: time, and codes ever created

ASSUME PasswordResetAssumption ==
  /\ {PASSWORD_RESET_MAX_ATTEMPTS, PASSWORD_RESET_CODES_PER_HOUR,
      PASSWORD_RESET_DAILY_LIMIT} \subseteq Nat \ {0}
  /\ {RESET_CODE_EXPIRY, RESET_TOKEN_EXPIRY, RESET_HOUR, RESET_DAY,
      MaxResetTime, MaxResetCodes} \subseteq Nat

VARIABLES
  tokens,     \* the rows, by id
  passwords,  \* history, by id: the times the row's token changed the password
  resetTime,
  resetReq    \* the handler that each worker runs

resetVars == <<workers, tokens, passwords, resetTime, resetReq>>

-----------------------------------------------------------------------------
\* "verified": whether the row has a reset token, which each verification of its
\* code replaces.
TokenRow == [created_at : Nat, expires_at : Nat, attempts : Nat, used : BOOLEAN,
             verified : BOOLEAN, reset_token_expires_at : Nat, kept : BOOLEAN]
TokenIds == DOMAIN tokens
CodeGood(t) == /\ tokens[t].kept /\ ~tokens[t].used /\ tokens[t].expires_at > resetTime
               /\ tokens[t].attempts < PASSWORD_RESET_MAX_ATTEMPTS
\* get_verified_token: the latest token that was given out, until it expires.
\* Mutant of TokenGood: the token may have been used.
TokenGoodUsed(t) == /\ tokens[t].kept /\ tokens[t].verified
                    /\ tokens[t].reset_token_expires_at > resetTime
TokenGood(t) == /\ tokens[t].kept /\ ~tokens[t].used /\ tokens[t].verified
                /\ tokens[t].reset_token_expires_at > resetTime
CreatedWithin(time) == {t \in TokenIds : tokens[t].kept /\ tokens[t].created_at + time >= resetTime}

ResetRequest == [pc : {"idle", "create", "check", "wrong", "right", "reset"},
                 code : Nat, typed : Nat]
ResetIdle == [pc |-> "idle", code |-> 0, typed |-> 0]
ResetAt(q, step) == q \in workers /\ resetReq[q].pc = step
ResetGoto(q, r) == resetReq' = [resetReq EXCEPT ![q] = r]
ResetEnds(q) == ResetGoto(q, ResetIdle)

PasswordResetInit ==
  /\ WorkersInit
  /\ tokens = <<>>
  /\ passwords = <<>>
  /\ resetTime = 0
  /\ resetReq = [q \in Worker |-> ResetIdle]

-----------------------------------------------------------------------------
\* request_reset: check_account_lockout, then the codes of the last hour.
\* Mutant of MayRequest: only the last hour is looked at.
MayRequestHourly == Cardinality(CreatedWithin(RESET_HOUR)) < PASSWORD_RESET_CODES_PER_HOUR
MayRequest == /\ Cardinality(CreatedWithin(RESET_DAY)) < PASSWORD_RESET_DAILY_LIMIT
              /\ Cardinality(CreatedWithin(RESET_HOUR)) < PASSWORD_RESET_CODES_PER_HOUR
RequestReset(q) ==
  /\ ResetAt(q, "idle") /\ MayRequest
  /\ ResetGoto(q, [ResetIdle EXCEPT !.pc = "create", !.code = Len(tokens)])
  /\ UNCHANGED <<tokens, passwords, resetTime>>

\* invalidate_user_tokens (the rows its update sees), create_token and commit:
\* older codes expire, and the tokens that they were exchanged for do not.
CreateToken(q) ==
  /\ ResetAt(q, "create") /\ ResetEnds(q) /\ Len(tokens) < MaxResetCodes
  /\ LET old(t) == t <= resetReq[q].code /\ ~tokens[t].used /\ tokens[t].expires_at > resetTime
         older == [t \in TokenIds |-> IF old(t) THEN [tokens[t] EXCEPT !.expires_at = resetTime]
                                                ELSE tokens[t]]
     IN tokens' = Append(older, [created_at |-> resetTime,
                                 expires_at |-> resetTime + RESET_CODE_EXPIRY,
                                 attempts |-> 0, used |-> FALSE, verified |-> FALSE,
                                 reset_token_expires_at |-> 0, kept |-> TRUE])
  /\ passwords' = Append(passwords, <<>>)
  /\ UNCHANGED resetTime

\* verify_code finds the newest good code.
VerifyReset(q, typed) ==
  /\ ResetAt(q, "idle") /\ typed \in TokenIds \cup {0}
  /\ \E t \in TokenIds :
       /\ CodeGood(t) /\ \A u \in TokenIds : CodeGood(u) => u <= t
       /\ ResetGoto(q, [ResetIdle EXCEPT !.pc = "check", !.code = t, !.typed = typed])
  /\ UNCHANGED <<tokens, passwords, resetTime>>

\* get_valid_code compares what was typed with every good code.
CheckReset(q) ==
  /\ ResetAt(q, "check")
  /\ LET r == resetReq[q]
     IN ResetGoto(q, IF r.typed # 0 /\ CodeGood(r.typed)
                     THEN [r EXCEPT !.pc = "right", !.code = r.typed]
                     ELSE [r EXCEPT !.pc = "wrong"])
  /\ UNCHANGED <<tokens, passwords, resetTime>>

\* increment_attempts, and commit.
WrongReset(q) ==
  /\ ResetAt(q, "wrong") /\ ResetEnds(q)
  /\ tokens' = [tokens EXCEPT ![resetReq[q].code].attempts = @ + 1]
  /\ UNCHANGED <<passwords, resetTime>>

\* mark_as_verified, and commit: again and again while the code is good.
Verified(row) == [row EXCEPT !.verified = TRUE,
                             !.reset_token_expires_at = resetTime + RESET_TOKEN_EXPIRY]
RightReset(q) ==
  /\ ResetAt(q, "right") /\ ResetEnds(q)
  /\ tokens' = [tokens EXCEPT ![resetReq[q].code] = Verified(@)]
  /\ UNCHANGED <<passwords, resetTime>>

\* reset_password finds the token; the checks of the password take a while.
ResetPassword(q, t) ==
  /\ ResetAt(q, "idle") /\ t \in TokenIds /\ TokenGood(t)
  /\ ResetGoto(q, [ResetIdle EXCEPT !.pc = "reset", !.code = t])
  /\ UNCHANGED <<tokens, passwords, resetTime>>

\* update_password and mark_as_used, in one commit.
PasswordChanged(q) ==
  /\ ResetAt(q, "reset") /\ ResetEnds(q)
  /\ tokens' = [tokens EXCEPT ![resetReq[q].code].used = TRUE]
  /\ passwords' = [passwords EXCEPT ![resetReq[q].code] = Append(@, resetTime)]
  /\ UNCHANGED resetTime

\* A password is refused, or the process dies: nothing is stored.
ResetFails(q) ==
  /\ q \in workers /\ resetReq[q].pc # "idle" /\ ResetEnds(q)
  /\ UNCHANGED <<tokens, passwords, resetTime>>

\* cleanup_expired_tokens, for codes that expired a day ago.
CleanupTokens(q) ==
  /\ ResetAt(q, "idle")
  /\ tokens' = [t \in TokenIds |-> [tokens[t] EXCEPT
                  !.kept = @ /\ tokens[t].expires_at + RESET_DAY >= resetTime]]
  /\ UNCHANGED <<passwords, resetTime, resetReq>>

ResetTick ==
  /\ \A q \in workers : resetReq[q].pc = "idle"
  /\ resetTime < MaxResetTime /\ resetTime' = resetTime + 1
  /\ UNCHANGED <<tokens, passwords, resetReq>>

ResetStep(q) ==
  \/ RequestReset(q) \/ CreateToken(q)
  \/ \E t \in 0..MaxResetCodes : VerifyReset(q, t) \/ ResetPassword(q, t)
  \/ CheckReset(q) \/ WrongReset(q) \/ RightReset(q) \/ PasswordChanged(q)
  \/ ResetFails(q) \/ CleanupTokens(q)
PasswordResetNext == UNCHANGED workers /\ (ResetTick \/ \E q \in workers : ResetStep(q))
PasswordResetSpec == PasswordResetInit /\ [][PasswordResetNext]_resetVars

PasswordResetTypeOK ==
  /\ DOMAIN tokens \in {1..n : n \in 0..MaxResetCodes}
  /\ \A t \in TokenIds : tokens[t] \in TokenRow
  /\ DOMAIN passwords = TokenIds
  /\ \A t \in TokenIds : \A n \in DOMAIN passwords[t] : passwords[t][n] \in 0..MaxResetTime
  /\ resetTime \in 0..MaxResetTime
  /\ resetReq \in [Worker -> ResetRequest]

\* A code leads to one new password, or to one for each handler that found its
\* token unused before any of them committed; never outside the time the code
\* and the token exchanged for it last, however often the code is verified
\* again.
ResetsBounded ==
  \A t \in TokenIds :
    /\ Len(passwords[t]) <= Cardinality(workers)
    /\ \A n \in DOMAIN passwords[t] :
         passwords[t][n] < tokens[t].created_at + RESET_CODE_EXPIRY + RESET_TOKEN_EXPIRY

\* A user is sent no more codes in a day than the daily limit, and one more for
\* every further request that counted before any of them committed: deleting
\* codes that expired a day ago doesn't make room.
LockoutHolds ==
  Cardinality({t \in TokenIds : tokens[t].created_at + RESET_DAY >= resetTime})
    < PASSWORD_RESET_DAILY_LIMIT + Cardinality(workers)
=============================================================================
