------------------------------ MODULE MCServices ------------------------------
(***************************************************************************)
(* The services that share no state with one another, in one run: a        *)
(* behaviour has a server with one worker or with two, and a focus, the    *)
(* service that is used; the others stay as they start.                    *)
(***************************************************************************)
EXTENDS TLC, Votes, CommentDesk, ListCache, LoginCodes, PasswordReset, TwoFactor, TagDesk, Accounts,
  SearchIndex, SecurityWatch

CONSTANTS i1, i2, u1, u2, u3, q1, q2, s1, s2

\* No definition tells one worker from another.
Symmetry == Permutations({q1, q2})

\* The author of i1 has no vote in the model.
AuthorOf == [i \in {i1, i2} |-> IF i = i1 THEN u3 ELSE u1]

VARIABLE focus

Services == {"votes", "comments", "cache", "codes", "reset", "factor", "tags", "accounts",
             "search", "watch"}
servicesVars == <<focus, votesVars, deskVars, cacheVars, codesVars, resetVars, factorVars,
                  tagVars, accountVars, searchVars, watchVars>>

Init ==
  /\ focus \in Services
  /\ VotesInit /\ CommentDeskInit /\ ListCacheInit /\ LoginCodesInit
  /\ PasswordResetInit /\ TwoFactorInit /\ TagDeskInit /\ AccountsInit
  /\ SearchIndexInit /\ SecurityWatchInit
  /\ focus = "search" \/ setup = "table"

Others(service) ==
  /\ service # "votes" => UNCHANGED votesVars
  /\ service # "comments" => UNCHANGED deskVars
  /\ service # "cache" => UNCHANGED cacheVars
  /\ service # "codes" => UNCHANGED codesVars
  /\ service # "reset" => UNCHANGED resetVars
  /\ service # "factor" => UNCHANGED factorVars
  /\ service # "tags" => UNCHANGED tagVars
  /\ service # "accounts" => UNCHANGED accountVars
  /\ service # "search" => UNCHANGED searchVars
  /\ service # "watch" => UNCHANGED watchVars

Next ==
  /\ UNCHANGED focus
  /\ \/ focus = "votes" /\ VotesNext /\ Others("votes")
     \/ focus = "comments" /\ CommentDeskNext /\ Others("comments")
     \/ focus = "cache" /\ ListCacheNext /\ Others("cache")
     \/ focus = "codes" /\ LoginCodesNext /\ Others("codes")
     \/ focus = "reset" /\ PasswordResetNext /\ Others("reset")
     \/ focus = "factor" /\ TwoFactorNext /\ Others("factor")
     \/ focus = "tags" /\ TagDeskNext /\ Others("tags")
     \/ focus = "accounts" /\ AccountsNext /\ Others("accounts")
     \/ focus = "search" /\ SearchIndexNext /\ Others("search")
     \/ focus = "watch" /\ SecurityWatchNext /\ Others("watch")

Spec == Init /\ [][Next]_servicesVars

\* The variables of the service in use hold values of their types.
TypeOK ==
  /\ focus \in Services /\ workers \in WorkerSets
  /\ \/ focus = "votes" /\ VotesTypeOK
     \/ focus = "comments" /\ CommentDeskTypeOK
     \/ focus = "cache" /\ ListCacheTypeOK
     \/ focus = "codes" /\ LoginCodesTypeOK
     \/ focus = "reset" /\ PasswordResetTypeOK
     \/ focus = "factor" /\ TwoFactorTypeOK
     \/ focus = "tags" /\ TagDeskTypeOK
     \/ focus = "accounts" /\ AccountsTypeOK
     \/ focus = "search" /\ SearchIndexTypeOK
     \/ focus = "watch" /\ SecurityWatchTypeOK
=============================================================================
