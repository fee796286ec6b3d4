---------------------------- MODULE Services_proofs ----------------------------
(***************************************************************************)
(* The services run beside each other: a behaviour of the server is one of *)
(* each service, so that what is proved about a service alone holds of it  *)
(* in the server.                                                          *)
(***************************************************************************)
EXTENDS MCServices, Contributions_proofs, Credentials_proofs, Lists_proofs

\* The variables of each service, and a step that leaves them alone.
LEMMA OneServiceSteps ==
  ASSUME [Next]_servicesVars
  PROVE  /\ [VotesNext]_votesVars /\ [CommentDeskNext]_deskVars /\ [ListCacheNext]_cacheVars
         /\ [LoginCodesNext]_codesVars /\ [PasswordResetNext]_resetVars
         /\ [TwoFactorNext]_factorVars /\ [TagDeskNext]_tagVars /\ [AccountsNext]_accountVars
         /\ [SearchIndexNext]_searchVars /\ [SecurityWatchNext]_watchVars
         /\ UNCHANGED focus
<1>1. CASE UNCHANGED servicesVars
  BY <1>1 DEF servicesVars
<1>2. CASE Next
  BY <1>2 DEF Next, Others
<1>3. QED BY <1>1, <1>2

\* Every behaviour of the server is one of each of its services.
THEOREM ServicesRunApart ==
  Spec => /\ VotesSpec /\ CommentDeskSpec /\ ListCacheSpec /\ LoginCodesSpec
          /\ PasswordResetSpec /\ TwoFactorSpec /\ TagDeskSpec /\ AccountsSpec
          /\ SearchIndexSpec /\ SecurityWatchSpec
<1>1. Init => /\ VotesInit /\ CommentDeskInit /\ ListCacheInit /\ LoginCodesInit
              /\ PasswordResetInit /\ TwoFactorInit /\ TagDeskInit /\ AccountsInit
              /\ SearchIndexInit /\ SecurityWatchInit
  BY DEF Init
<1>2. QED
  BY <1>1, OneServiceSteps, PTL DEF Spec, VotesSpec, CommentDeskSpec, ListCacheSpec,
     LoginCodesSpec, PasswordResetSpec, TwoFactorSpec, TagDeskSpec, AccountsSpec,
     SearchIndexSpec, SecurityWatchSpec

\* Whichever service is in use, its tables and requests are of their types.
THEOREM ServicesTypeCorrect == Spec => []TypeOK
<1>1. Init => focus \in Services /\ workers \in WorkerSets
  BY DEF Init, SecurityWatchInit, WorkersInit
<1>2. focus \in Services /\ workers \in WorkerSets /\ [Next]_servicesVars
        => (focus \in Services /\ workers \in WorkerSets)'
  BY OneServiceSteps DEF SecurityWatchNext, watchVars
<1>3. /\ focus \in Services /\ workers \in WorkerSets
      /\ VotesTypeOK /\ CommentDeskTypeOK /\ ListCacheTypeOK /\ LoginCodesTypeOK
      /\ PasswordResetTypeOK /\ TwoFactorTypeOK /\ TagDeskTypeOK /\ AccountsTypeOK
      /\ SearchIndexTypeOK /\ SecurityWatchTypeOK
      => TypeOK
  BY DEF TypeOK, Services
<1>4. QED
  BY <1>1, <1>2, <1>3, ServicesRunApart, VotesTypeCorrect, DeskTypeCorrect, ListsTypeCorrect,
     CodesTypeCorrect, ResetTypeCorrect, FactorTypeCorrect, TagsTypeCorrect,
     AccountsTypeCorrect, SearchTypeCorrect, WatchTypeCorrect, PTL DEF Spec

\* What is proved of each service alone holds in the server: votes and comments
\* stand and survive merges, first comments are reviewed, likes are counted,
\* lists are young and one's own changes seen, codes, resets and devices stay
\* within their bounds, tags and consents are what was last said, nobody who
\* came back is anonymised, the index follows, and attacks are filed.
THEOREM ServicesKeepPromises ==
  Spec => [](/\ VotesStand /\ CommentsSurviveMerge
             /\ FirstCommentsReviewed /\ LikesCounted
             /\ StaleForTTLOnly /\ OwnWritesSeen
             /\ CodeUseBounded /\ OneLiveCode
             /\ ResetsBounded /\ LockoutHolds
             /\ BackupCodesBounded /\ DevicesBounded
             /\ TagsAsAsked
             /\ ConsentMatchesLog /\ AnonymizedStayedAway
             /\ IndexFollows /\ AttacksFiled)
BY ServicesRunApart, WhatWasSaidStands, CommentsAreKept, FirstCommentsAreReviewed, LikesAreCounted,
   ListsAreYoung, OwnChangesAreSeen, CodeUseIsBounded, OneCodeIsLive, TokensAreBounded,
   LockoutIsKept, BackupCodesAreBounded, DevicesAreBounded, TagsAreAsAsked, ConsentsAreLogged,
   OnlyAbsentAnonymized, IndexIsFollowed, AttacksAreFiled, PTL
=============================================================================
