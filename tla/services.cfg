SPECIFICATION Spec
CONSTANTS
  q1 = q1
  q2 = q2
  WorkerSets = {{q1}, {q2}, {q1, q2}}
  i1 = i1
  i2 = i2
  u1 = u1
  u2 = u2
  u3 = u3
  s1 = s1
  s2 = s2
  VotedIdeas = {i1, i2}
  Voters = {u1, u2}
  Departing = {u2}
  IdeaAuthor <- AuthorOf
  Remarks = {c1}
  MaxVoteId = 4
  MaxRemarks = 1
  Commenters = {u1, u2}
  Likers = {u2}
  Guarded = {u2}
  COMMENTS_NEEDED = 1
  MaxComments = 2
  MaxLikeCount = 2
  Processes = {p1, p2}
  CACHE_TTL = 1
  MaxCacheTime = 2
  MaxVersion = 2
  EMAIL_LOGIN_MAX_ATTEMPTS = 1
  EMAIL_LOGIN_CODES_PER_HOUR = 2
  CODE_EXPIRY = 1
  HOUR = 1
  CODE_KEPT = 1
  MaxCodeTime = 3
  MaxCodes = 3
  PASSWORD_RESET_MAX_ATTEMPTS = 1
  PASSWORD_RESET_CODES_PER_HOUR = 1
  PASSWORD_RESET_DAILY_LIMIT = 1
  RESET_CODE_EXPIRY = 1
  RESET_TOKEN_EXPIRY = 1
  RESET_HOUR = 0
  RESET_DAY = 1
  MaxResetTime = 2
  MaxResetCodes = 3
  BackupCodes = {k1}
  TOTP_MAX_TRUSTED_DEVICES_PER_USER = 1
  MaxSecrets = 2
  MaxBatches = 2
  MaxDevices = 2
  TaggedIdeas = {i1}
  TagNames = {t1, t2, bad}
  BadNames = {bad}
  MaxTagId = 2
  Users = {u1, u2}
  Scheduled = {u2}
  SearchedIdeas = {i1}
  MaxText = 3
  MaxTagging = 2
  Subnets = {s1, s2}
  SECURITY_BRUTE_FORCE_THRESHOLD = 1
  WATCH_PERIOD = 1
  WATCH_WINDOW = 2
  MaxWatchTime = 2
  MaxIncidents = 2
  MaxFailures = 2
  LastFailure = 1
INVARIANTS
  TypeOK
  VotesStand
  CommentsSurviveMerge
  FirstCommentsReviewed
  LikesCounted
  StaleForTTLOnly
  OwnWritesSeen
  CodeUseBounded
  OneLiveCode
  ResetsBounded
  LockoutHolds
  BackupCodesBounded
  DevicesBounded
  TagsAsAsked
  ConsentMatchesLog
  AnonymizedStayedAway
  IndexFollows
  AttacksFiled
SYMMETRY Symmetry
CHECK_DEADLOCK FALSE
