SPECIFICATION Spec
CONSTANTS
  q1 = q1
  q2 = q2
  u1 = u1
  u2 = u2
  Requests = {q1}
  Users = {u1}
  IssuedLevels = {0, 1, 2, 3, 4}
  MaxPenalties = 3
  ExpiryRuns = FALSE
  Failures = FALSE
INVARIANTS
  AppealsAgree
  DeductionFollows
PROPERTY BannedDontPublish
CHECK_DEADLOCK FALSE
