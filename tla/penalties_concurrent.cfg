SPECIFICATION Spec
CONSTANTS
  q1 = q1
  q2 = q2
  u1 = u1
  u2 = u2
  Requests = {q1, q2}
  Users = {u1}
  IssuedLevels = {0, 1, 4}
  MaxPenalties = 2
  ExpiryRuns = TRUE
  Failures = TRUE
INVARIANTS
  TypeOK
  SuspendedOnlyWhilePending
PROPERTY ReinstatedOnlyByRejection
SYMMETRY Symmetry
CHECK_DEADLOCK FALSE
