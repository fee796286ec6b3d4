SPECIFICATION FairSpec
CONSTANTS
  q1 = q1
  q2 = q2
  c1 = c1
  author = author
  system = system
  u1 = u1
  u2 = u2
  u3 = u3
  Requests = {q1}
  Contents = {c1}
  Users = {author, system, u1, u2}
  System = system
  Author <- MCAuthor
  Standing <- MCStanding
  FLAG_THRESHOLD = 3
  MaxFlags = 4
  MaxReviews = 2
  PartialReviews = FALSE
  Failures = FALSE
INVARIANTS
  PendingFlagsHide
  TotalIsExact
  TrustIsCurrent
PROPERTIES
  ReviewedNeverDeleted
  ImplementsBoard
  RequestsEnd
CHECK_DEADLOCK FALSE
