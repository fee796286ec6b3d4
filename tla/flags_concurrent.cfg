SPECIFICATION Spec
CONSTANTS
  q1 = q1
  q2 = q2
  c1 = c1
  author = author
  system = system
  u1 = u1
  u2 = u2
  u3 = u3
  Requests = {q1, q2}
  Contents = {c1}
  Users = {author, system, u1}
  System = system
  Author <- MCAuthor
  Standing <- MCStanding
  FLAG_THRESHOLD = 2
  MaxFlags = 2
  MaxReviews = 2
  PartialReviews = TRUE
  Failures = TRUE
INVARIANTS
  TypeOK
  HiddenByDistinctReporters
  CountersHaveCause
  CountersNeverOvercount
SYMMETRY Symmetry
CHECK_DEADLOCK FALSE
