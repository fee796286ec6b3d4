SPECIFICATION Spec
CONSTANTS
  q1 = q1
  q2 = q2
  i1 = i1
  Requests = {q1}
  Ideas = {i1}
  Decisions = {"approved", "rejected"}
  MAX_EDITS_PER_MONTH = 3
  EDIT_COOLDOWN = 1
  MONTH = 4
  MaxTime = 2
  MaxTexts = 3
INVARIANT CommentIsOnPublicText
CHECK_DEADLOCK FALSE
