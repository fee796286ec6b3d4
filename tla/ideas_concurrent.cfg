SPECIFICATION Spec
CONSTANTS
  q1 = q1
  q2 = q2
  i1 = i1
  Requests = {q1, q2}
  Ideas = {i1}
  Decisions = {"pending", "approved", "rejected", "pending_edit"}
  MAX_EDITS_PER_MONTH = 3
  EDIT_COOLDOWN = 1
  MONTH = 3
  MaxTime = 3
  MaxTexts = 4
INVARIANTS
  TypeOK
  EditsNeverOvercounted
  OnlyAdminsPublish
SYMMETRY Symmetry
CHECK_DEADLOCK FALSE
