SPECIFICATION Spec
CONSTANTS
  q1 = q1
  q2 = q2
  i1 = i1
  Requests = {q1}
  Ideas = {i1}
  Decisions = {"approved", "rejected"}
  MAX_EDITS_PER_MONTH = 2
  EDIT_COOLDOWN = 2
  MONTH = 6
  MaxTime = 12
  MaxTexts = 7
INVARIANTS
  EditsAreLimited
  PendingEditsCanBeApproved
  PublicTextWasReviewed
CHECK_DEADLOCK FALSE
