SPECIFICATION SweptSpec
CONSTANTS
  WorkerSets = {{q1}}
  Users = {u1}
  Scheduled = {}
PROPERTY InactiveAnonymized
CHECK_DEADLOCK FALSE
