SPECIFICATION Spec
CONSTANTS
  changed = changed
  created = created
  Paths = {changed, created}
  Untracked = {created}
  NoPaths = none
  Conflict = conflict
  CommitsFail = TRUE
  MaxWrites = 2
  MaxEdits = 1
  MaxMerges = 2
INVARIANTS AckCoversReports
PROPERTIES ServedOnly CommittedWasServed RecordIsTrue
VIEW View
CHECK_DEADLOCK FALSE
