SPECIFICATION HungSpec
CONSTANTS
  Keys <- ThreeRows
  PageSize = 1
  Touched <- MiddleRow
  MaxDrafts = 1
  MaxRequests = 6
  MaxExternal = 0
  Mouse = FALSE
  UncertainCommit = TRUE
  RequiredColumn = TRUE
  Writable = TRUE
INVARIANTS TypeOK AppliedOnce PageShowsItsNumber
PROPERTIES ClearedOnlyAfterCommit ValidatedWhenSent CancelEnds
CHECK_DEADLOCK FALSE
