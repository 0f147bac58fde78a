SPECIFICATION Spec
CONSTANTS
  Keys <- OneRow
  PageSize = 1
  Touched <- OneRow
  MaxDrafts = 1
  MaxRequests = 5
  MaxExternal = 0
  Mouse = TRUE
  UncertainCommit = FALSE
  RequiredColumn = FALSE
  Writable = TRUE
PROPERTIES ClearedOnlyAfterCommit
CHECK_DEADLOCK FALSE
