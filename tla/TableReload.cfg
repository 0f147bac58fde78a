SPECIFICATION Spec
CONSTANTS
  Keys <- TwoRows
  PageSize = 1
  Touched <- TwoRows
  MaxDrafts = 1
  MaxRequests = 5
  MaxExternal = 0
  Mouse = FALSE
  UncertainCommit = FALSE
  RequiredColumn = FALSE
  Writable = TRUE
PROPERTIES RefreshLoadsFirstPage
CHECK_DEADLOCK FALSE
