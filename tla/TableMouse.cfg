SPECIFICATION Spec
CONSTANTS
  Keys <- TwoRows
  PageSize = 1
  Touched <- TwoRows
  MaxDrafts = 1
  MaxRequests = 4
  MaxExternal = 1
  Mouse = TRUE
  UncertainCommit = TRUE
  RequiredColumn = FALSE
  Writable = TRUE
INVARIANT EditorKeepsRow
PROPERTIES NoLostUpdate PageIsLatest AppliesAtomically
CHECK_DEADLOCK FALSE
