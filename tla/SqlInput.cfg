SPECIFICATION Spec
CONSTANTS
  a = a
  b = b
  Characters <- Letters
  MaxLength = 2
  MaxUndoHistory = 2
  ResultPageSize = 2
  Sessions <- AllSessions
INVARIANTS TypeOK InputIsShown
PROPERTIES HistoryKept
CHECK_DEADLOCK FALSE
