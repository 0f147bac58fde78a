SPECIFICATION Spec
CONSTANTS
  a = a
  b = b
  x = x
  y = y
  c1 = c1
  None = None
  Tabs <- TwoTabs
  Connections <- OneConnection
  Texts <- TwoTexts
  MaxRowsPerResult = 1
  MaxCapturedDataBytes = 2
  ColumnBytes = 1
  MaxRuns = 2
  MaxStatements = 1
  Sent <- NoRowsOrTwo
  MaxNotices = 1
SYMMETRY Symmetric
INVARIANTS TypeOK NoticesReachTheirRun NothingMissingUnmarked ShownForWhatItIs
PROPERTIES PoolLends
CHECK_DEADLOCK FALSE
