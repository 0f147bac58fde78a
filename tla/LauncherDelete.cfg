SPECIFICATION Spec
CONSTANTS
  Ids <- ThreeIds
  FirstSaved <- TwoSaved
  MaxRequests = 6
  Mouse = TRUE
PROPERTIES DeletesNamed
CHECK_DEADLOCK FALSE
