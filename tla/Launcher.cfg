SPECIFICATION HungSpec
CONSTANTS
  Ids <- TwoIds
  FirstSaved <- OneSaved
  MaxRequests = 5
  Mouse = TRUE
INVARIANTS TypeOK OneCommand ListIsCurrent
PROPERTIES ReplacesAsChosen EscEnds
CHECK_DEADLOCK FALSE
