SPECIFICATION Spec
CONSTANTS
  MaxWorkspaces = 2
  MaxOps = 5
  MaxTicks = 1
  MaxLeaves = 2
INVARIANTS TypeOK NothingAwaitedInVain WatchedUnlessRefused
PROPERTIES AnswersOfThisSession SessionsLiveOnce
CHECK_DEADLOCK FALSE
