SPECIFICATION Spec
CONSTANTS
  Ids <- AllProfiles
  MaxPasswords = 3
  MaxTasks = 6
  MaxRestarts = 2
  Settings <- AllSettings
INVARIANTS TypeOK FailureRestores SavedPasswordRecalled RemovedLeaveNoSecret ReplacedPasswordUnused
CHECK_DEADLOCK FALSE
