SPECIFICATION Spec
CONSTANTS
  users = users
  SQL = SQL
  Relations <- OneRelation
  MaxWorkspaces = 2
  MaxTabs = 2
  MaxOps = 2
INVARIANTS TypeOK EnvelopesAgree NoDetachedWork
PROPERTIES LosesNothingUnasked AnswersOwnTab
CHECK_DEADLOCK FALSE
