SPECIFICATION Spec
CONSTANTS
  Unreadable = Unreadable
  Steps = 2
  UpdateCount = 2
  MaxContacts = 2
  MaxChanges = 1
  MaxMenus = 1
  MaxFailures = 1
  MaxRestarts = 1
INVARIANTS OneUpdateAtATime RecordedIsDone AnswerIsKept
PROPERTY UpdatesFollow
CHECK_DEADLOCK FALSE
