SPECIFICATION Spec
CONSTANTS
  HasType <- MCHasType
  Accepts <- MCAccepts
  NoText = ""
  Akita = FALSE
  Default = "default"
  Legacy = "global"
  Named = {"a", "b"}
  Steps = 1
  Changes <- MCChanges
  NoFile = NoFile
  Unreadable = Unreadable
  Nobody = Nobody
  NoContext = NoContext
  MaxRequests = 2
  MaxFailures = 1
  MaxEnds = 1
INVARIANTS SettingsSurvive LockedIsCurrent
PROPERTY ChosenBecomesCurrent
CHECK_DEADLOCK FALSE
