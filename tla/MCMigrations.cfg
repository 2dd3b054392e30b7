SPECIFICATION Spec
CONSTANTS
  Objects = {"o"}
  Relation <- MCRelation
  Messages <- MCMessages
  Contacts = {"c"}
  Own = {"mobile", "home", "group"}
  SourcesOf <- MCSourcesOf
  Listed = "groups"
  Texts <- MCTexts
  Nothing = Nothing
  Server = Server
  Cli = Cli
  MaxChanges = 2
  MaxFailures = 1
  MaxStarts = 2
INVARIANTS  RecordedIsRenamed
PROPERTY WhatIsThereStays
CHECK_DEADLOCK FALSE
