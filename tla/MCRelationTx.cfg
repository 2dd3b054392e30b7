SPECIFICATION SpecTx
CONSTANTS
  f1 = f1
  f2 = f2
  refers = refers
  notes = notes
  app = app
  RelIds = {1, 2, 3, 4, 5, 6, 7, 8, 9, 10}
  NewId <- LeastNewId
  NoRelationId = NoRelationId
  NoLabel = NoLabel
  NoCreator = NoCreator
  Files = {f1, f2}
  Classifications = {}
  Types = {refers}
  Association = Association
  Bidirectional = {refers}
  InverseLabel <- NoInverseLabel
  Inputs <- OneInput
  Updates <- OneUpdate
  Senders = {app}
  OwnLabels <- NoLabels
  RemoveModes = {"plain"}
  NoData = NoData
  Copied = {}
  Deleted = {f1, f2}
  Sticking = {}
  Server = Server
  NoProperties = NoProperties
  NoFile = NoFile
  NoType = NoType
  MaxSets = 2
  MaxStored = 4
  MaxIds = 1
  Attrs <- AllAttrs
  Values = {}
  Unreadable <- ListOfFirst
  Stubborn <- RelationsOfFirst
  MaxCrashes = 1
INVARIANTS CanRollBack DamageStaysLocal
PROPERTIES AllOrNothing RequestsAreAtomic
CHECK_DEADLOCK FALSE
