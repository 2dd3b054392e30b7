SPECIFICATION Spec
CONSTANTS
  f1 = f1
  f2 = f2
  c1 = c1
  c2 = c2
  c3 = c3
  refers = refers
  labelled = labelled
  cites = cites
  notes = notes
  app = app
  refersTo = refersTo
  referredBy = referredBy
  RelIds = {1, 2, 3, 4, 5, 6, 7, 8, 9, 10, 11, 12, 13, 14}
  NewId <- LeastNewId
  NoRelationId = NoRelationId
  NoLabel = NoLabel
  NoCreator = NoCreator
  Files = {f1, c1}
  Classifications = {c1}
  Types = {refers, labelled}
  Association = labelled
  Bidirectional = {refers}
  InverseLabel <- WithInverseLabel
  Inputs <- OneInput
  Updates = {NoProperties}
  Senders = {NoCreator, app}
  OwnLabels <- NoLabels
  RemoveModes = {"plain", "stale"}
  NoData = NoData
  Copied = {f1}
  Deleted = {}
  Sticking = {c1}
  Server = Server
  NoProperties = NoProperties
  NoFile = NoFile
  NoType = NoType
  Dynamic = {}
  Fits <- AnyFits
  ForwardLabel <- RefersLabel
  TypeName <- NameOfType
  MaxSets = 3
  MaxStored = 3
  MaxIds = 1
INVARIANTS RelationIdsIdentify ListedAreRelated PointedAtIsShown DirectionsDiffer
PROPERTY FirstCreatorStays
CHECK_DEADLOCK FALSE
