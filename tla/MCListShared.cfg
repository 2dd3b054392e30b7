SPECIFICATION Spec
CONSTANTS
  f1 = f1
  f2 = f2
  c1 = c1
  c2 = c2
  c3 = c3
  refers = refers
  labelled = labelled
  cites = cites
  notes = notes
  app = app
  refersTo = refersTo
  referredBy = referredBy
  RelIds = {1, 2, 3, 4, 5, 6, 7, 8, 9, 10}
  NewId <- LeastNewId
  NoRelationId = NoRelationId
  NoLabel = NoLabel
  NoCreator = NoCreator
  Files = {f1, f2}
  Classifications = {}
  Types = {refers, cites}
  Association = labelled
  Bidirectional = {refers, cites}
  InverseLabel <- NoInverseLabel
  Inputs <- FewInputs
  Updates = {NoProperties}
  Senders = {app}
  OwnLabels <- NoLabels
  RemoveModes = {"plain"}
  NoData = NoData
  Copied = {}
  Deleted = {}
  Sticking = {}
  Server = Server
  NoProperties = NoProperties
  NoFile = NoFile
  NoType = NoType
  Dynamic = {}
  Fits <- AnyFits
  ForwardLabel <- RefersLabel
  TypeName <- NameOfType
  MaxSets = 2
  MaxStored = 4
  MaxIds = 2
INVARIANT RelatedAreListed
CHECK_DEADLOCK FALSE
