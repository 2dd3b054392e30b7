SPECIFICATION Spec
CONSTANTS
  f1 = f1
  f2 = f2
  c1 = c1
  c2 = c2
  c3 = c3
  refers = refers
  labelled = labelled
  cites = cites
  notes = notes
  app = app
  refersTo = refersTo
  referredBy = referredBy
  RelIds = {1, 2, 3, 4, 5, 6, 7, 8, 9, 10}
  NewId <- LeastNewId
  NoRelationId = NoRelationId
  NoLabel = NoLabel
  NoCreator = NoCreator
  Files = {c1, c2, c3}
  Classifications = {c1, c2, c3}
  Types = {refers, labelled}
  Association = labelled
  Bidirectional = {refers}
  InverseLabel <- NoInverseLabel
  Inputs <- FewInputs
  Updates <- UpdateToReadOnly
  Senders = {app}
  OwnLabels <- NoLabels
  RemoveModes = {"plain"}
  NoData = NoData
  Copied = {}
  Deleted = {c1, c2, c3}
  Sticking = {}
  Server = Server
  NoProperties = NoProperties
  NoFile = NoFile
  NoType = NoType
  Dynamic = {}
  Fits <- AnyFits
  ForwardLabel <- RefersLabel
  TypeName <- NameOfType
  MaxSets = 2
  MaxStored = 4
  MaxIds = 2
SYMMETRY ClassificationSymmetry
INVARIANTS RelatedAreListed  
PROPERTY ReadOnlyKept
CHECK_DEADLOCK FALSE
