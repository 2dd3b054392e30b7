SPECIFICATION TypesSpec
CONSTANTS
  association = association
  cites = cites
  bookmark = bookmark
  super = super
  mail = mail
  player = player
  reader = reader
  Types = {association, cites, bookmark}
  Association = association
  Supertype = super
  ConfigsOf <- ConfigsOfType
  Kinds <- AllKinds
  Labels <- OnlyLabels
  Finders = {player, reader}
  Declares <- DeclaredBy
  Reads <- ReadBy
  Mappings <- MappingsOf
  DefaultType <- DefaultOf
  Replies <- RepliesOf
  Apps = {mail}
  Absent = Absent
  NoConfig = NoConfig
  Unreadable = Unreadable
  NoProgram = NoProgram
  NoType = NoType
  NoReply = NoReply
  Messages <- AllMessages
  MappedName <- AttributeOf
  NoItemId = NoItemId
  NewItemId = NewItemId
  MaxDepth = 3
INVARIANTS TemplatesAgree ItemsAreRelations
PROPERTIES ChosenProgramStays ToldTypesOpen
