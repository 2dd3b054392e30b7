SPECIFICATION Spec
CONSTANTS
  Requests = {"r1", "r2"}
  Files = {"book", "paper"}
  Programs = {"books", "papers", "bookmarks"}
  EnrichedBy <- MCEnrichedBy
  Supports <- MCSupports
  Single = {"books"}
  Enrichable <- MCEnrichable
  Extractor = "bookmarks"
  Nobody = Nobody
  NoAnswer = NoAnswer
  MaxTeams = 3
  MaxAsks = 1
INVARIANTS OneEnrichment ReplyIsKept RepliesAreOwn
PROPERTIES  FilesAreBegun
CHECK_DEADLOCK FALSE
