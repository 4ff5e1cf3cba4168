CONSTANTS
  Areas = {"mail", "page", "quote", "draft", "extraction", "search", "answer", "dialogue"}
  Pending = Pending
  None = None
  Nothing = Nothing
  MaxTokens = 2
  Overlap = 1
  PageTokens = 2
  PageOverlap = 1
  Key <- Names
  Mine = Mine
  CandidateLimit = 3
  FusedTopK = 2
  EvidenceTopK = 2
  GraphLimit = 2
  TemporalLimit = 2
  MinSupport = 550
  Parts <- PiecesOf
  Stem <- StemOf
  Files = {"a.pdf", "b.pdf"}
  MaxQueryWords = 4
  Entities = {"$5", "ann", "bob", "a.pdf", "b.pdf", "date1", "date2", "date3"}
  FileNames = {"a.pdf", "b.pdf"}
SPECIFICATION Spec
INVARIANTS TextIsKept QuotesAreReal EvidenceIsInScope AnswersAreCited QueriesAreResolved
CHECK_DEADLOCK FALSE
