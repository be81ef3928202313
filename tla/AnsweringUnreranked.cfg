\* The reranker is on, and fails for some retrievals.
SPECIFICATION ServicesSpec
CONSTANTS
  k1 = k1
  k2 = k2
  None = None
  Deleted = Deleted
  Questions = {"q1", "q2"}
  Evidence = {"d1"}
  Threshold = 1
  Setups <- TheSetups
  Papers = {1, 2}
  TenantPapers = {1}
  Facts = {"a", "b"}
  Says <- TheSays
  Means <- TheMeans
  Shown = 1
  MaxExtracts = 2
  MaxEdits = 1
  MaxAsks = 1
  Finds <- AllFinds
  Replies <- TheReplies
  Listed <- TheLists
  RerankOn = TRUE
  AnswerLength = 2
  MaxFailures = 1
  Exchanges = {k1, k2, "another"}
  Convs = {"conv"}
  Limit = 2
  MaxTime = 1
  MaxDeletes = 1
  MemoryFacts = {"likes", "works"}
  Capacity = 1
  MaxBatch = 2
  Members = {1, 2, 3}
  Founders = {1, 2}
  Passwords = {"old", "new"}
  FirstPassword = "old"
  MaxAsked = 3
  Sections = {"index", "model"}
  KeysOf <- TheKeys
  Numbers = {"low", "high"}
  Word = "word"
  Usual = "usual"
  MaxUpdates = 3
  Askers = {"one", "other"}
  Sizes = {1}
  Quota = 1
  TenantQuota = 2
  MonthLength = 3
  MaxDays = 4
  MaxAnswers = 2
  MaxEvictions = 1
INVARIANTS
  UnreliableIsAmbiguous
CHECK_DEADLOCK FALSE
