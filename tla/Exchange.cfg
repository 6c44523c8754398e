SPECIFICATION Spec
CONSTANTS
  MaxAttempts = 3
  MaxTransport = 2
  Refusals <- SomeRefusals
  Answers <- SomeAnswers
  Payloads <- SomePayloads
  Shared <- SomeShared
  Numerals <- SomeNumerals
  Nothing = Nothing
  MaxMembers = 3
  MaxDmEdits = 2
  MaxImports = 2
  Worlds <- SomeWorlds
  HandMade <- HandMadeFiles
  FormatVersion = 1
  NoId = NoId
  MaxChanges = 1
  MaxEntities = 3
  Notes <- SomeNotes
  Words = {"a", "b", "c"}
  NoText = NoText
  Places = {"p1", "p2", "p3"}
  Ties = {1, 2, 3, 4, 5}
  TieTypes = {"t"}
  RELATIONSHIPS_PAGE_LIMIT = 2
  GRAPH_DEPTH_MAX = 2
  DETAIL_MAX_EDGES = 2
  LIST_ENTITIES_LIMIT = 2
  Limits = {1, 2}
  HYBRID_POOL_MULTIPLIER = 1
  HYBRID_POOL_MIN_CANDIDATES = 3
  MaxEdits = 2
  Ids = {"e1", "e2", "e3"}
  Bonds = {"b1", "b2", "b3"}
  BondTypes = {"ally"}
  Titles = {"A", "a", "B", "X"}
  Alike <- MCAlike
  SomeDrafts <- MCDrafts
  Rewrites <- MCRewrites
  GameWorlds <- MCWorlds
  MAX_ATTEMPTS = 2
  MAX_CONTEXT_EDGES = 1
  MaxMoves = 1
INVARIANTS UsageAddsUp WorldIsRebuilt NotesComeBack AnswersAreExact ReviewIsInformed RefusedForAReason
PROPERTY SafeRefresh
CHECK_DEADLOCK FALSE
CONSTRAINT OneTool
