CONSTANTS
  Job = {j1, j2, j3, j4}
  CpuCount = 6
  ReservedForBackend = 1
  CpuMainMax = 3
  LastPage = 2
  MaxJobs = 2
  MaxPdfFaults = 1
  Leaf = {l1, l2, l3}
  Xref = {x1}
  PageWorkers = 2
  EarlyTarget = 2
  MaxPageFaults = 2
  ErrorRow = {e1, e2, e3, e4}
  QueueMax = 2
  Tokens = {1, 2, 5}
  MaxTexts = 5
  EmbedMaxTokens = 4
  EmbedBatchSize = 3
  AddBatchSize = 2
  MaxText = 5
  MaxTokens = 2
  PromptTokens = 255000
  CharsPerToken = 1
  FixedTokens = {180000, 230000, 254000}
  SectionSizes = {0, 510, 20000, 40000}
  TrimFloor = 500
  Suffix = 35
  TrimAttempts = 12
  BookPages = 3
  MaxChapters = 3
  BookTokens = {0, 3, 20}
  WholeTokens = 5
  MinGroups = 2
  MaxGroups = 3
  TokensPerGroup = 4
  Parts = 2
  RequestPages = 2
  LlmRetries = 1
  Asker = {a1, a2}
  Chunk = {c1, c2}
  MaxAskFaults = 1
  AccessRequest = {q1, q2}
  Approval = {p1, p2, p3}
  MaxAccessFaults = 2
  Single = {s1}
  Multi = {m1}
  MaxConnects = 3
  MaxRounds = 1
  MaxFrames = 2
  StreamJob = {u1}
  FilesJob = {f1}
  UrlJob = {w1}
  MaxRestarts = 1
  Distance = {1, 2, 3}
  Cosine = {0, 2}
  HalfTurn = 3
  MaxDistance = {1, 2, 3}
  TopK = 2
  FetchMultiplier = 2
  MaxImageCitations = 1
  MaxStored = 4
  Pages = 2
  HistoryTokens = 4
  SeparatorTokens = 1
  MessageTokens = {1, 2, 5}
  MaxMessages = 3
  MaxTags = 2
  Scanned = {d1}
  ScannedPages = 2
  PrefetchPages = 0
  MaxOcrFailures = 1
  GifMaxFrames = 6
  MaxGif = 60
  Area = {be, fe}
  Watched = {be, fe}
  Version = {0, 1}
  Broken = {1}
  MaxIterations = 2
  MaxLoops = 2
SPECIFICATION PartsSpec
SYMMETRY PartsSymmetry
CHECK_DEADLOCK FALSE
INVARIANTS
  PartsTypeOK
  SemaphoreCoversFree
  BooksBalance
  ReleaseIsHarmless
  EveryPageOnce
  FaultCostsOnePage
  ImageHasOneHome
  MissingImageIsBlamed
  NoRowForgotten
  OwnVectors
  CutTextFits
  OneSectionIsEnough
  PagesInOneGroup
  NumbersAgree
  NoBlindAnswer
  PasswordOpens
  NothingMissed
  NoHandlerLeak
  OneOutcome
  StatusFollowsJobs
  RerankIsIdle
  TagsResolve
  OcrRunsOnce
  FramesSpread
PROPERTIES
  GivesUpOnlyWhenAllLost
  ImplementsErrorLog
  RedIsFixedNext
