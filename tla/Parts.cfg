SPECIFICATION PartsSpec
CONSTANTS
  Nodes = {1, 2, 3, 4, 5}
  Ids = {1, 2, 3, 6}
  IdOf <- FiveIds
  HashOf <- SameHashes
  SizeBegin = 1
  SizeMax = 8
  Collisions = 1
  None = 0
  Conns = {1, 2, 3}
  Timeouts = {1, 2}
  MaxTime = 2
  GroupFails = FALSE
  Histories <- TwoHistories
  Failures <- OneFailure
  IPT_ARRAY_SIZE = 5
  Blocks = {1, 2, 3}
  Buckets = 3
  IPB_BEGIN = 3
  IPB_END = 8
  MaxWant = 264
  MaxHave = 288
  BodyLengths = {0, 1, 3}
  RangeEnds = {0, 1, 3, 4, 8, 14, 17}
  SsizeHalf = 8
  Uint32Size = 6
  StatusLine = 2
  HeaderLength = 4
  Lengths = {0, 1, 2, 3}
  MaxSize = 2
  BufSizes = {0, 1, 2}
  ClearsCtx = TRUE
  Texts <- SomeTexts
  MaxDeep = 1
  WordBits = 4
  Objects = {1, 2, 3, 4}
INVARIANTS LoadBounded LinkedWhileWaiting DescriptorsExact SlotsExact SlabExact
INVARIANTS ClassFits ResponseExact StoredExact KeptInSync StoresWhole
INVARIANTS ParsedAsMeant RunsAsLoaded
PROPERTIES HashIsDictionary TimerIsAlarms OnlyMassRemovalOverruns
