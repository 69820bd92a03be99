SPECIFICATION Spec
CONSTANTS
  c1 = c1
  c2 = c2
  None = None
  Overflow = Overflow
  IntMax = 40
  CounterLimit = 12
  Requests = {1, 2, 3}
  Policy = "FcfsMixed"
  MaxSequences = 2
  MaxTokens = 5
  NumBlocks = 3
  BlockSize = 2
  Chunks = {c1, c2}
  HashValues <- Hashes
  RootHash <- Root
  Hash <- InjectiveHash
  PrefixEnabled = TRUE
  EpochLimit = 20
  FailureLimit = 1
  PrefillBase = 0
  PrefillPerToken = 0
  PrefillPerSequence = 0
  DecodeBase = 0
  DecodePerSequence = 0
  BatchBase = 1
  BatchPerToken = 0
  BatchPerDecode = 0
  BatchPerSequence = 0
  ArrivalTimes = {1, 3}
  Prompts <- NestedPrompts
  OutputLimits = {0, 2}
INVARIANTS StatisticsAgree
PROPERTIES EqualRequestsInOrder NoIdleWhileWorkWaits
CHECK_DEADLOCK FALSE
