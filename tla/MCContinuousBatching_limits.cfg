SPECIFICATION Spec
CONSTANTS
  c1 = c1
  c2 = c2
  None = None
  Overflow = Overflow
  IntMax = 8
  CounterLimit = 10
  Requests = {1, 2}
  Policy = "DecodeFirst"
  MaxSequences = 2
  MaxTokens = 3
  NumBlocks = 2
  BlockSize = 2
  Chunks = {c1, c2}
  HashValues <- Hashes
  RootHash <- Root
  Hash <- InjectiveHash
  PrefixEnabled = TRUE
  EpochLimit = 6
  FailureLimit = 1
  PrefillBase = 0
  PrefillPerToken = 0
  PrefillPerSequence = 0
  DecodeBase = 0
  DecodePerSequence = 0
  BatchBase = 1
  BatchPerToken = 0
  BatchPerDecode = 0
  BatchPerSequence = 0
  ArrivalTimes = {0, 3}
  Prompts <- LargePrompts
  OutputLimits = {0, 2}
INVARIANTS TypeOK OutcomeIsTrue
PROPERTIES EveryRequestEnds
CHECK_DEADLOCK FALSE
