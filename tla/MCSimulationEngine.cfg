SPECIFICATION Spec
CONSTANTS
  None = None
  Overflow = Overflow
  IntMax = 11
  CounterLimit = 9
  Requests = {1, 2, 3}
  MaxActive = 1
  PrefillBase = 1
  PrefillPerToken = 1
  PrefillPerSequence = 0
  DecodeBase = 1
  DecodePerSequence = 0
  BatchBase = 0
  BatchPerToken = 1
  BatchPerDecode = 2
  BatchPerSequence = 1
  Submissions <- Mixed
INVARIANTS TypeOK RecordsAgree TokensOnSchedule CostsAreExact
PROPERTIES ImplementsServer EveryRequestEnds
CHECK_DEADLOCK FALSE
