SPECIFICATION Spec
CONSTANTS
  c1 = c1
  c2 = c2
  r1 = r1
  r2 = r2
  r3 = r3
  None = None
  Requests = {r1, r2}
  Chunks = {c1, c2}
  NumBlocks = 3
  BlockSize = 2
  HashValues <- Hashes
  RootHash <- Root
  Hash <- InjectiveHash
  PrefixEnabled = TRUE
  EpochLimit = 6
  FailureLimit = 1
  Prompts <- NestedPrompts
  CountPrompts = {3}
SYMMETRY Symmetry
INVARIANTS NoLogicError
