SPECIFICATION Spec
CONSTANTS
  c1 = c1
  c2 = c2
  r1 = r1
  r2 = r2
  r3 = r3
  None = None
  Requests = {r1, r2, r3}
  Chunks = {c1, c2}
  NumBlocks = 3
  BlockSize = 2
  HashValues <- Hashes
  RootHash <- Root
  Hash <- InjectiveHash
  PrefixEnabled = TRUE
  EpochLimit = 5
  FailureLimit = 1
  Prompts <- ThreePrompts
  CountPrompts = {0, 3}
SYMMETRY Symmetry
INVARIANTS TypeOK LogicErrorsAreExplained PublishedPromptIsFound PrefixFidelity IdlePoolAdmits
PROPERTIES EvictionIsLastResort HeldBlocksAreStable
