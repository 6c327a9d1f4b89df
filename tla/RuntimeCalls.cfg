\* Two calls, two root slots, one slot in each pool, calls nested two deep.
CONSTANTS
  c1 = c1
  c2 = c2
  Calls = {c1, c2}
  CallKinds <- SomeKinds
  None = None
  MaxConcurrentExecutions = 2
  PoolSize = 1
  MaxNestedDepth = 2
  MaxTotalWork = 2
  MaxOthers = 1
  MaxPools = 2
SPECIFICATION FairSpec
INVARIANTS
  ResourcesAccounted
  AnswerTellsCommit
PROPERTIES
  ImplementsExecutions
  CallsReturn
CHECK_DEADLOCK FALSE
