SPECIFICATION ImplicitSpec
CONSTANTS
  Consumers = {c1, c2}
  BLOCK_SIZE = 2
  MAX_SUBQUEUE_SIZE = 4
  INITIAL_INDEX_SIZE = 2
  RECYCLE_ALLOCATED_BLOCKS = FALSE
  ConstructorMayThrow = TRUE
  InitialBlocks = 2
  DynamicBlocks = {d1}
  NoBlock = NoBlock
  BulkCounts = {3}
  ServedItems = 2
  MaxItems = 7
  MaxClaims = 5
  MaxIndexSize = 4
INVARIANTS
  ClaimedItemsAreFound
  BlockHasOneHolder
  QuietQueueIsComplete
SYMMETRY Alike
CHECK_DEADLOCK FALSE
