CONSTANTS
  IncreaseStep = 2
  MaxBlocks = 3
  PreallocNum <- MCPreallocNum
SPECIFICATION Spec
INVARIANTS TypeOK ListSound CountsMatch BlocksFreedOnce
PROPERTY PoolSpec
CHECK_DEADLOCK FALSE
