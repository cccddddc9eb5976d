SPECIFICATION Spec
CONSTANTS
  t1 = t1
  t2 = t2
  Thread = {t1, t2}
  NoThread = NoThread
  NXC_MAX_BLOCKS = 2
  NXC_MIN_BLOCKS = 1
  NXC_WB_RESERVE = 1
  FileBlocks = 2
  ClusterBlocks = 2
  FatBlocks = 1
  FatOf <- MCFatOf
  Maps = {0}
  MaxOpen = 1
  Value <- FileValue
  IoFails <- MostFail
  Calls <- TwoThreads
INVARIANTS TableExact RefsExact NoOrphan
PROPERTIES FlushDurable RefinesFileStore
CHECK_DEADLOCK FALSE
