SPECIFICATION FairSpec
CONSTANTS
  Threads = {t1, t2, t3}
  Null = null
  InitialPoolSize = 1
  MaxBlocks = 2
INVARIANTS
  TypeOK
  RefsBalance
  NoneLost
PROPERTIES
  LedgerSpec
  LockFree
