SPECIFICATION FairSpec
CONSTANTS
  t1 = t1
  t2 = t2
  t3 = t3
  Threads <- MCThreads
  Hash <- MCHash
  Empty = empty
  InitialHashSize = 4
  MaxHashSize = 16
  MaxProducers = 3
  TokenUsers <- MCTokenUsers
INVARIANTS
  TypeOK
  OneStreamEach
  ListComplete
PROPERTIES
  CallsReturn
