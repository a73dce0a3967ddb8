SPECIFICATION FairSpec
CONSTANTS
  Consumers = {c1, c2}
  Nothing = nothing
  MaxSent = 3
  IndexSize = 16
  BlockSize = 2
  Starts <- MCStarts
INVARIANTS
  TypeOK
  BlocksReclaimed
PROPERTIES
  PromiseSpec
  LastOneDrains
