SPECIFICATION Spec
CONSTANTS
  Consumers = {c1, c2}
  Null = null
  Garbage = garbage
  BlockSize = 2
  IndexSize = 16
  InitialCapacity = 2
  MaxSent = 9
  Bulks = {3}
  MaxBulk = 3
  MaxCapacity = 8
  Starts <- MCStarts
SYMMETRY ConsumerSymmetry
INVARIANTS
  TypeOK
  LookupSound
  NothingLeaks
  DestroyedOnce
\* the stream is destroyed in the end
CHECK_DEADLOCK FALSE
