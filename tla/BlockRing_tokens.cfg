SPECIFICATION Spec
CONSTANTS
  Consumers = {c1, c2}
  Null = null
  Nothing = nothing
  BlockSize = 2
  IndexSize = 16
  InitialSize = 2
  Bulks = {3}
  MaxBulk = 3
  MaxSent = 8
  MaxBlocks = 5
  MaxSize = 8
  Starts <- MCStarts
SYMMETRY ConsumerSymmetry
INVARIANTS
  TypeOK
  LookupSound
  IndexIsRing
  DestroysExactly
\* the stream is destroyed in the end
CHECK_DEADLOCK FALSE
