SPECIFICATION Spec
CONSTANTS
  Consumers = {c1, c2}
  TokenUsers <- MCTokenUsers
  Sample = 2
  Quota = 2
  OffsetSize = 8
  Offsets = {7}
  Bulks = {2}
  MaxProducers = 3
  MaxSent = 2
  MaxTokens = 2
SYMMETRY ConsumerSymmetry
INVARIANTS
  TypeOK
  RotatesAtQuota
PROPERTY
  EmptyIsTrue
