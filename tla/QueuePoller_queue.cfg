SPECIFICATION FairSpec
CONSTANTS
  Producers = {p1}
  Pollers = {k1, k2}
  Default = T0
  MaxSent = 2
INVARIANTS
  TypeOK
  NothingDropped
  PhantomNeedsRival
  NoThreadOnGonePoller
PROPERTIES
  StreamSpec
  Drains
  DestroyEnds
\* the process may end, and an application may leave everything idle
CHECK_DEADLOCK FALSE
