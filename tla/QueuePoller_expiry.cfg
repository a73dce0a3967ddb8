SPECIFICATION Spec
CONSTANTS
  Producers = {p1}
  Pollers = {k1}
  Default = T0
  MaxSent = 1
INVARIANT
  ExpiryIsReported
\* the process may end, and an application may leave everything idle
CHECK_DEADLOCK FALSE
