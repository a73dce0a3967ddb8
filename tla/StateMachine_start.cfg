SPECIFICATION FairSpec
CONSTANTS
  Clients = {c1}
  Workers = {w1}
  Handler = h
  PoolSize = 1
  States <- MCLoopStates
  Unknown = {}
  Transitions <- MCLoop
  MaxPending = 1
PROPERTY
  StartTakesEffect
\* the machine is destroyed, or the process ends
CHECK_DEADLOCK FALSE
