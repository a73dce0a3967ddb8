SPECIFICATION FairSpec
CONSTANTS
  Clients = {c1}
  Workers = {w1, w2}
  Handler = h
  PoolSize = 2
  States <- MCLoopStates
  Unknown = {}
  Transitions <- MCLoop
  MaxPending = 1
PROPERTIES
  StopReturns
  EventsRun
\* the machine is destroyed, or the process ends
CHECK_DEADLOCK FALSE
