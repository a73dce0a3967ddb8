SPECIFICATION Spec
CONSTANTS
  Clients = {c1}
  Workers = {w1, w2, w3}
  Handler = h
  PoolSize = 1
  States <- MCStates
  Unknown = {"unknown"}
  Transitions <- MCTransitions
  MaxPending = 1
SYMMETRY WorkerSymmetry
INVARIANTS
  TypeOK
  StopQuiesces
  ActiveIsStoppable
  EndsWell
\* the machine is destroyed, or the process ends
CHECK_DEADLOCK FALSE
