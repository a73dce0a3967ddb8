SPECIFICATION NetSpec
CONSTANTS
  a = a
  b = b
  c = c
  Devices <- FanDevices
  Links <- FanLinks
  Fed <- FanFed
  Moves <- FanMoves
  App = app
  Default = T0
  None = none
  EventCount <- FanEvents
  MaxInputs = 1
  MaxOutputs = 1
SYMMETRY ReaderSymmetry
INVARIANTS
  NetTypeOK
  OutputThenEvents
  ReachesOneReader
CHECK_DEADLOCK FALSE
