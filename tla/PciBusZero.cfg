CONSTANTS
  TableSize = 6
  Devices = 2
  Functions = 2
  Topologies <- MultiHost
  Bars <- SomeBars
SPECIFICATION Spec
INVARIANTS
  ScansFromBusZero
CHECK_DEADLOCK FALSE
