\* Machines of three buses; a table of 6 is too small for the larger ones and
\* for every machine whose bridges lead back.
CONSTANTS
  TableSize = 6
  Devices = 2
  Functions = 2
  Topologies <- Machines
  Bars <- SomeBars
SPECIFICATION Spec
INVARIANTS
  ScanIsComplete
  PortsRouted
PROPERTIES
  ScanTerminates
\* KernelMain goes on to the controller or halts.
CHECK_DEADLOCK FALSE
