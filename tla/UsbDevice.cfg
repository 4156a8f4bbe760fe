\* The code's own sizes.  The device with 15 endpoint numbers fills the ring
\* (30 of 31 TRBs) and wraps it, and has more requests than the waiters'
\* table has slots.
CONSTANTS
  RingSize = 32
  MapSize = 16
  WaiterSize = 4
  Configurations <- AllConfigurations
  Speeds = {"full", "high"}
  Reports <- AllReports
  Buffers <- AllBuffers
  Faulty = TRUE
SPECIFICATION Spec
INVARIANTS
  SetupStageKept
  RequestMatchesPhase
  OwnEndpoints
  ServedAsAsked
  KeepsPolling
PROPERTIES
  ReportsInOrder
  KeyEdges
\* A failed transfer, a wrong descriptor or an unsupported device ends the
\* conversation.
CHECK_DEADLOCK FALSE
