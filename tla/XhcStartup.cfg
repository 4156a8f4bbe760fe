\* The pool of the code; MaxWakes = 2 lets the BIOS start and stop the
\* controller again while the driver waits.  MaxBlocks counts the
\* command and event ring too, so two blocks more.
CONSTANTS
  Bases <- PoolAddresses
  kMemoryPoolSize = 131072
  Requests <- AllRequests
  kDeviceSize = 8
  Scratchpads <- BufferCounts
  DeviceRequests <- SomeDeviceRequests
  MaxWakes = 2
  MaxBlocks = 4
SPECIFICATION Spec
INVARIANTS
  BlocksApart
  PlacedAsAsked
  ResetWhileHalted
  RunsConfigured
PROPERTIES
  StartsUp
\* Initialize and Run have returned and the bound on blocks is reached.
CHECK_DEADLOCK FALSE
