\* Three map changes of the firmware are one more than the loader's two
\* attempts to leave it can meet.
CONSTANTS
  Kernels <- SmallKernels
  PageSize = 4
  MemSize = 20
  EntryOffset = 2
  MaxChanges = 3
  Formats = {"RGB", "BGR", "BltOnly"}
SPECIFICATION Spec
INVARIANTS
  WritesOwnPages
  KernelStartsClean
PROPERTIES
  BootEnds
\* The kernel never comes back; Halt does not either.
CHECK_DEADLOCK FALSE
