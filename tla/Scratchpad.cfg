\* One device more than kDeviceSize.
CONSTANTS
  MaxPorts = 2
  MaxSlots = 1
  HotUnplug = FALSE
  Faulty = FALSE
SPECIFICATION Spec
INVARIANT ScratchpadKept
