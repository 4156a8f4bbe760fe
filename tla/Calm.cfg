\* Three ports, enough slots, nothing is unplugged and nothing fails.
CONSTANTS
  MaxPorts = 3
  MaxSlots = 3
  HotUnplug = FALSE
  Faulty = FALSE
SPECIFICATION FairSpec
INVARIANTS
  NoLostTurn
PROPERTIES
  EveryPortConfigured
