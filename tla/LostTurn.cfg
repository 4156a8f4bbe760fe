\* Three devices: one is addressed while the other two wait, and one of those
\* is unplugged meanwhile.
CONSTANTS
  MaxPorts = 3
  MaxSlots = 2
  HotUnplug = TRUE
  Faulty = FALSE
SPECIFICATION FairSpec
PROPERTY TurnPassedOn
