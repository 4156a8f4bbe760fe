CONSTANTS
  MaxPorts = 2
  MaxSlots = 2
  HotUnplug = TRUE
  Faulty = TRUE
SPECIFICATION FairSpec
INVARIANTS
  TypeOK
  TurnExclusive
  OneDefaultAddress
  SlotsMatchPorts
  InFlightMatchesPhase
  ContextLoaded
PROPERTIES
  BusSpec
  PhasesAdvance
  TurnEnds
