\* Two laps of a ring differ only in the cycle bit, so a command ring of 4 slots
\* with at most 2 commands outstanding, an event ring of 3 and numbers modulo 5
\* show every combination of the four positions.
CONSTANTS
  Size = 4
  MaxPending = 2
  Count = 5
  SegmentSize = 3
  Events <- AllEvents
  NoEvent <- Nowhere
SPECIFICATION Spec
INVARIANTS
  TypeOK
  IssuerKept
PROPERTIES
  RingImplementsFifo
  EventsImplementFifo
  AnsweredInOrder
  EveryCommandAnswered
