\* Over-current and port-disabled changes stand for those the driver does
\* not know; the link in two states of different bits.
CONSTANTS
  OtherChanges = {18, 20}
  LinkStates = {{5, 7}, {5, 6, 7}, {}}
SPECIFICATION Spec
PROPERTIES
  AtomicPort
  WaitEnds
