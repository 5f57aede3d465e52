SPECIFICATION FairSpec
CONSTANTS
  MaxBlock = 2
  MaxInput = 2
  MaxEpoch = 2
  MaxFault = 1
INVARIANTS
  TypeOK
  Inductive
  InSessionHolds
PROPERTIES
  DroppedIsNeverRead
  PutInOnce
  SeatIsFreed
CHECK_DEADLOCK FALSE
