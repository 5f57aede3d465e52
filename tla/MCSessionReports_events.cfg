SPECIFICATION Spec
SYMMETRY Interchangeable
CONSTANTS
  Backends = {b1, b2}
  Page = 2
  MaxEpoch = 3
  MaxProc = 2
  MaxSeq = 3
  MaxFaults = 2
INVARIANTS
  TypeOK
  AppliedOnceInOrder
  NothingLost
  RunsAgree
  ExitOfRegistered
  Inductive
PROPERTY
  HeardOnce
CHECK_DEADLOCK FALSE
