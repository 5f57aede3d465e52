SPECIFICATION Spec
SYMMETRY Interchangeable
CONSTANTS
  Backends = {b1, b2}
  Page = 2
  MaxEpoch = 2
  MaxProc = 2
  MaxSeq = 4
  MaxFaults = 0
INVARIANT
  ExitEndsItsOwnSession
CHECK_DEADLOCK FALSE
