SPECIFICATION Spec
CONSTANTS
  MaxBlock = 3
  MaxInput = 2
  MaxEpoch = 1
  MaxFault = 0
INVARIANT
  CursorPassesOnlyRead
CHECK_DEADLOCK FALSE
