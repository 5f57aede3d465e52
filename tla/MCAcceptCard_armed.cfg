SPECIFICATION Spec
CONSTANTS
  Person = {p1}
  NoOne = NoOne
  MaxHead = 2
  MaxFault = 0
INVARIANT
  ArmedMergesSeen
CHECK_DEADLOCK FALSE
