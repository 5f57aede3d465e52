SPECIFICATION FairSpec
CONSTANTS
  Person = {p1}
  NoOne = NoOne
  MaxHead = 2
  MaxFault = 1
INVARIANTS
  TypeOK
  BookedIsTrue
  ClickMergesSeen
  Inductive
PROPERTIES
  DecidedStands
  MergeIsBooked
  ArmedIsAnswered
CHECK_DEADLOCK FALSE
