SPECIFICATION FairSpec
CONSTANTS
  w1 = w1
  w2 = w2
  b1 = b1
  b2 = b2
  Workers <- MCWorkers
  MaxAttempts = 3
  Browsers <- MCBrowsers
  Mailbox = Mailbox
INVARIANTS
  OneSenderPerLease
  TwiceOnlyUnseen
  SentOrVacant
  Inductive
PROPERTIES
  OutcomesAreFinal
  Resolved
CHECK_DEADLOCK FALSE
