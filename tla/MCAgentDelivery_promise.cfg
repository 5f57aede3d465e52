SPECIFICATION FairSpec
CONSTANTS
  d1 = d1
  Newer = {d2}
  Attempts = {a1, a2}
  NoAttempt = NoAttempt
  NoSubject = NoSubject
  Targets = {"takes", "closed"}
  Deliveries <- MCDeliveries
  DeliveryOf <- MCDeliveryOf
  Subject <- MCSubject
INVARIANTS
  TypeOK
  ReadAgainOnlyAstray
  FailedReachedOnlyAstray
  ReceivedWasRead
  Inductive
PROPERTIES
  OutcomesAreFinal
  HandedOverOnce
  Resolved
