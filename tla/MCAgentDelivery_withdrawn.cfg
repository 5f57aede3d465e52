SPECIFICATION Spec
CONSTANTS
  d1 = d1
  Newer = {}
  Attempts = {a1, a2}
  NoAttempt = NoAttempt
  NoSubject = NoSubject
  Targets = {"takes", "unseated", "closed"}
  Deliveries <- MCDeliveries
  DeliveryOf <- MCDeliveryOf
  Subject <- MCSubject
INVARIANT
  ReadAtMostOnce
