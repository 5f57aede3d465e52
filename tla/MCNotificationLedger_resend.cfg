SPECIFICATION FairSpec
CONSTANTS
  Recipients = {ann, bob}
  Channels <- MCChannels
  Changes <- MCChanges
  MaxAttempts = 3
INVARIANTS
  TypeOK
  SentMeansDelivered
  ToldOnce
  SaysNowOtherwise
  Inductive
PROPERTY
  Resolved
CHECK_DEADLOCK FALSE
