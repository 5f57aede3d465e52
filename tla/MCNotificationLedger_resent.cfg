SPECIFICATION Spec
CONSTANTS
  Recipients = {ann}
  Channels <- MCChannels
  Changes <- MCChanges
  MaxAttempts = 3
INVARIANT
  ResentHolds
CHECK_DEADLOCK FALSE
