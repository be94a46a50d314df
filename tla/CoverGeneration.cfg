SPECIFICATION FairSpec
CONSTANTS
  w1 = w1
  w2 = w2
  Workers = {w1, w2}
  MaxRetries = 1
  MaxMessages = 1
  Limits <- Once
  Kinds = 2
CHECK_DEADLOCK FALSE
INVARIANTS
  TypeOK
  CalledOncePerGrant
  PublishedIsKept
  ObjectsKnown
  CancelSchedules
  NoWorkLeftOpen
PROPERTIES
  SuccessIsFinal
  RunEnds
