SPECIFICATION FairSpec
CONSTANTS
  Names = {a, b}
  Bytes = {1}
  Packet = 1
  MaxLen = 2
  CallerAttributes <- SomeAttributes
INVARIANT TypeOK
PROPERTIES TransfersTrue AttributesRoundTrip KeepsPromise OperationsEnd
CHECK_DEADLOCK FALSE
