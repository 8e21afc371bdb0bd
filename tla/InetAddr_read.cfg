SPECIFICATION Spec
CONSTANTS
  Fields <- MCFields
  MaxFields = 5
INVARIANTS TypeOK DottedQuadRead MalformedRejected
CHECK_DEADLOCK FALSE
