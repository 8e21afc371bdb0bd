SPECIFICATION Spec
CONSTANTS
  Fields <- MCFields
  MaxFields = 5
INVARIANT TooFewRejected
CHECK_DEADLOCK FALSE
