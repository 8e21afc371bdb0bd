SPECIFICATION FairSpec
CONSTANT Entries = 0
PROPERTY AuthFailureReported
CHECK_DEADLOCK FALSE
