SPECIFICATION Spec
CONSTANT Entries = 0
PROPERTY ReadsUntilEnd
CHECK_DEADLOCK FALSE
