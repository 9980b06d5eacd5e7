CONSTANTS
  Invocation = {i1, i2}
  Threshold = 3
  Retention = 2
  MaxChars = 2
  MaxEvents = 5
SPECIFICATION Spec
INVARIANTS RetentionIsKept
CHECK_DEADLOCK FALSE
