CONSTANTS
  Invocations = {i1, i2}
  CallsEach = 1
  MaxEvents = 1
SPECIFICATION Spec
INVARIANTS OwnContext
CHECK_DEADLOCK FALSE
