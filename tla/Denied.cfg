CONSTANTS
  MaxTyped = 1
  MaxWork = 2
  Command = command
SPECIFICATION Spec
INVARIANTS DeniedIsNotRun
CHECK_DEADLOCK FALSE
