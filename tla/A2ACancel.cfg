CONSTANTS
  Task = {t1, t2}
  Subscriber = {s1}
  MaxTasks = 2
  MaxEvents = 1
SPECIFICATION Spec
PROPERTIES TerminalIsFinal
CHECK_DEADLOCK FALSE
