CONSTANTS
  Invocations = {i1}
  MaxIterations = 2
  MaxRetries = 1
  MaxCalls = 1
  Boards = {{}}
  InitialTasks = {}
SPECIFICATION Spec
PROPERTIES EndIsObeyed
CHECK_DEADLOCK FALSE
