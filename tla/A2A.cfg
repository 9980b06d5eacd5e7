CONSTANTS
  Task = {t1, t2}
  Subscriber = {s1}
  MaxTasks = 1
  MaxEvents = 1
  StoreTask = {t1, t2, t3, t4}
  StoreCapacity = 2
  Limit = 0
  Config = {c1, c2}
  BadUrl = {c2}
  MaxRetries = 2
  LastEvent = 2
  ClientEvents = 3
SPECIFICATION MCFairSpec
INVARIANTS MCTypeOK CompletionIsTrue UnusedTaskIsListed TellsTheRemoteRun
PROPERTIES AcceptedIsSettled
CHECK_DEADLOCK FALSE
