CONSTANTS
  Invocations = {i1}
  MaxIterations = 2
  MaxRetries = 2
  MaxCalls = 2
  Boards = {{}, {"completed"}, {"blocked"}}
  InitialTasks = {"blocked"}
  Steps = 3
  Tools = {t1}
  Passes = 2
  Callers = {i1, i2}
  CallsEach = 1
  MaxEvents = 1
  Tasks = {b1, b2}
  MaxUpdates = 1
SPECIFICATION MCSpec
INVARIANTS MCTypeOK CallsAreAnswered ReminderMatchesBoard ErrorIsOwn NothingAfterEscalation MergeIsComplete
PROPERTIES LoopsEnd StreamEnds StopsWhenAsked
CHECK_DEADLOCK FALSE
