CONSTANTS
  Invocation = {i1, i2}
  Agent = {root, helper}
  Root = root
  Stranger = stranger
  Nobody = nobody
  MaxLog = 5
  Layers = 2
  Compactors = {i1, i2}
  Threshold = 3
  Retention = 2
  MaxChars = 2
  MaxEvents = 5
  Branches = {i1, i2}
  Signers = {d1}
  MaxCalls = 2
  MaxSigned = 3
  MaxTyped = 3
  MaxWork = 4
  Slash = slash
  MaxTexts = 2
  MaxLines = 3
  SpillThreshold = 1
  TailLines = 1
  MaxTurns = 3
  TurnEvents = 2
  MaxCommands = 3
SYMMETRY Symmetry
SPECIFICATION MCSpec
INVARIANTS MCTypeOK HandoffIsFollowed HooksArePaired SummariesReplaceExactly HistoryIsWellFormed VerifiedIsPrefix HonestIsVerified QueueHasAWorker LinesFollowTheirMessage PromptsGetTheirAnswer TextIsShownOnce CommandsKeepTheRest
CHECK_DEADLOCK FALSE
