CONSTANTS
  Config = {c1, c2}
  BadUrl = {c2}
  MaxRetries = 2
  LastEvent = 2
SPECIFICATION FairSpec

PROPERTIES ToldTheEnd
CHECK_DEADLOCK FALSE
