CONSTANTS
  Invocation = {i1, i2}
  Agent = {root, helper}
  Root = root
  Stranger = stranger
  Nobody = nobody
  Layers = 1
  MaxLog = 6
SPECIFICATION Spec
PROPERTIES CompactionFollowsStream
CHECK_DEADLOCK FALSE
