CONSTANTS
  Invocations <- SequentialInvocations
  Existing = {}
  MaxPushes = 0
  MaxStreams = 1
  MaxTries = 1
  MaxChunks = 0
  Faults = {}
SPECIFICATION Spec
INVARIANT ChainKeepsItself
CHECK_DEADLOCK FALSE
