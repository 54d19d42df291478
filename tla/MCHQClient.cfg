CONSTANTS
  Invocations <- MCInvocations
  Existing <- MCExisting
  MaxPushes = 1
  MaxStreams = 3
  MaxTries = 2
  MaxChunks = 2
  Faults = {"transaction", "goaway", "connection"}
SPECIFICATION FairSpec
INVARIANTS CallbackFindsWork EndsOnceWithTheFile SessionUsedWhileAlive
PROPERTIES KeepsItsQueue ParallelSendsAll RequestEnds SavedResponses
CHECK_DEADLOCK FALSE
