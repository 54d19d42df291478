CONSTANTS
  Ends <- MCEnds
  Requests <- MCRequests
  Wires <- MCWires
  MaxStreams = 10
SPECIFICATION HandlerSpec
INVARIANTS ResponseEndsOnce StartsAsRequested
PROPERTIES DrivesDeviousBaton KeepsSessionPromise
CHECK_DEADLOCK FALSE
