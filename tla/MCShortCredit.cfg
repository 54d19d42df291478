CONSTANTS
  Ends <- AnyEnds
  Requests <- MCRequests
  Wires <- ZeroWires
  MaxStreams = 2
SPECIFICATION HandlerSpec
INVARIANT CreditShortageIsAVerdict
CHECK_DEADLOCK FALSE
