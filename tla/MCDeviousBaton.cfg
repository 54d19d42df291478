CONSTANTS
  Ends <- MCEnds
  Requests <- MCRequests
  Wires <- MCWires
  MaxStreams = 2
SPECIFICATION Spec
INVARIANTS BatonsAreConserved CleanCloseMeansAllReturned WritesAreLegal BatonsAreAnswered ReadsArePending
CHECK_DEADLOCK FALSE
