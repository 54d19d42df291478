CONSTANTS
  Requests <- MCRequests
  MaxBodies = 2
  MaxStreams = 2
  MaxBytes = 2
SPECIFICATION Spec
INVARIANTS ResponseIsLegal TestAnswersAtFin
CHECK_DEADLOCK FALSE
