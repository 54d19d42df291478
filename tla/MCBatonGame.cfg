CONSTANT Requests <- MCRequests
SPECIFICATION GameSpec
INVARIANTS StreamsDoNotClash BatonsInPlay HowItEnds
PROPERTIES EndsKeepPromise DefaultGameEnds
CHECK_DEADLOCK FALSE
