CONSTANTS
  Clients <- MCClients
  MaxStreams = 2
  MaxBytes = 2
  MaxRequests = 2
  MaxSends = 2
SPECIFICATION FairSpec
INVARIANTS OneSession CountersAreForOpenStreams NumbersAreUnique PageLearnsItsLengths
PROPERTIES CountsForItsClients EverySendIsAnswered
CHECK_DEADLOCK FALSE
