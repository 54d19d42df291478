CONSTANTS
  a = a
  b = b
  c = c
  Words = Words
  Closed = Closed
  Cid <- MCCid
  Lines <- MCLines
  Fd = {3, 4, 5}
  kMaxAge = 1
  MaxTime = 3
  MaxLines = 4
SPECIFICATION Spec
INVARIANTS DescriptorsAreOwn IdleLogsAreClosed
PROPERTY LogsAreComplete
CHECK_DEADLOCK FALSE
