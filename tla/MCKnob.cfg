CONSTANTS
  Invocations <- KnobInvocations
  Connections = {c1}
  MaxStreams = 2
SPECIFICATION Spec
INVARIANT KnobIsSent
CHECK_DEADLOCK FALSE
