CONSTANTS
  Invocations <- MCInvocations
  Connections = {c1, c2}
  MaxStreams = 2
SPECIFICATION FairSpec
INVARIANTS ControllerServesItsSessions DefaultCertificateIsShared StopsOnlyIfSignalIgnored
PROPERTY ControllersGo
CHECK_DEADLOCK FALSE
