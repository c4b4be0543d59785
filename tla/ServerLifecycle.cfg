SPECIFICATION FairSpec
CONSTANTS
  c1 = c1
  c2 = c2
  NoCapture = NoCapture
  Capture <- MCTwoCaptures
  Protocols <- MCProtocols
  StoreIntervals <- MCIntervals
INVARIANTS TypeOK LastFlushMade ExitStatusTells ProfilesReadable
  DeadTransportEndsGroup
PROPERTY StopEnds
CHECK_DEADLOCK FALSE
