SPECIFICATION FairSpec
CONSTANTS
  s1 = s1
  s2 = s2
  Runtime = Runtime
  Gopsutil = Gopsutil
  Sender <- MCSenders
  Cap = 2
  Gauges = 1
  MaxPolls = 2
INVARIANTS TypeOK NoSendOnClosed NothingLost TakenInOrder PollCountInRange
PROPERTIES BacklogDrains ExitsOrWedges
CHECK_DEADLOCK FALSE
