SPECIFICATION FairSpec
CONSTANTS
  s1 = s1
  s2 = s2
  Runtime = Runtime
  Gopsutil = Gopsutil
  Sender <- MCSenders
  Cap = 2
  Gauges = 1
  MaxPolls = 2
PROPERTY ShutdownCompletes
CHECK_DEADLOCK FALSE
