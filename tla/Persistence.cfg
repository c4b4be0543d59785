SPECIFICATION FairSpec
CONSTANTS
  h1 = h1
  h2 = h2
  Dumper = Dumper
  Handler <- MCHandlers
  StoreIntervals <- MCIntervals
  Routes <- MCRoutes
  MaxUpdates = 2
  MaxStarts = 2
  MaxFaults = 1
INVARIANTS TypeOK SavedStaysSaved GracefulStopSaves SyncAckIsSaved
PROPERTY EventuallySaved
CHECK_DEADLOCK FALSE
