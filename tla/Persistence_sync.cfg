SPECIFICATION Spec
CONSTANTS
  h1 = h1
  h2 = h2
  Dumper = Dumper
  Handler <- MCHandlers
  StoreIntervals <- MCSyncOnly
  Routes <- MCJSONOnly
  MaxUpdates = 2
  MaxStarts = 1
  MaxFaults = 0
INVARIANT FlushedFileReadsBack
CHECK_DEADLOCK FALSE
