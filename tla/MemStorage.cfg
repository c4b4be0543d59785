SPECIFICATION FairSpec
CONSTANTS
  p1 = p1
  p2 = p2
  p3 = p3
  g = g
  c = c
  x = x
  y = y
  None = None
  Absent = Absent
  Proc <- MCProcs
  GaugeName <- MCGauges
  CounterName <- MCCounters
  GaugeValue <- MCValues
  Delta <- MCDelta
  Half <- MCHalf
  MaxRetry = 3
  Restored <- MCRestored
  MaxUpdates = 2
INVARIANTS TypeOK NoConcurrentMapAccess TableRebuildsStore
PROPERTIES Linearizable EveryCallReturns
