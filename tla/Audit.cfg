SPECIFICATION FairSpec
CONSTANTS
  r1 = r1
  r2 = r2
  None = None
  Request <- MCRequests
  Publishers <- MCPublishers
INVARIANTS TypeOK AuditedHappened RecordedUnlessReported
PROPERTY EveryRequestEnds
CHECK_DEADLOCK FALSE
