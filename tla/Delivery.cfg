SPECIFICATION Spec
CONSTANTS
  s1 = s1
  s2 = s2
  Sender <- MCTwoSenders
  Protocols <- MCProtocols
  Bodies <- MCBodies
  MaxRetry = 2
  MaxCalls = 2
SYMMETRY MCSymmetry
INVARIANTS TypeOK DuplicateNeedsLostAnswer 
PROPERTIES DeliversAtLeastOnce StaleOnlyWhenLate
CHECK_DEADLOCK FALSE
