SPECIFICATION FairSpec
CONSTANTS
  MaxWait = 2
  QueryTimeouts = {0, 1, 2, 3, 4, 6}
  MaxTime = 7
INVARIANTS
  OneEngine
PROPERTIES
  FailureSpendsBudget QueryEnds
CHECK_DEADLOCK FALSE
