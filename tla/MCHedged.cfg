SPECIFICATION FairSpec
CONSTANTS
  s1 = s1  s2 = s2  m1 = m1  m2 = m2
  None = None
  Slots = {s1, s2}
  Members = {m1, m2}
  MAX_ATTEMPTS = 2
  MAX_IN_FLIGHT = 2
  RETRY_FLOOR = 1
  Intervals = {0, 1}
  MaxWait = 3
  MaxTime = 4
  Unwinds = TRUE
INVARIANTS
  TypeOK InFlightExact TriesAccounted NoSilentFailure NothingLeftRunning
PROPERTIES
  LosersNotCharged RetriesThrottled NoLaunchPastBudget AbandonedTasksStop ImplementsBudget
CHECK_DEADLOCK FALSE
