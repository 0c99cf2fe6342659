SPECIFICATION Spec
CONSTANTS
  Count = 1
  Window = 2
  Retentions = {0}
  HOUR = 2
  Clock = {0}
  Latencies = {1, 9}
  COLD = 3
  K = 5
  MaxRecords = 3
PROPERTIES
  FailureLowersWeight
CHECK_DEADLOCK FALSE
