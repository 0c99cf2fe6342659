SPECIFICATION Spec
CONSTANTS
  Count = 2
  Window = 2
  Retentions = {0, 3}
  HOUR = 2
  Clock <- MCClock
  Latencies = {1, 9}
  COLD = 3
  K = 5
  MaxRecords = 3
INVARIANTS
  SnapshotExact PicksByWeight
CHECK_DEADLOCK FALSE
