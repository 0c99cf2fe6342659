SPECIFICATION Spec
CONSTANTS
  h1 = h1  h2 = h2
  Holders = {h1}
  Owner = Owner
  WORKER_CAPACITY = 2
  MAX_BATCH_SIZE = 2
  MaxEvents = 2
INVARIANTS
  FlushedOnStop
CHECK_DEADLOCK FALSE
