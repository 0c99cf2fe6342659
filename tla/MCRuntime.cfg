SPECIFICATION LifeFairSpec
CONSTANTS
  Holders = {pipeline}
  Pipeline = pipeline
  Owner = owner
  Handlers = {p1, p2}
  WORKER_CAPACITY = 2
  MAX_BATCH_SIZE = 2
  MaxEvents = 3
  DRAIN_TIMEOUT = 1
  SERVICE_SHUTDOWN_TIMEOUT = 2
  V4 = {3, 4}
  V6 = {6}
  Foreign = {9}
  Configs <- MCConfigs
  Bits <- MCBits
  Urls <- MCUrls
  Lengths = {0, 1, 3}
  MAX_BODY = 2
  MAX_REDIRECTS = 2
  MAX_RETENTION_DAYS = 2
INVARIANTS
  HistoryExact FlushedUnlessTimer NothingTurnedAway WholeIfMarked BuiltAsConfigured
PROPERTIES
  WorkerStops RunReturns StartupEnds
CHECK_DEADLOCK FALSE
