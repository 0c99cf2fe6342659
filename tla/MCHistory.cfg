SPECIFICATION StoreSpec
CONSTANTS
  o1 = o1
  o2 = o2
  o3 = o3
  p1 = p1
  p2 = p2
  Openers = {o1, o2, o3}
  Processes = {p1, p2}
  Process <- MCProcess
  Files <- MCFiles
  NoOpener = NoOpener
  NoProcess = NoProcess
  MaxRestarts = 1
  HOUR = 2
  DAY = 4
  Retentions = {0, 1, 2}
  HOURLY_DAYS = 1
  TREND_DAYS = 2
  Clock = {1, 7, 10}
  Addresses = {a1}
  Events <- MCEvents
  Pages <- MCPages
  MAX_QUERY_PAGE_SIZE = 2
  I64_MAX = 7
  Requests = {q1, q2}
  Permits = 1
  MaxRows = 2
SYMMETRY Symmetry
INVARIANTS
  TotalsMatchDetails TrendCoversWindow AddressesAreOwn ReadsLimited StatusIsHonest FileSurvives RefusedForCause
CHECK_DEADLOCK FALSE
