SPECIFICATION CacheSpec
CONSTANTS
  k1 = k1  k2 = k2  k3 = k3  small = small  big = big  huge = huge
  c1 = c1  c2 = c2
  None = None
  Callers = {c1, c2}
  Keys = {k1, k2, k3}
  Messages = {small, big, huge}
  NameLen <- MCNameLen
  WireLen <- MCWireLen
  Ttl <- MCTtl
  ENTRY_OVERHEAD = 1
  MaxBytes = 16
  MaxNow = 1
  MaxLookups = 3
INVARIANTS
  UsedExact LeastRecentFirst
PROPERTIES
  PutKept
CHECK_DEADLOCK FALSE
