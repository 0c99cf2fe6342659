SPECIFICATION FairSpec
CONSTANTS
  h1 = h1  h2 = h2  r1 = r1  c1 = c1  list = list  exceptions = exceptions
  None = None
  Client = {}
  Callers = {h1, h2}
  Refreshers = {r1}
  Keys <- MCKeys
  Subnet = {fixed}
  Rcodes <- MCRcodes
  Messages <- MCMessages
  NameLen <- MCNameLen
  WireLen <- MCWireLen
  Ttl <- MCTtl
  ENTRY_OVERHEAD = 1
  MaxBytes = 10
  MaxNow = 1
  MaxLookups = 2
  MaxReloads = 1
  Sources = {list, exceptions}
  Contents <- MCContents
  Allowlist = {}
  Exact = {}
  Wildcard <- MCWildcard
INVARIANTS
  RepliesAreOwn CacheHoldsAnswers
PROPERTIES
  QueriesAnswered
CHECK_DEADLOCK FALSE
