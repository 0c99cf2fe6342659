SPECIFICATION Spec
CONSTANTS
  h1 = h1  h2 = h2  r1 = r1  c1 = c1  list = list  exceptions = exceptions
  None = None
  Client = {c1}
  Callers = {h1}
  Refreshers = {r1}
  Keys <- MCKey
  Subnet = {}
  Rcodes <- MCRcodes
  Messages <- MCMessages
  NameLen <- MCNameLen
  WireLen <- MCWireLen
  Ttl <- MCTtl
  ENTRY_OVERHEAD = 1
  MaxBytes = 10
  MaxNow = 1
  MaxLookups = 3
  MaxReloads = 1
  Sources = {}
  Contents <- MCContents
  Allowlist = {}
  Exact = {}
  Wildcard <- MCWildcard
INVARIANTS
  ClientSubnetStripped
CHECK_DEADLOCK FALSE
