SPECIFICATION Spec
CONSTANTS
  r1 = r1  r2 = r2  r3 = r3
  Free = Free
  Requests = {r1, r2, r3}
  Http3s = {TRUE, FALSE}
SYMMETRY Symmetry
INVARIANTS
  ConnTypeOK LockOnlyConnecting
PROPERTIES
  RetryOnFresh H3GivesUpForCause
CHECK_DEADLOCK FALSE
