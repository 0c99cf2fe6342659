SPECIFICATION Spec
CONSTANTS
  r1 = r1  r2 = r2  r3 = r3
  Free = Free
  Requests = {r1, r2}
  Http3s = {FALSE}
SYMMETRY Symmetry
PROPERTIES
  GivesUpForCause
CHECK_DEADLOCK FALSE
