SPECIFICATION Spec
CONSTANTS
  MaxEntries = 3
  Reader = {r1}
INVARIANT MarkerValid
CHECK_DEADLOCK FALSE
