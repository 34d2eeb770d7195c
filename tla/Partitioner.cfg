SPECIFICATION Spec
CONSTANTS
  a = a
  b = b
  c = c
  d = d
  Calls <- SomeCalls
  Lists <- SomeLists
  Cap = 4
  Keyed = {a, b, d}
INVARIANTS TypeOK ExactPartition NoPanic IInv
PROPERTY Returns
CHECK_DEADLOCK FALSE
