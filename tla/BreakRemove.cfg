SPECIFICATION Spec
CONSTANTS
  Addrs = {x, y}
  Bytes = {op1, op2}
  Nodes = {n1, n2}
  Cells = {c1, c2}
  Calls <- RemoveCalls
  MallocMayFail = FALSE
  DebuggeeRuns = FALSE
  MaxId = 2
SYMMETRY Alike
INVARIANT OriginalRestored
CHECK_DEADLOCK FALSE
