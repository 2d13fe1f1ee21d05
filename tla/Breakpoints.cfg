SPECIFICATION Spec
CONSTANTS
  Addrs = {x, y}
  Bytes = {op1, op2}
  Nodes = {n1, n2}
  Cells = {c1, c2, c3}
  Calls <- ApiCalls
  MallocMayFail = TRUE
  DebuggeeRuns = TRUE
  MaxId = 3
SYMMETRY Alike
INVARIANTS TypeOK OnePerAddress IdsAscend OpcodeSaved Planted
CHECK_DEADLOCK FALSE
