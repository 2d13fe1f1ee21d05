SPECIFICATION Spec
CONSTANTS
  Lists = {breakPointList, sourceFileList}
  Data = {d1, d2}
  Nodes = {n1, n2, n3, n4}
  Cells = {c1, c2, c3, c4}
SYMMETRY Addresses
INVARIANT WellLinked
PROPERTIES LeakSources ImplementsContract
CHECK_DEADLOCK FALSE
