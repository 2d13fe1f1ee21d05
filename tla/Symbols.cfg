SPECIFICATION Spec
CONSTANTS
  f1 = f1
  f2 = f2
  f3 = f3
  PdbFiles <- ThreeFiles
  PdbLines <- TheirLines
  Nodes <- EightNodes
  Cells <- TwelveCells
INVARIANTS OneOwner AsReported AllReleased
CHECK_DEADLOCK FALSE
