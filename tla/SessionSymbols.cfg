SPECIFICATION Spec
CONSTANTS
  WithProgram <- ProgramGiven
  Failing <- NothingFails
  HoistedLoad = FALSE
INVARIANT SymbolsFreed
CHECK_DEADLOCK FALSE
