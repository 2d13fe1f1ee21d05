SPECIFICATION Spec
CONSTANTS
  WithProgram <- ProgramGiven
  Failing <- NothingFails
  HoistedLoad = FALSE
INVARIANT HaltStopsDebuggee
CHECK_DEADLOCK FALSE
