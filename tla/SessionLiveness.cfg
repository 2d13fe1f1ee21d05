SPECIFICATION FairSpec
CONSTANTS
  WithProgram <- ProgramGiven
  Failing <- FallibleCalls
  HoistedLoad = FALSE
PROPERTIES ConsoleReached ContinueUnblocks ImplementsLiveContract
CHECK_DEADLOCK FALSE
