SPECIFICATION FairSpec
CONSTANTS
  main = main
  session = session
  Threads <- BothThreads
  Main <- main
  MaxCalls = 3
INVARIANTS InColour DefaultAtRest
PROPERTIES ImplementsContract CallReturns
CHECK_DEADLOCK FALSE
