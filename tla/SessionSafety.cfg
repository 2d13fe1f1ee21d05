SPECIFICATION Spec
CONSTANTS
  WithProgram <- AnyCommandLine
  Failing <- FallibleCalls
  HoistedLoad = TRUE
INVARIANTS TypeOK NoUnregisteredCall SessionOutlivesUse QuitPrecedesTeardown
  EventAccounting TeardownComplete
  FaultOnlyWithoutSession
PROPERTIES QuitLostOnlyInHandling ImplementsContract
CHECK_DEADLOCK FALSE
