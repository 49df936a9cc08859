SPECIFICATION Spec
CONSTANTS
  Phases <- MCPhases
  Options <- DebugOptions
  Times <- MCTimes
  PopenMayFail = FALSE
INVARIANT DebugOptionsInvalidateRun
CHECK_DEADLOCK FALSE
