SPECIFICATION FairSpec
CONSTANTS
  Size = 4
  Schedule <- MCSchedule
  Nproc = 2
  Pause = FALSE
  PopenMayFail = FALSE
  MayBeFatal = FALSE
INVARIANTS
  TypeOK
  PhaseIsolation
  ReportComesLast
  NeverAllWait
PROPERTIES
  TimestampSeparatesPhases
  ImplementsLockstep
CHECK_DEADLOCK FALSE
