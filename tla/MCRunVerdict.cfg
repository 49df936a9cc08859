SPECIFICATION Spec
CONSTANTS
  Phases <- MCPhases
  Options <- MCOptions
  Times <- MCTimes
  PopenMayFail = TRUE
INVARIANTS
  TypeOK
  FullRunIsComplete
  SummaryAgreesWithResultFile
  PhaseVerdictsDecideRun
  DryRunIsInvalid
CHECK_DEADLOCK FALSE
