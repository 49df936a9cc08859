SPECIFICATION FileSpec
CONSTANTS
  Phases <- MCPhases
  Options <- MCOptions
  Times <- MCTimes
  PopenMayFail = TRUE
  Configs <- MCConfigs
INVARIANTS
  VerifierAgreesWithRun
  OKMeansValidRun
CHECK_DEADLOCK FALSE
