SPECIFICATION FairSpec
CONSTANTS
  Size = 4
  Schedule <- MCScriptLast
  Nproc = 2
  Pause = TRUE
  PopenMayFail = TRUE
  MayBeFatal = TRUE
INVARIANTS
  CollectivesMatch
  PauseHoldsEveryRank
PROPERTY Termination
CHECK_DEADLOCK FALSE
