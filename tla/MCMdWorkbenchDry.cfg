SPECIFICATION Spec
CONSTANTS
  Size = 2
  Stonewall = 300
  Rates <- MCRates
  UserSize = 7
  Kinds <- DryKinds
  MaxRuns = 4
INVARIANT DeletionMatchesCreation
CHECK_DEADLOCK FALSE
