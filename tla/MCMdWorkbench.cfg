SPECIFICATION Spec
CONSTANTS
  Size = 2
  Stonewall = 300
  Rates <- MCRates
  UserSize = 7
  Kinds <- MCKinds
  MaxRuns = 4
INVARIANTS
  TypeOK
  RanksAgreeOnSize
  DeletionMatchesCreation
  UndefinedOnlyWithoutObjects
CHECK_DEADLOCK FALSE
