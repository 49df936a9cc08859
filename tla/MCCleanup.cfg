SPECIFICATION Spec
CONSTANTS
  Size = 3
  Configs <- MCConfigs
  MaxRuns = 3
INVARIANTS
  TypeOK
  NothingRemovableIsLeft
  DirectoryIsLeftOnlyByRace
PROPERTY DryRunRemovesNothing
CHECK_DEADLOCK FALSE
