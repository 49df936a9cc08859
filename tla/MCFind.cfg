SPECIFICATION FairSpec
CONSTANTS
  Size = 3
  Sections <- MCSections
  MayDisagree = TRUE
INVARIANTS
  TypeOK
  NoMessageLeftBehind
  NeverAllWait
PROPERTIES
  Termination
  ImplementsFindService
CHECK_DEADLOCK FALSE
