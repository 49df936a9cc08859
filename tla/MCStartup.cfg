SPECIFICATION FairSpec
CONSTANTS
  Jobs <- MCJobs
  Size = 2
  Starts <- MCStarts
  MaxClock = 1
  strftime <- MCSeconds
INVARIANTS
  TypeOK
  RanksAgree
  RunsTogether
  FatalOnlyByRace
PROPERTY StartupEnds
CHECK_DEADLOCK FALSE
