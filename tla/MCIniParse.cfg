SPECIFICATION Spec
CONSTANTS
  Names <- MCNames
  Vals <- MCVals
  Sections <- MCSections
  Texts <- MCTexts
  Lower <- MCLower
  Matches <- MCMatches
  Truth <- MCTruth
  Number <- MCNumber
  INT_MAX = 127
  LLONG_MAX = 32767
  Float <- MCFloat
  UnsetFloat = 100
INVARIANTS
  TypeOK
  ParsedAsWritten
  ErrorAtFirstBadLine
  EachLineCalledOnce
  UnsetMeansNoValue
  ConfigIniReadsBack
CHECK_DEADLOCK FALSE
