SPECIFICATION FairSpec
CONSTANTS
  N = 5
  SectionEnd <- FiveTags
  MaxVersion = 4
  WriteCells = 2
  ReadCells = 6
  DistinctStamps = TRUE
  OneWritePerRead = TRUE
CHECK_DEADLOCK FALSE
INVARIANTS
  TypeOK
  StampMeansServed
PROPERTIES
  NeverGoesBack
  KeepsPromise
  FinalValuesServed
