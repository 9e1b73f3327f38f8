SPECIFICATION FairSpec
CONSTANTS
  RelayType = "RED615"
  Nodes <- NodesRED615
  Braced <- BracedTags
  TagLists <- Lists
  N = 5
  SectionEnd <- Ends
  MaxVersion = 2
  TagStamp = 0
  WarnSlots = 1
  PrintCap = 2
CHECK_DEADLOCK FALSE
INVARIANTS
  TypeOK
  WholePassServes
  WarnedOnce
PROPERTIES
  KeepsPromise
  SignalEndsIt
  FinalValuesServed
