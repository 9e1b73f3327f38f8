SPECIFICATION Spec
CONSTANTS
  RelayType = "RED615"
  Nodes <- NodesRED615
  Braced <- BracedTags
  TagLists <- JustDefault
  N = 5
  SectionEnd <- Ends
  MaxVersion = 2
  TagStamp = 0
  WarnSlots = 1
  PrintCap = 2
CHECK_DEADLOCK FALSE
INVARIANT DefaultWordsKnown
