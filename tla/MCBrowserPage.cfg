SPECIFICATION FairSpec
CONSTANTS
  MaxId = 2
  MaxVersion = 3
  MaxFlight = 2
  Opened = 2
  Stopped = Stopped
INVARIANTS
  TypeOK
PROPERTIES
  RequestReachesRowSeen
  OwnChangeShown
  SelectedRowsReached
  PageCatchesUp
