SPECIFICATION Spec
CONSTANTS
  Threads = {t1}
  Pids = {p1, p2}
  NoProc = NoProc
  Names = {1, 2}
  SuggestCount = 2
  Stems = {1, 2}
  StemOf <- OwnStem
  Vals = {v0}
  DefaultVals = v0
  NoFile = NoFile
  RangeSets = {g0}
  DefaultRanges = g0
  Adapters = {a0}
  Ips = {5, 6}
  FirstOctet = 5
  MaxRows = 2
  MaxId = 2
  Stored <- StoredTwo
  Forms <- OnOff
  ImportFiles <- ImportAny
  BadPayloads = TRUE
  StopMayFail = TRUE
  UnlinkMayFail = TRUE
  DistinctNames = TRUE
CHECK_DEADLOCK FALSE
SYMMETRY Symmetry
INVARIANTS
  TypeOK
  NoStrayRelay
  OneOwner
  ShownAsRunning
