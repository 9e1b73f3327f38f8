SPECIFICATION Spec
CONSTANTS
  Threads = {t1, t2}
  Pids = {p1}
  NoProc = NoProc
  Names = {1, 2}
  SuggestCount = 2
  Stems = {1, 2}
  StemOf <- OwnStem
  Vals = {v0}
  DefaultVals = v0
  NoFile = NoFile
  RangeSets = {g0}
  DefaultRanges = g0
  Adapters = {a0}
  Ips = {5, 6}
  FirstOctet = 5
  MaxRows = 2
  MaxId = 2
  Stored <- StoredTwo
  Forms <- OnOff
  ImportFiles <- ImportNone
  BadPayloads = FALSE
  StopMayFail = FALSE
  UnlinkMayFail = FALSE
  DistinctNames = TRUE
CHECK_DEADLOCK FALSE
INVARIANT ExitLeavesNoRelay
