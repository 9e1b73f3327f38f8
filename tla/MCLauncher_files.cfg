SPECIFICATION Spec
CONSTANTS
  Threads = {t1}
  Pids = {}
  NoProc = NoProc
  Names = {1, 2, 3}
  SuggestCount = 2
  Stems = {1, 2, 3}
  StemOf <- OwnStem
  Vals = {v0, v1}
  DefaultVals = v0
  NoFile = NoFile
  RangeSets = {g0}
  DefaultRanges = g0
  Adapters = {a0, a1}
  Ips = {5, 6}
  FirstOctet = 5
  MaxRows = 2
  MaxId = 3
  Stored <- StoredTwo
  Forms <- Edits
  ImportFiles <- ImportGood
  BadPayloads = FALSE
  StopMayFail = FALSE
  UnlinkMayFail = FALSE
  DistinctNames = TRUE
CHECK_DEADLOCK FALSE
INVARIANTS
  FilesMatchRows
  NoStaleFiles
  PersistedCurrent
  RowIdsDistinct
PROPERTY
  RemovedIdsStayGone
