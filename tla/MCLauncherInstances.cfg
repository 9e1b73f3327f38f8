SPECIFICATION FairSpec
CONSTANTS
  Copies = {c1, c2}
  a = a
  b = b
  Rows = {a, b}
  DefaultRows <- JustA
  Torn = Torn
  SharedPort = TRUE
  MaxCrashes = 2
CHECK_DEADLOCK FALSE
INVARIANTS
  TypeOK
  AtRestConsistent
PROPERTIES
  RestartRestores
  StartServes
