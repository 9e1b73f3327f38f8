SPECIFICATION Spec
CONSTANTS
  a1 = a1
  w1 = w1
  REF615 = REF615
  RED615 = RED615
  AnalogTags <- MCAnalogTags
  WordTags <- MCWordTags
  RelayTypes <- MCTypes
  RELAY_ANALOG_TAGS <- MCRelayTags
  COMMON_WORD_TAGS <- MCWordTags
  Numbers <- MCNumbers
  DefaultValue <- MCValue
  DefaultRange <- MCRange
  Bad = Bad
  Huge = Huge
  None = None
  Absent = Absent
  Payloads <- MCPayloads
  RangeLists <- MCRangeLists
  ImportedRows <- MCImportedRows
INVARIANT TypeOK
PROPERTIES
  RestartKeeps
  RangesKept
