SPECIFICATION Spec
CONSTANTS
  k1 = k1
  k2 = k2
  Keys <- TwoKeys
  Sectors <- ThreeSectors
  ENTRY_COUNT = 6
  ITEMS_PER_WORD = 3
  Hash <- Distinct
  KeyPtr <- Distinct
  DataSize <- OneAndTwoEntries
  Types = {"BLOB"}
  CallTypes <- BothTypes
  ValuesOf <- TwoOnly
  EraseAllUsed = TRUE
  MaxSeq = 2
  MaxLosses = 1
INVARIANT DebugCheck
PROPERTY Durable
