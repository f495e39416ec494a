SPECIFICATION Spec
CONSTANTS
  k1 = k1
  k2 = k2
  Keys <- TwoKeys
  Sectors <- TwoSectors
  ENTRY_COUNT = 5
  ITEMS_PER_WORD = 16
  Hash <- Distinct
  KeyPtr <- Distinct
  DataSize <- OneAndTwoEntries
  Types = {"BLOB"}
  CallTypes <- BothTypes
  ValuesOf <- OneAndTwo
  EraseAllUsed = FALSE
  MaxSeq = 2
  MaxLosses = 1
INVARIANT BootSucceeds
