SPECIFICATION Spec
CONSTANTS
  k1 = k1
  k2 = k2
  Keys <- OneKey
  Sectors <- TwoSectors
  ENTRY_COUNT = 4
  ITEMS_PER_WORD = 2
  Hash <- Distinct
  KeyPtr <- Distinct
  DataSize <- OneEntryEach
  Types = {"U8"}
  CallTypes <- BothTypes
  ValuesOf <- OneAndTwo
  EraseAllUsed = FALSE
  MaxSeq = 3
  MaxLosses = 3
INVARIANTS BootSucceeds NoFreeingAtRest
PROPERTY Durable
