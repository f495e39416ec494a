CONSTANTS
  TABLE_SIZE = 5
  DATA_PAGES = 4
  IRAM0_FIRST_USABLE = 4
  REFCNT_MOD = 256
  FLASH_PAGES = 5
  BootPage = 2
  Memories = {"DATA", "INST"}
  Counts = {1, 2, 5}
  MaxHandle = 3
SPECIFICATION Spec
INVARIANTS
  MappingsHold
  RefcntExact
CHECK_DEADLOCK FALSE
