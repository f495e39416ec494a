SPECIFICATION Spec
CONSTANTS
  AppCount = 2
  UINT_MAX = 255
  Chunks = 2
  MaxSeq = 6
INVARIANTS SetBootSelects GetBootAgrees UpdatesAreSafe
PROPERTY StaysBootable
