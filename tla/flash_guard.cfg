CONSTANTS
  t1 = t1
  t2 = t2
  t3 = t3
  Tasks <- TwoPinnedOneFree
  None = None
  IpcTask = IpcTask
  Unpinned <- Free
  Home <- HomeOf
  BootTask = t1
  OpKinds = {"guarded", "encrypted"}
SPECIFICATION Spec
INVARIANTS
  TypeOK
  FlashSafe
  CoreIdAssertHolds
  NoFetchWhileCacheOff
  ReturnReleases
PROPERTY OpReturns
CHECK_DEADLOCK FALSE
