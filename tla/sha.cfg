CONSTANTS
  boot = boot
  t1 = t1
  t2 = t2
  Tasks = {boot, t1, t2}
  BootTask = boot
  NOBODY = NOBODY
  Engines = {"SHA1", "SHA2_256"}
  LockNames <- MCLockNames
  MaxBlocks = 2
SPECIFICATION FairSpec
INVARIANTS
  Exclusive
  AssertsHold
  DigestRight
PROPERTY CallsReturn
