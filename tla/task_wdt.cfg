CONSTANTS
  t1 = t1
  t2 = t2
  t3 = t3
  Tasks = {t1, t2, t3}
  TIMEOUT = 2
SPECIFICATION FairSpec
INVARIANTS
  FlagsAreTrue
PROPERTY StuckTaskBarks
