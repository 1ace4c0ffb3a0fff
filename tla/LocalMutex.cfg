\* Three contending threads.
CONSTANTS
  Threads  = {t1, t2, t3}
  NoThread = none

SPECIFICATION MutexSpec

INVARIANTS MutualExclusion
PROPERTIES FlagsTrueWhenRaised
