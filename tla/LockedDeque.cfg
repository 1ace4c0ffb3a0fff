\* Two threads, two deques, every method.
CONSTANTS
  Threads  = {t1, t2}
  Deques   = {d1, d2}
  NoThread = none
  MaxCalls = 2
  Elements <- AllElements

SPECIFICATION Spec

INVARIANTS OldestFirst
PROPERTIES Linearizable CallsReturn

CHECK_DEADLOCK FALSE
