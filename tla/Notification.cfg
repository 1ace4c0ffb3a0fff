\* One subject and two observers; two values.
CONSTANTS
  Threads  = {s, o1, o2}
  Subject  = s
  NoThread = none
  Values   = {v1, v2}

SPECIFICATION Spec

INVARIANTS NoDataRace NoEventBeforeSignal SignalDelivered
PROPERTIES WaiterEndsSpin NotifyReturns
