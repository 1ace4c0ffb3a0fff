\* Two threads set two different callbacks.
CONSTANTS
  Setters    = {t1, t2}
  Readers    = {}
  Functors   = {f1, f2}
  None       = none
  socket     = socket
  other      = other
  Modules    <- McModules
  ModuleSize <- McModuleSize

SPECIFICATION Spec

INVARIANTS SetTakesEffect

CHECK_DEADLOCK FALSE
