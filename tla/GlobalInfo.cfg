\* One thread sets and overwrites callbacks while two threads use them.
CONSTANTS
  Setters    = {t1}
  Readers    = {r1, r2}
  Functors   = {f1, f2, f3, f4}
  None       = none
  socket     = socket
  other      = other
  Modules    <- McModules
  ModuleSize <- McModuleSize

SPECIFICATION Spec

INVARIANTS NoUseAfterDelete OneOwner SetTakesEffect

CHECK_DEADLOCK FALSE
