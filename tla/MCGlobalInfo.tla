---------------------------- MODULE MCGlobalInfo -----------------------------
(* Constants of GlobalInfo for model checking: MODULE_SOCKET has callbacks *)
(* (two of its six are enough to tell slots apart), no other module has.   *)
EXTENDS GlobalInfo

CONSTANTS socket, other

McModules    == {socket, other}
McModuleSize == [m \in McModules |-> IF m = socket THEN 2 ELSE 0]
=============================================================================
