----------------------- MODULE MCNetworkConfiguration -----------------------
(* Values of the constants for model checking.                             *)
EXTENDS NetworkConfiguration

MCLinks     == {[index |-> i, listed |-> i # 3] : i \in 1 .. 3}
MCAddresses == {[index |-> 1, family |-> "inet"]}
MCRoute(i, family, dst, priority) ==
  [index |-> i, family |-> family, dst |-> dst, priority |-> priority, source |-> dst = "other"]
MCRoutes ==
  {MCRoute(1, "inet", "default", 0), MCRoute(1, "inet", "default", 2),
   MCRoute(2, "inet", "default", 1),
   MCRoute(1, "inet", "match", 1), MCRoute(2, "inet", "match", 0),
   MCRoute(3, "inet", "other", 0), MCRoute(2, "inet6", "other", 0)}
MCSizes     == [links |-> 3, addresses |-> 1, routes |-> 3]
MCCapacity  == [links |-> 4, addresses |-> 5, routes |-> 5]
=============================================================================
