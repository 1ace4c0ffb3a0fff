SPECIFICATION Spec
CONSTANTS
  Links <- MCLinks
  Addresses <- MCAddresses
  Routes <- MCRoutes
  Sizes <- MCSizes
  Capacity <- MCCapacity
INVARIANTS PointersLive BestRoute
PROPERTIES RepliesWhole CallsReturn
