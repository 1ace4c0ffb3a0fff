\* Buffers of up to two bytes, two addresses, a slow peer.
CONSTANTS
  Lengths    = {0, 1, 2}
  Addresses  = 2
  Timeout    = 2
  Wait       = 2
  Room       = 1
  MaxArrived = 2
  MaxHiccups = 1

SPECIFICATION Spec

INVARIANTS DescriptorsOwned MessagesWhole DatagramOnce StreamIntact
           RecvInTime StopsWhenApproved ErrorsClose
PROPERTIES CallsReturn

CHECK_DEADLOCK FALSE
