\* Buffers of up to two bytes, handshakes of three and four messages, a slow peer.
CONSTANTS
  Lengths    = {0, 1, 2}
  Flights    = {3, 4}
  Timeout    = 1
  Wait       = 1
  Room       = 1
  MaxArrived = 2
  MaxErrors  = 2
  MaxHiccups = 1

SPECIFICATION Spec

INVARIANTS SslOwned MessagesWhole StreamIntact FailuresClose
PROPERTIES OnlyASilentPeerBlocks
