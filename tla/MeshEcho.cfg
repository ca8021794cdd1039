\* a sends its peer one message; their keys begin with the same byte.
CONSTANTS
  PathCountMod = 4
  MAX_PATH_SIZE = 4
  MAX_PACKET_PAYLOAD = 4
  DEDUP_CACHE_SIZE = 3
  DEDUP_EXPIRE_MS = 1
  MillisMod = 16
  NoKey = "none"
  Nodes <- Line
  Neighbours <- LineNeighbours
  HashByte <- EchoHashByte
  PrvByte <- LinePrvByte
  EphemeralKeys = {}
  Config <- EchoConfig
  ChannelHash <- MCChannelHash
  ForeignPackets = {}
  TicksPerSecond = 2
  MaxClock = 0
  MaxSends = 1
  Unstable = {}
  MaxFaults = 0
SPECIFICATION Spec
INVARIANTS MessagesFromPeer
\* Every packet has been handled, and the bounds stop the rest.
CHECK_DEADLOCK FALSE
