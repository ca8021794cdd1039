\* A packet expires one tick after it was seen; a second is two ticks.
CONSTANTS
  PathCountMod = 4
  MAX_PATH_SIZE = 4
  MAX_PACKET_PAYLOAD = 4
  DEDUP_CACHE_SIZE = 3
  DEDUP_EXPIRE_MS = 1
  MillisMod = 16
  NoKey = "none"
  Nodes <- Line
  Neighbours <- LineNeighbours
  HashByte <- LineHashByte
  PrvByte <- LinePrvByte
  EphemeralKeys = {}
  Config <- LineConfig
  ChannelHash <- MCChannelHash
  ForeignPackets = {}
  TicksPerSecond = 2
  MaxClock = 2
  MaxSends = 2
  Unstable = {"b", "r"}
  MaxFaults = 1
SPECIFICATION Spec
INVARIANTS MessagesFromPeer DuplicatesWereHeard
PROPERTIES ImplementsService
\* Every packet has been handled, and the bounds stop the rest.
CHECK_DEADLOCK FALSE
