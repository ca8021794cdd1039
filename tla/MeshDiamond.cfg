\* A diamond and, out of its reach, a triangle. One frame lost, one relay failed
\* or one pure repeater rebooted, at any time.
CONSTANTS
  PathCountMod = 8
  MAX_PATH_SIZE = 8
  MAX_PACKET_PAYLOAD = 4
  DEDUP_CACHE_SIZE = 3
  DEDUP_EXPIRE_MS = 1
  MillisMod = 16
  NoKey = "none"
  Nodes <- Islands
  Neighbours <- IslandNeighbours
  HashByte <- IslandHashByte
  PrvByte <- IslandHashByte
  EphemeralKeys = {}
  Config <- IslandConfig
  ChannelHash <- MCChannelHash
  ForeignPackets = {}
  TicksPerSecond = 2
  MaxClock = 0
  MaxSends = 1
  Unstable = {"r1", "r2", "s"}
  MaxFaults = 1
SPECIFICATION FairSpec
INVARIANTS NoLoops PathIsRoute
PROPERTIES TextsArrive
\* Every packet has been handled, and the bounds stop the rest.
CHECK_DEADLOCK FALSE
