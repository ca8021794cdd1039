\* A cache that other traffic keeps evicting: one entry.
CONSTANTS
  PathCountMod = 4
  MAX_PATH_SIZE = 4
  MAX_PACKET_PAYLOAD = 4
  DEDUP_CACHE_SIZE = 1
  DEDUP_EXPIRE_MS = 1
  MillisMod = 16
  NoKey = "none"
  Nodes <- Two
  Neighbours <- TwoNeighbours
  HashByte <- TwoHashByte
  PrvByte <- TwoPrvByte
  EphemeralKeys = {"e1", "e2"}
  Config <- TwoConfig
  ChannelHash <- MCChannelHash
  ForeignPackets <- MCForeign
  TicksPerSecond = 2
  MaxClock = 1
  MaxSends = 2
  Unstable = {"x"}
  MaxFaults = 1
SPECIFICATION FairSpec
INVARIANTS TypeOK ConfiguredIdentityKept
PROPERTIES Quiesces
\* Every packet has been handled, and the bounds stop the rest.
CHECK_DEADLOCK FALSE
