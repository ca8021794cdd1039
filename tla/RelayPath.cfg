\* The real constants of mc_packet.h. Every valid hash size; the payload
\* lengths are the shortest, those around what transmit_ has room for with the
\* longest path, and two between.
CONSTANTS
  PathCountMod = 64
  MAX_PATH_SIZE = 64
  MAX_PACKET_PAYLOAD = 184
  HashSizes = {1, 2, 3}
  PayloadLens = {0, 1, 37, 133, 182, 183, 184}
SPECIFICATION Spec
INVARIANTS TypeOK PathLenCountsHops PathEntriesAreLatestHops RelayKeepsPayload
  OnlyOddHashesOutgrow
\* The packet's journey ends.
CHECK_DEADLOCK FALSE
