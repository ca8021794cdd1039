\* Only what this component originates: 1-byte path hashes.
CONSTANTS
  PathCountMod = 64
  MAX_PATH_SIZE = 64
  MAX_PACKET_PAYLOAD = 184
  HashSizes = {1}
  PayloadLens = {37}
SPECIFICATION Spec
PROPERTIES RelayAppendsHash
CHECK_DEADLOCK FALSE
