\* The real constants; every length up to one block past the payload's size.
CONSTANTS
  PathCountMod = 64
  MAX_PATH_SIZE = 64
  MAX_PACKET_PAYLOAD = 184
  CIPHER_BLOCK_SIZE = 16
  MAX_ADVERT_DATA_SIZE = 32
  TextLens <- MCTextLens
  TrailingNuls = {0}
SPECIFICATION Spec
INVARIANTS MessagesDecrypt
\* A call ends when its text is heard or lost.
CHECK_DEADLOCK FALSE
