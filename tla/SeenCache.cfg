\* millis() wraps at 8; MaxSilence + DEDUP_EXPIRE_MS < MillisMod. MaxNow passes
\* the wrap with room for an expiry after it; one hash more than the cache holds.
CONSTANTS
  DEDUP_CACHE_SIZE = 2
  DEDUP_EXPIRE_MS = 3
  MillisMod = 8
  Hashes = {h1, h2, h3}
  MaxNow = 12
  MaxFresh = 4
  MaxSilence = 4
SPECIFICATION Spec
INVARIANTS TypeOK NoEarlyRepeat CacheIsWindow
PROPERTIES ImplementsWindow
