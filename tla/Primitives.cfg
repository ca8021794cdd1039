\* SHA-512 with its real sizes: pieces around the ends of a block and of the room
\* for the length. Carry chains on small limbs. Addition chains have no parameters.
CONSTANTS
  Block = 128
  LenField = 16
  Pieces = {0, 1, 16, 111, 112, 128, 257}
  MaxPieces = 3
  EvenBits = 3
  OddBits = 2
  Fold = 19
  MulConst = 11
  ScBits = 2
  FoldDigits <- SmallFoldDigits
  ChunkStarts <- SmallChunkStarts
\* What 19 folds back is more than limbs of so few bits hold.
  Slack = 1500
  Elements <- FieldElements
  Differences <- HalfElements
  SmallElements <- Encodable
  Strings <- FieldStrings
  Scalars <- SmallScalars
  LongScalars <- DoubleScalars
SPECIFICATION MCSpec
INVARIANTS TypeOK NothingLost DigestOfMessage ResidueKept LimbsCarried ResultIsReduced
  ExponentReached
\* What was called returns, and the digest is there.
CHECK_DEADLOCK FALSE
