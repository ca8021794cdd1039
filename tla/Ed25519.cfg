\* The curve scaled down from 256-bit strings to 16-bit ones: P is 2^15 - 19, L is a
\* prime just above 2^12, and there are 8 L points.
\* OtherKeys: no point, a point of order 8 L, and two encodings of a y above P.
CONSTANTS
  FieldBits = 15
  P = 32749
  A24 = 29554
  ScalarBits = 16
  D = 40
  BaseX = 21774
  L = 4111
  Parties = {"alice", "bob"}
  Seeds = {21845, 65535}
  HashValues = {0, 4110, 65521}
  Scalars = {1, 8222, 65535}
  Adders = {"alice"}
  MaxAdds = 2
  OtherKeys = {3, 5, 32750, 65535}
SPECIFICATION Spec
INVARIANTS TypeOK LimbsFit KeysMatch CopiesFollow CopiesDecode SignaturesVerify VerifyIsEquation
  SecretIsProduct
