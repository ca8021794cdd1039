---------------------------- MODULE GroupElement ----------------------------
(***************************************************************************)
(* The formulas of ge.c: the five forms in which the code keeps points of  *)
(* the curve -x^2 + y^2 = 1 + D x^2 y^2, the conversions between them,     *)
(* their sums, and their encoding as strings of ScalarBits bits. The       *)
(* operations are in the order of the code, with their operands in the     *)
(* order of the code, as limbs grow and overflow by both.                  *)
(***************************************************************************)
EXTENDS FieldElement

CONSTANTS
  D  \* -121665/121666

ASSUME CurveConstant == D \in Residues

d == FeConst(D)
d2 == FeConst((2 * D) % P)
sqrtm1 == FeConst(FePow(FeConst(2), (P - 1) \div 4).val)

-----------------------------------------------------------------------------
GeP2 == [X : Fe, Y : Fe, Z : Fe]
GeP3 == [X : Fe, Y : Fe, Z : Fe, T : Fe]

\* ge_p1p1 to ge_p2 and ge_p3, ge_p3 to ge_p2 and ge_cached.
GeP1P1ToP2(p) == [X |-> FeMul(p.X, p.T), Y |-> FeMul(p.Y, p.Z), Z |-> FeMul(p.Z, p.T)]

GeP1P1ToP3(p) ==
  [X |-> FeMul(p.X, p.T), Y |-> FeMul(p.Y, p.Z), Z |-> FeMul(p.Z, p.T),
   T |-> FeMul(p.X, p.Y)]

GeP3ToP2(p) == [X |-> p.X, Y |-> p.Y, Z |-> p.Z]

GeP3ToCached(p) ==
  [YplusX |-> FeAdd(p.Y, p.X), YminusX |-> FeSub(p.Y, p.X), Z |-> p.Z,
   T2d |-> FeMul(p.T, d2)]

GeP20 == [X |-> Zero, Y |-> One, Z |-> One]
GeP30 == [X |-> Zero, Y |-> One, Z |-> One, T |-> Zero]

\* What the four additions have in common.
GeSum(p, plus, minus, z, t) ==
  LET a == FeMul(FeAdd(p.Y, p.X), plus)
      b == FeMul(FeSub(p.Y, p.X), minus)
  IN  [X |-> FeSub(a, b), Y |-> FeAdd(a, b), Z |-> FeAdd(z, t), T |-> FeSub(z, t)]

GeAdd(p, q) ==
  LET zz == FeMul(p.Z, q.Z)
  IN  GeSum(p, q.YplusX, q.YminusX, FeAdd(zz, zz), FeMul(q.T2d, p.T))

GeSub(p, q) ==
  LET zz == FeMul(p.Z, q.Z)
  IN  GeSum(p, q.YminusX, q.YplusX, FeAdd(zz, zz), FeNeg(FeMul(q.T2d, p.T)))

\* The second point is a ge_precomp, whose Z is 1.
GeMadd(p, q) == GeSum(p, q.yplusx, q.yminusx, FeAdd(p.Z, p.Z), FeMul(q.xy2d, p.T))
GeMsub(p, q) == GeSum(p, q.yminusx, q.yplusx, FeAdd(p.Z, p.Z), FeNeg(FeMul(q.xy2d, p.T)))

GeP2Dbl(p) ==
  LET xx == FeSq(p.X)
      yy == FeSq(p.Y)
      y  == FeAdd(yy, xx)
      z  == FeSub(yy, xx)
  IN  [X |-> FeSub(FeSq(FeAdd(p.X, p.Y)), y), Y |-> y, Z |-> z,
       T |-> FeSub(FeSq2(p.Z), z)]

GeP3Dbl(p) == GeP2Dbl(GeP3ToP2(p))

-----------------------------------------------------------------------------
\* ge_tobytes and ge_p3_tobytes.
GeToBytes(p) ==
  LET recip == FeInvert(p.Z)
  IN  FeToBytes(FeMul(p.Y, recip))
        + FeIsNegative(FeMul(p.X, recip)) * 2 ^ FieldBits

\* An x with v x^2 = u for the point with that y, if there is one.
GeRoots(y) ==
  LET yy == FeSq(y)
      u  == FeSub(yy, One)
      v  == FeAdd(FeMul(yy, d), One)
      v3 == FeMul(FeSq(v), v)
      v7 == FeMul(FeSq(v3), v)
      x  == FeMul(FeMul(FePow22523(FeMul(v7, u)), v3), u)
      vxx == FeMul(FeSq(x), v)
  IN  IF ~FeIsNonzero(FeSub(vxx, u)) THEN {x}
      ELSE IF ~FeIsNonzero(FeAdd(vxx, u)) THEN {FeMul(x, sqrtm1)}
      ELSE {}

GeAffine(x, y) == [X |-> x, Y |-> y, Z |-> One, T |-> FeMul(x, y)]

\* Mutant of GeFromBytesNegate: the sign bit is not looked at.
GeFromBytesUnsigned(s) ==
  {GeAffine(x, FeFromBytes(s)) : x \in GeRoots(FeFromBytes(s))}

\* The negative of the point that s encodes, if it encodes one.
GeFromBytesNegate(s) ==
  {GeAffine(IF FeIsNegative(x) = s \div 2 ^ FieldBits THEN FeNeg(x) ELSE x,
            FeFromBytes(s)) : x \in GeRoots(FeFromBytes(s))}

=============================================================================
