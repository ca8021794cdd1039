-------------------------- MODULE MontgomeryLadder --------------------------
(***************************************************************************)
(* The loop body of ed25519_key_exchange: one bit of the scalar, on two    *)
(* points of the Montgomery form of the curve that are given by X : Z and  *)
(* whose difference is the point with x = x1, z = 1.                       *)
(***************************************************************************)
EXTENDS FieldElement

\* From the points x2 : z2 and x3 : z3 to twice the first and their sum.
LadderRound(x1, x2, z2, x3, z3) ==
  LET sum2 == FeAdd(x2, z2)
      dif2 == FeSub(x2, z2)
      cross1 == FeMul(FeSub(x3, z3), sum2)
      cross2 == FeMul(FeAdd(x3, z3), dif2)
      aa == FeSq(sum2)
      bb == FeSq(dif2)
      e  == FeSub(aa, bb)
  IN  [x2 |-> FeMul(aa, bb), z2 |-> FeMul(e, FeAdd(bb, FeMul121666(e))),
       x3 |-> FeSq(FeAdd(cross1, cross2)),
       z3 |-> FeMul(x1, FeSq(FeSub(cross1, cross2)))]

\* The round for the scalar's bit b: fe_cswap if the points are not as b wants
\* them. swap is the bit of the round before.
LadderStep(x1, s, b) ==
  LET straight == s.swap = b
  IN  [points |-> IF straight
                    THEN LadderRound(x1, s.points.x2, s.points.z2, s.points.x3, s.points.z3)
                    ELSE LadderRound(x1, s.points.x3, s.points.z3, s.points.x2, s.points.z2),
       swap |-> b]
=============================================================================
