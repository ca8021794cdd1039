---------------------------- MODULE EdwardsPoint ----------------------------
(***************************************************************************)
(* The two scalar multiplications of ge.c, with their recodings of the     *)
(* scalar and their tables, next to the addition law of the curve by its   *)
(* definition. Scalars are integers below 2^ScalarBits.                    *)
(***************************************************************************)
EXTENDS GroupElement, Sequences, FiniteSetsExt

CONSTANTS
  ScalarBits,  \* 256
  BaseX        \* x of the base point, whose y is 4/5

\* Scalars have a whole number of bytes, two radix-16 digits each.
ASSUME PointConstants ==
  /\ ScalarBits = FieldBits + 1 /\ ScalarBits % 8 = 0
  /\ BaseX \in Residues

-----------------------------------------------------------------------------
\* A loop over a sequence: after[k] is what its first k rounds make of first. As
\* an argument of a function it is evaluated before the next round, like in C.
Loop(step(_, _), first, seq) ==
  LET after[k \in 0..Len(seq)] ==
        IF k = 0 THEN first
        ELSE LET before == after[k - 1]
             IN  [v \in {before} |-> step(v, seq[k])][before]
  IN  after[Len(seq)]

\* The curve by its definition: residues, points <<x, y>> of residues, and the
\* addition law.
ModMul(m, n) == (m * n) % P

\* P = (P \div n) * n + P % n.
ModInverse[n \in Residues] ==
  IF n <= 1 THEN n ELSE (-(P \div n) * ModInverse[P % n]) % P

OnCurve(p) ==
  LET xx == ModMul(p[1], p[1])
      yy == ModMul(p[2], p[2])
  IN  (yy - xx) % P = (1 + ModMul(D, ModMul(xx, yy))) % P

EdZero == <<0, 1>>

EdNeg(p) == <<(-p[1]) % P, p[2]>>

EdAdd(p, q) ==
  LET xx == ModMul(p[1], q[1])
      yy == ModMul(p[2], q[2])
      t  == ModMul(D, ModMul(xx, yy))
  IN  << ModMul(ModMul(p[1], q[2]) + ModMul(q[1], p[2]), ModInverse[(1 + t) % P]),
         ModMul(yy + xx, ModInverse[(1 - t) % P]) >>

\* n p by double and add; the half is evaluated before it is doubled.
EdMul(n, p) ==
  LET mul[k \in 0..n] ==
        IF k = 0 THEN EdZero
        ELSE LET half == mul[k \div 2]
                 even == [v \in {half} |-> EdAdd(v, v)][half]
             IN  IF k % 2 = 0 THEN even ELSE EdAdd(even, p)
  IN  mul[n]

EdBase == <<BaseX, ModMul(4, ModInverse[5 % P])>>

\* A point as its y with the parity of x in the bit above.
EdEncode(p) == p[2] + (p[1] % 2) * 2 ^ FieldBits

-----------------------------------------------------------------------------
\* The tables of precomp_data.h: 1, 3, .. 15 times the base point, and 1..8
\* times 256^pos times the base point.
GePrecomp(p) ==
  [yplusx |-> FeConst((p[2] + p[1]) % P), yminusx |-> FeConst((p[2] - p[1]) % P),
   xy2d |-> FeConst(ModMul(2 * D, ModMul(p[1], p[2])))]

Bi == [k \in 0..7 |-> GePrecomp(EdMul(2 * k + 1, EdBase))]

GeBase ==
  [pos \in 0..(ScalarBits \div 8 - 1) |->
     [j \in 1..8 |-> GePrecomp(EdMul(j * 2 ^ (8 * pos), EdBase))]]

-----------------------------------------------------------------------------
\* Mutant of SlideCarry: the carry is not propagated.
SlideCarryLost(r, k) == [r EXCEPT ![k] = 0]

\* The carry of slide: the ones from bit k on become zeros, up to the first
\* zero, which becomes a one.
SlideCarry(r, k) ==
  LET zeros == {j \in DOMAIN r : j >= k /\ r[j] = 0}
      top   == IF zeros = {} THEN ScalarBits ELSE Min(zeros)
  IN  [j \in DOMAIN r |-> IF j < k \/ j > top THEN r[j] ELSE IF j = top THEN 1 ELSE 0]

\* Bit i + b joins the window that begins at i, if it fits; s.open ends with
\* the inner loop's break.
SlideJoin(s, i, b) ==
  IF ~s.open \/ i + b \notin DOMAIN s.r THEN s
  ELSE IF s.r[i + b] = 0 THEN s
  ELSE LET r == s.r
           w == r[i + b] * 2 ^ b
       IN  IF r[i] + w <= 15
             THEN [s EXCEPT !.r = [r EXCEPT ![i] = r[i] + w, ![i + b] = 0]]
           ELSE IF r[i] - w >= -15
             THEN [s EXCEPT !.r = SlideCarry([r EXCEPT ![i] = r[i] - w], i + b)]
           ELSE [s EXCEPT !.open = FALSE]

SlideWindow(r, i) ==
  IF r[i] = 0 THEN r
  ELSE Loop(LAMBDA s, b : SlideJoin(s, i, b), [r |-> r, open |-> TRUE],
            <<1, 2, 3, 4, 5, 6>>).r

\* Signed odd digits, at most 15, with zeros between them.
Slide(a) ==
  Loop(SlideWindow, [i \in 0..(ScalarBits - 1) |-> (a \div 2 ^ i) % 2],
       [i \in 1..ScalarBits |-> i - 1])

\* A, 3A, 5A, .. 15A.
OddMultiples(A) ==
  LET A2 == GeP1P1ToP3(GeP3Dbl(A))
      Ai[k \in 0..7] ==
        IF k = 0 THEN GeP3ToCached(A)
        ELSE GeP3ToCached(GeP1P1ToP3(GeAdd(A2, Ai[k - 1])))
  IN  Ai

\* a A + b B, from the highest digit that is not zero.
GeDoubleScalarmult(a, A, b) ==
  LET aslide == Slide(a)
      bslide == Slide(b)
      Ai == OddMultiples(A)
      withA(t, e) ==
        IF e > 0 THEN GeAdd(GeP1P1ToP3(t), Ai[e \div 2])
        ELSE IF e < 0 THEN GeSub(GeP1P1ToP3(t), Ai[(-e) \div 2])
        ELSE t
      withB(t, e) ==
        IF e > 0 THEN GeMadd(GeP1P1ToP3(t), Bi[e \div 2])
        ELSE IF e < 0 THEN GeMsub(GeP1P1ToP3(t), Bi[(-e) \div 2])
        ELSE t
      digits == {i \in DOMAIN aslide : aslide[i] # 0 \/ bslide[i] # 0}
      first == IF digits = {} THEN -1 ELSE Max(digits)
  IN  Loop(LAMBDA r, i : GeP1P1ToP2(withB(withA(GeP2Dbl(r), aslide[i]), bslide[i])),
           GeP20, [k \in 1..(first + 1) |-> first + 1 - k])

-----------------------------------------------------------------------------
\* Mutant of Radix16: the carries are lost.
Radix16NoCarry(a) == [i \in 0..(ScalarBits \div 4 - 1) |-> (a \div 16 ^ i) % 16]

\* Signed radix-16 digits. For a below 2^(ScalarBits - 1) all are in -8..8.
Radix16(a) ==
  LET last == ScalarBits \div 4 - 1
      nibble(i) == (a \div 16 ^ i) % 16
      carry[i \in 0..last] ==
        IF i = 0 THEN 0 ELSE (nibble(i - 1) + carry[i - 1] + 8) \div 16
  IN  [i \in 0..last |->
         nibble(i) + carry[i] - IF i < last THEN 16 * carry[i + 1] ELSE 0]

\* b * 256^pos * B for b in -8..8, from the table.
Select(pos, b) ==
  LET babs == IF b < 0 THEN -b ELSE b
      t == IF babs \in 1..8 THEN GeBase[pos][babs] ELSE GePrecomp(EdZero)
  IN  IF b < 0
        THEN [yplusx |-> t.yminusx, yminusx |-> t.yplusx, xy2d |-> FeNeg(t.xy2d)]
        ELSE t

\* a B: the odd digits, four doublings, the even digits.
GeScalarmultBase(a) ==
  LET e == Radix16(a)
      half == ScalarBits \div 8
      add(h, i) == GeP1P1ToP3(GeMadd(h, Select(i \div 2, e[i])))
      odd == Loop(add, GeP30, [k \in 1..half |-> 2 * k - 1])
      dbl(p) == GeP1P1ToP2(GeP2Dbl(p))
      times16 == GeP1P1ToP3(GeP2Dbl(dbl(dbl(dbl(GeP3ToP2(odd))))))
  IN  Loop(add, times16, [k \in 1..half |-> 2 * k - 2])
=============================================================================
