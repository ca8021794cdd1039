---------------------------- MODULE FieldElement ----------------------------
(***************************************************************************)
(* fe.c: arithmetic modulo the field prime, for any prime of the shape the *)
(* code needs. An fe is ten limbs in C; here it is the residue `val` they  *)
(* stand for and a bound `max` on their size, in hundredths of 2^25 for    *)
(* the five limbs of 26 bits and of 2^24 for the five of 25 bits. These    *)
(* are the code's own limbs, whatever P is: what the carries do to them is *)
(* in module CarryChains.                                                  *)
(*                                                                         *)
(* Where a limb overflows its word `max` is Int32 or more, and so is that  *)
(* of everything computed from it: `val` means nothing then.               *)
(***************************************************************************)
EXTENDS Integers

CONSTANTS
  FieldBits,  \* 255: bits of an encoded field element, below the sign bit
  P,          \* 2^255 - 19
  A24         \* 121666: (A + 2) / 4 of the Montgomery form of the curve

\* Square roots are taken as in a field of 8k + 5 elements.
ASSUME FieldConstants ==
  /\ FieldBits \in Nat
  /\ P \in Nat /\ P < 2 ^ FieldBits /\ P % 8 = 5
  /\ A24 \in 0..(P - 1)

Residues == 0..(P - 1)

\* 2^31 in the units of a limb, and 2^63 in those of a product of two.
Int32 == 64 * 100
Int64 == 8192 * 10000

\* Limbs after a carry chain, and of the constants in the code.
Carried == 101

Fe == [val : Residues, max : Nat]

FeConst(n) == [val |-> n, max |-> Carried]
Zero == [val |-> 0, max |-> 0]
One == [val |-> 1, max |-> 1]

FeAdd(f, g) == [val |-> (f.val + g.val) % P, max |-> f.max + g.max]
FeSub(f, g) == [val |-> (f.val - g.val) % P, max |-> f.max + g.max]
FeNeg(f) == [val |-> (-f.val) % P, max |-> f.max]

\* Each limb of a product is the sum of ten products of limbs. In the largest,
\* that of limb 0, four have a factor 19, and five, of 25-bit limbs, a factor
\* 38. 19 g has to fit 32 bits, the sum 64; then the carries leave small limbs.
Product(f, g, times) ==
  IF /\ f.max < Int32 /\ 19 * g.max < Int32
     /\ times * 125 * f.max * g.max < Int64
    THEN Carried ELSE Int32

\* Mutant of FeMul: the limbs stay one bit wider.
FeMulWide(f, g) == [val |-> (f.val * g.val) % P, max |-> 2 * Product(f, g, 1)]

FeMul(f, g) == [val |-> (f.val * g.val) % P, max |-> Product(f, g, 1)]
FeSq(f) == [val |-> (f.val * f.val) % P, max |-> Product(f, f, 1)]
FeSq2(f) == [val |-> (2 * f.val * f.val) % P, max |-> Product(f, f, 2)]

\* A single pass of carries is enough for limbs up to 1.1 * 2^26.
OnePass(f) == IF f.max <= 220 THEN Carried ELSE Int32

FeMul121666(f) == [val |-> (A24 * f.val) % P, max |-> OnePass(f)]

\* Square and multiply. The limbs of z bound all of its products: the others
\* have come out of a product already.
FePow(z, n) ==
  LET pow[k \in 0..n] ==
        IF k = 0 THEN 1
        ELSE LET root == pow[k \div 2]
                 even == (root * root) % P
             IN  IF k % 2 = 0 THEN even ELSE (even * z.val) % P
  IN  [val |-> pow[n], max |-> Product(z, z, 1)]

\* The two addition chains, by the exponents they are for; module
\* AdditionChains has their steps.
FeInvert(z) == FePow(z, P - 2)
FePow22523(z) == FePow(z, (P - 5) \div 8)

\* The sign bit above the field element is ignored; the value may be above P.
FeFromBytes(s) == FeConst((s % 2 ^ FieldBits) % P)

\* fe_tobytes writes the residue itself. Its estimate of the quotient begins
\* with 19 h9 in 32 bits. NoBytes stands for what an overflow leaves, here and
\* in the sign; an encoding made of either is negative.
NoBytes == -1
FeToBytes(f) == IF 19 * f.max + 100 < 2 * Int32 THEN f.val ELSE NoBytes

FeIsNegative(f) == IF FeToBytes(f) = NoBytes THEN NoBytes ELSE FeToBytes(f) % 2
FeIsNonzero(f) == FeToBytes(f) # 0

\* fe_cswap, with b in {0, 1}.
FeCswap(fg, b) == IF b = 1 THEN <<fg[2], fg[1]>> ELSE fg
=============================================================================
