---------------------------- MODULE CarryChains -----------------------------
(***************************************************************************)
(* The limbs under fe.c and sc.c, and the carry chains that every function *)
(* of them ends with. A call puts sums or products of limbs into h and     *)
(* then takes the steps of its chain one by one. Field elements have ten   *)
(* limbs of EvenBits and OddBits in turn, scalars twelve of ScBits, and    *)
(* twelve more before they are reduced.                                    *)
(***************************************************************************)
EXTENDS Integers, Sequences

CONSTANTS
  EvenBits, OddBits,  \* 26, 25
  Fold,               \* 19: 2^255 modulo the field prime
  MulConst,           \* 121666
  ScBits,             \* 21
  FoldDigits,         \* 2^252 modulo L, in six digits of ScBits
  ChunkStarts,        \* the first bits of the words that fe_frombytes loads
  Slack,              \* 1% of 2^24: how far a last carry pushes a limb
  Elements,           \* what fe_mul, fe_sq and fe_sq2 are given: limbs
  Differences,        \* what fe_mul121666 is given
  SmallElements,      \* what fe_tobytes is given
  Strings,            \* arguments of fe_frombytes: the words that it loads
  Scalars,            \* arguments of sc_muladd: twelve limbs
  LongScalars         \* arguments of sc_reduce: 24 limbs

Limbs == 0..9
ScLimbs == 0..23

ASSUME LimbConstants ==
  /\ {EvenBits, OddBits, ScBits} \subseteq Nat \ {0}
  /\ {Fold, MulConst, Slack} \subseteq Nat
  /\ FoldDigits \in [0..5 -> Int]
  /\ ChunkStarts \in [0..10 -> Nat]
  /\ Elements \cup Differences \cup SmallElements \subseteq [Limbs -> Int]
  /\ Strings \subseteq [Limbs -> Nat]
  /\ Scalars \subseteq [0..11 -> Nat] /\ LongScalars \subseteq [ScLimbs -> Nat]

VARIABLES
  fn,   \* the function called
  h,    \* its limbs
  at,   \* how many steps of its chain it has taken
  q,    \* fe_tobytes: multiples of 2^255 that are to be cut off
  of    \* history: the residue that the function computes

chainVars == <<fn, h, at, q, of>>

-----------------------------------------------------------------------------
IsScalar(name) == name \in {"sc_reduce", "sc_muladd"}

LimbBits(scalar, i) ==
  IF scalar THEN ScBits ELSE IF i % 2 = 0 THEN EvenBits ELSE OddBits

Bits(i) == LimbBits(IsScalar(fn), i)

\* Where the carry of limb i goes, and how often. From the last limb of a field
\* element it goes to the first one.
Above(i) == IF ~IsScalar(fn) /\ i = 9 THEN 0 ELSE i + 1

\* Mutant of Times: what leaves at the top comes in once at the bottom.
TimesOnce(i) == 1

Times(i) == IF ~IsScalar(fn) /\ i = 9 THEN Fold ELSE 1

Carry(i, c) == [h EXCEPT ![i] = @ - c * 2 ^ Bits(i), ![Above(i)] = @ + Times(i) * c]

-----------------------------------------------------------------------------
\* The chains. A step is <<what it does, to which limb>>.
Steps(kind, limbs) == [k \in 1..Len(limbs) |-> <<kind, limbs[k]>>]

Run(first, last, by) ==
  [k \in 1..((last - first) \div by + 1) |-> first + by * (k - 1)]

Down(first, last) == [k \in 1..(first - last + 1) |-> first + 1 - k]

\* fe_mul, fe_sq and fe_sq2.
ProductChain == Steps("round", <<0, 4, 1, 5, 2, 6, 3, 7, 4, 8, 9, 0>>)

\* fe_frombytes and fe_mul121666.
SinglePass == Steps("round", <<9, 1, 3, 5, 7, 0, 2, 4, 6, 8>>)

ToBytesChain ==
  <<<<"quotient", 9>>>> \o Steps("floor", Run(0, 8, 1)) \o <<<<"cut", 9>>>>

\* sc_reduce, from 24 limbs to 18, to 12 and twice from 13 to 12.
ReduceTo18 == Steps("fold", Down(23, 18))
ReduceTo12 ==
  Steps("round", Run(6, 16, 2)) \o Steps("round", Run(7, 15, 2))
    \o Steps("fold", Down(17, 12))
RoundTo13 == Steps("round", Run(0, 10, 2)) \o Steps("round", Run(1, 11, 2))

\* Mutant of ReduceLast: the scalar is folded once.
ReduceLastOnce == Steps("fold", <<12>>) \o Steps("floor", Run(0, 10, 1))

ReduceLast ==
  Steps("fold", <<12>>) \o Steps("floor", Run(0, 11, 1))
    \o Steps("fold", <<12>>) \o Steps("floor", Run(0, 10, 1))

ScReduceChain == ReduceTo18 \o ReduceTo12 \o RoundTo13 \o ReduceLast

\* sc_muladd has two rounds more in front of the same chain.
ScMulAddChain ==
  Steps("round", Run(0, 22, 2)) \o Steps("round", Run(1, 21, 2)) \o ScReduceChain

Chain ==
  [fe_mul |-> ProductChain, fe_sq |-> ProductChain, fe_sq2 |-> ProductChain,
   fe_mul121666 |-> SinglePass, fe_frombytes |-> SinglePass,
   fe_tobytes |-> ToBytesChain,
   sc_reduce |-> ScReduceChain, sc_muladd |-> ScMulAddChain, none |-> <<>>]

-----------------------------------------------------------------------------
SumOfTen(t) == t[0] + t[1] + t[2] + t[3] + t[4] + t[5] + t[6] + t[7] + t[8] + t[9]

\* What n digits s of so many bits stand for, times r, modulo m.
Reading(n, bits, r, s, m) ==
  LET from[i \in 0..n] ==
        IF i = n THEN 0 ELSE ((from[i + 1] * 2 ^ bits[i]) + r * s[i]) % m
  IN  from[0]

\* What the limbs s stand for.
Value(scalar, r, s, m) ==
  LET n == IF ~scalar THEN 10 ELSE IF 12 \in DOMAIN s THEN 24 ELSE 12
  IN  Reading(n, [i \in 0..(n - 1) |-> LimbBits(scalar, i)], r, s, m)

\* 2^255 - 19: ten limbs in five pairs.
Prime ==
  LET pair == 2 ^ EvenBits * 2 ^ OddBits
  IN  pair * pair * pair * pair * pair - Fold

\* 2^252, which is twelve limbs, without what a limb above it is folded to.
Order ==
  LET b == 2 ^ ScBits
      half == b * b * b * b * b * b
      d == FoldDigits
  IN  half * half - (d[0] + b * (d[1] + b * (d[2] + b * (d[3] + b * (d[4] + b * d[5])))))

Modulus == IF IsScalar(fn) THEN Order ELSE Prime

FeResidue(f) == Value(FALSE, 1, f, Prime)
ScResidue(s) == Value(TRUE, 1, s, Order)

-----------------------------------------------------------------------------
\* The sums that calls begin with. How often the product of limbs i and j counts:
\* two limbs of 25 bits are one bit higher than the limb they go to, and what is
\* above 2^255 is folded.
Weight(i, j) ==
  (IF i % 2 = 1 /\ j % 2 = 1 THEN 2 ELSE 1) * (IF i + j >= 10 THEN Fold ELSE 1)

\* fe_mul: every limb of f with every limb of g.
MulSums(f, g) ==
  [k \in Limbs |->
     SumOfTen([i \in Limbs |-> LET j == (k - i) % 10 IN Weight(i, j) * f[i] * g[j]])]

\* fe_sq: two different limbs once, doubled.
SqSums(f) ==
  [k \in Limbs |->
     SumOfTen([i \in Limbs |->
       LET j == (k - i) % 10
       IN  IF i > j THEN 0 ELSE (IF i < j THEN 2 ELSE 1) * Weight(i, j) * f[i] * f[j]])]

\* fe_sq2 doubles the sums.
Sq2Sums(f) == [k \in Limbs |-> 2 * SqSums(f)[k]]

\* fe_frombytes: the words, the last one without the sign bit, shifted from where
\* they begin in the string to where their limbs begin.
LimbStart(k) == (k \div 2) * (EvenBits + OddBits) + (k % 2) * EvenBits
Loaded(s) == [s EXCEPT ![9] = @ % 2 ^ (ChunkStarts[10] - ChunkStarts[9])]
Words(s) == [k \in Limbs |-> Loaded(s)[k] * 2 ^ (ChunkStarts[k] - LimbStart(k))]

\* sc_muladd: a b + c.
MulAddSums(a, b, c) ==
  [k \in ScLimbs |->
     LET t == [i \in 0..11 |-> IF k - i \in 0..11 THEN a[i] * b[k - i] ELSE 0]
     IN  SumOfTen(t) + t[10] + t[11] + IF k < 12 THEN c[k] ELSE 0]

Call(name, sums, residue) ==
  fn = name /\ h = sums /\ of = residue /\ at = 0 /\ q = 0

ChainInit ==
  \/ \E f, g \in Elements :
       Call("fe_mul", MulSums(f, g), Value(FALSE, FeResidue(f), g, Prime))
  \/ \E f \in Elements :
       LET square == Value(FALSE, FeResidue(f), f, Prime) IN
       Call("fe_sq", SqSums(f), square) \/ Call("fe_sq2", Sq2Sums(f), (2 * square) % Prime)
  \/ \E f \in Differences :
       Call("fe_mul121666", [k \in Limbs |-> MulConst * f[k]], Value(FALSE, MulConst, f, Prime))
  \/ \E s \in Strings :
       Call("fe_frombytes", Words(s),
            Reading(10, [k \in Limbs |-> ChunkStarts[k + 1] - ChunkStarts[k]], 1, Loaded(s), Prime))
  \/ \E f \in SmallElements : Call("fe_tobytes", f, FeResidue(f))
  \/ \E s \in LongScalars : Call("sc_reduce", s, ScResidue(s))
  \/ \E a, b, c \in Scalars :
       Call("sc_muladd", MulAddSums(a, b, c),
            (Value(TRUE, ScResidue(a), b, Order) + ScResidue(c)) % Order)

-----------------------------------------------------------------------------
Takes(kind) == at < Len(Chain[fn]) /\ Chain[fn][at + 1][1] = kind

Limb == Chain[fn][at + 1][2]

\* Mutant of Nearest: the carry is rounded down.
NearestBelow(x, bits) == x \div 2 ^ bits

Nearest(x, bits) == (x + 2 ^ (bits - 1)) \div 2 ^ bits

\* The carry is rounded to the nearest: the limb may stay negative.
Round ==
  /\ Takes("round")
  /\ h' = Carry(Limb, Nearest(h[Limb], Bits(Limb)))
  /\ at' = at + 1
  /\ UNCHANGED <<fn, q, of>>

\* The carry is rounded down: no limb stays negative.
Floor ==
  /\ Takes("floor")
  /\ h' = Carry(Limb, h[Limb] \div 2 ^ Bits(Limb))
  /\ at' = at + 1
  /\ UNCHANGED <<fn, q, of>>

\* A limb above 2^252 goes to the six limbs twelve below it.
FoldLimb ==
  /\ Takes("fold")
  /\ h' = [k \in DOMAIN h |->
             IF k = Limb THEN 0
             ELSE IF k - (Limb - 12) \in 0..5
               THEN h[k] + FoldDigits[k - (Limb - 12)] * h[Limb]
             ELSE h[k]]
  /\ at' = at + 1
  /\ UNCHANGED <<fn, q, of>>

\* Mutant of Estimate: what 19 q carries is not looked at.
EstimateTop == Nearest(h[9], OddBits)

\* fe_tobytes: how often 2^255 - 19 goes into h.
Estimate ==
  LET q0 == Nearest(Fold * h[9], OddBits)
      upto[i \in Limbs] == (h[i] + IF i = 0 THEN q0 ELSE upto[i - 1]) \div 2 ^ Bits(i)
  IN  upto[9]

Quotient ==
  /\ Takes("quotient")
  /\ q' = Estimate
  /\ h' = [h EXCEPT ![0] = @ + Fold * q']
  /\ at' = at + 1
  /\ UNCHANGED <<fn, of>>

\* fe_tobytes drops the last carry: it is what q is for.
Cut ==
  /\ Takes("cut")
  /\ h' = [h EXCEPT ![9] = @ % 2 ^ Bits(9)]
  /\ q' = 0
  /\ at' = at + 1
  /\ UNCHANGED <<fn, of>>

ChainNext == Round \/ Floor \/ FoldLimb \/ Quotient \/ Cut

ChainSpec == ChainInit /\ [][ChainNext]_chainVars

-----------------------------------------------------------------------------
\* No step of a chain changes what the limbs stand for, also where q multiples
\* of 2^255 are still to be cut off and when they are.
ResidueKept ==
  fn # "none" => (Value(IsScalar(fn), 1, h, Modulus) - Fold * q) % Modulus = of

\* Products, and what is read from a string, can be used as factors and in sums
\* at once: all limbs are within half of their bits, but those to which the last
\* carries went.
Products == {"fe_mul", "fe_sq", "fe_sq2"}
SinglePasses == {"fe_mul121666", "fe_frombytes"}

Overhanging == IF fn \in Products THEN {1, 5} ELSE {1, 3, 5, 7, 9}

LimbsCarried ==
  fn \in Products \cup SinglePasses /\ at = Len(Chain[fn]) =>
    \A i \in Limbs :
      LET most == 2 ^ (Bits(i) - 1) + IF i \in Overhanging THEN Slack ELSE 0
      IN  -most <= h[i] /\ h[i] <= most

\* What fe_tobytes, sc_reduce and sc_muladd write is the residue itself, though
\* the twelfth limb of a scalar may have one bit more than the others.
ResultIsReduced ==
  fn \in {"fe_tobytes", "sc_reduce", "sc_muladd"} /\ at = Len(Chain[fn]) =>
    /\ \A i \in DOMAIN h :
         h[i] \in 0..(IF IsScalar(fn) /\ i > 11 THEN 0
                     ELSE 2 ^ Bits(i) - IF IsScalar(fn) /\ i = 11 THEN 0 ELSE 1)
    /\ Value(IsScalar(fn), 1, h, 2 * Modulus) = of
=============================================================================
