--------------------------- MODULE Ed25519Proofs ---------------------------
(***************************************************************************)
(* No operation of the library overflows a limb, for every prime, every    *)
(* curve, every size of scalars and all operands: each form of a point has *)
(* a bound on its limbs that all operations which take and return that form*)
(* keep, and below which no product or encoding overflows; the scalar      *)
(* multiplications, the ladder and the decoding of keys are made of these  *)
(* operations, with signed digits that never leave their tables. The       *)
(* comments in fe.c state bounds for each operation; nothing in the code   *)
(* says that callers keep them. With the types of the keys, and with the   *)
(* exponents that the addition chains reach.                               *)
(***************************************************************************)
EXTENDS Ed25519, AdditionChains, FiniteSetTheorems, WellFoundedInduction, TLAPS

\* Complete induction up to n.
LEMMA Upwards ==
  ASSUME NEW n \in Nat, NEW G,
         \A k \in 0..n : (\A j \in 0..(k - 1) : j \in G) => k \in G
  PROVE  0..n \subseteq G
<1> SUFFICES ASSUME NEW m \in 0..n, m \notin G PROVE FALSE
  OBVIOUS
<1> DEFINE T == {k \in 0..n : k \notin G}
<1>1. T \subseteq Nat /\ T # {}
  BY SMT
<1>2. IsWellFoundedOn(OpToRel(<, Nat), Nat)
  BY NatLessThanWellFounded, Zenon
<1>3. PICK k \in T : \A j \in T : ~(<<j, k>> \in OpToRel(<, Nat))
  <2> HIDE DEF T
  <2> QED BY <1>1, <1>2, WFMin, Zenon
<1>4. \A j \in 0..(k - 1) : j \in G
  <2> SUFFICES ASSUME NEW j \in 0..(k - 1), j \notin G PROVE FALSE
    OBVIOUS
  <2>1. j \in T /\ j < k /\ j \in Nat /\ k \in Nat
    BY SMT
  <2>2. <<j, k>> \in OpToRel(<, Nat)
    BY <2>1, Zenon DEF OpToRel
  <2> QED BY <1>3, <2>1, <2>2, Zenon
<1> QED BY <1>4

\* What equations a function on 0..n may be defined by: first[k] is its value for
\* a k in base, and next makes the value for each other k of the one for prev[k],
\* which is smaller. They are typed so that the value for k is one of I[k].
Recursion(n, V, I, base, prev, first, next) ==
  /\ n \in Nat /\ I \in [0..n -> SUBSET V]
  /\ base \in SUBSET (0..n) /\ prev \in [0..n -> Nat]
  /\ first \in [0..n -> V] /\ next \in [(0..n) \X V -> V]
  /\ \A k \in base : first[k] \in I[k]
  /\ \A k \in (0..n) \ base :
       prev[k] < k /\ \A v \in I[prev[k]] : next[<<k, v>>] \in I[k]

\* f is such a function.
SolvesRecursion(f, n, V, base, prev, first, next) ==
  /\ f \in [0..n -> V]
  /\ \A k \in 0..n : f[k] = IF k \in base THEN first[k] ELSE next[<<k, f[prev[k]]>>]

\* Such equations define a function: there is one that satisfies them, so that
\* CHOOSE, which a recursive definition stands for, yields it.
LEMMA RecursiveFunction ==
  ASSUME NEW n, NEW V, NEW I, NEW base, NEW prev, NEW first, NEW next,
         Recursion(n, V, I, base, prev, first, next)
  PROVE  \E f : SolvesRecursion(f, n, V, base, prev, first, next)
<1> USE DEF Recursion
<1> DEFINE Solves(f, k) ==
             /\ f[k] \in I[k]
             /\ f[k] = IF k \in base THEN first[k] ELSE next[<<k, f[prev[k]]>>]
           G == {m \in 0..n : \E f \in [0..n -> V] : \A k \in 0..m : Solves(f, k)}
<1>1. ASSUME NEW m \in 0..n, \A j \in 0..(m - 1) : j \in G
      PROVE  m \in G
  <2>1. PICK f \in [0..n -> V] : \A k \in 0..(m - 1) : Solves(f, k)
    <3>1. CASE m = 0
      <4>1. 0..(m - 1) = {}
        BY <3>1, SMT
      <4> QED BY <4>1
    <3>2. CASE m # 0
      <4>1. m - 1 \in 0..(m - 1)
        BY <3>2, SMT
      <4> QED BY <1>1, <4>1
    <3> QED BY <3>1, <3>2
  <2> DEFINE v == IF m \in base THEN first[m] ELSE next[<<m, f[prev[m]]>>]
             g == [f EXCEPT ![m] = v]
  <2>2. v \in I[m]
    <3>1. CASE m \in base
      BY <3>1
    <3>2. CASE m \notin base
      <4>1. prev[m] \in 0..(m - 1)
        BY <3>2, SMT
      <4>2. f[prev[m]] \in I[prev[m]]
        BY <2>1, <4>1
      <4> QED BY <3>2, <4>2
    <3> QED BY <3>1, <3>2
  <2>3. v \in V
    BY <2>2
  <2>4. g \in [0..n -> V] /\ g[m] = v /\ \A k \in 0..(m - 1) : g[k] = f[k]
    <3>1. \A k \in 0..(m - 1) : k # m /\ k \in 0..n
      BY SMT
    <3> HIDE DEF v
    <3> QED BY <2>3, <3>1
  <2> HIDE DEF g
  <2>5. ASSUME NEW k \in 0..m PROVE Solves(g, k)
    <3>1. k \in base \/ prev[k] \in 0..(m - 1)
      BY SMT
    <3>2. k \in base \/ g[prev[k]] = f[prev[k]]
      BY <2>4, <3>1
    <3>3. CASE k = m
      BY <2>2, <2>4, <3>2, <3>3
    <3>4. CASE k # m
      <4>1. k \in 0..(m - 1)
        BY <3>4, SMT
      <4> QED BY <2>1, <2>4, <3>2, <4>1
    <3> QED BY <3>3, <3>4
  <2> HIDE DEF Solves
  <2> QED BY <2>4, <2>5
<1>2. n \in G
  <2>1. n \in 0..n
    BY SMT
  <2> HIDE DEF G
  <2> QED BY <1>1, <2>1, Upwards
<1> QED BY <1>2 DEF SolvesRecursion

\* Powers of two, as the numbers of subsets.
LEMMA PowersOfTwo ==
  /\ \A n \in Nat : 2 ^ n \in Nat \ {0} /\ 2 ^ (n + 1) = 2 * 2 ^ n
  /\ \A m, n \in Nat : m <= n => 2 ^ m <= 2 ^ n
<1>1. \A n \in Nat : IsFiniteSet(SUBSET (1..n)) /\ Cardinality(SUBSET (1..n)) = 2 ^ n
  <2> TAKE n \in Nat
  <2>1. IsFiniteSet(1..n) /\ Cardinality(1..n) = IF 1 > n THEN 0 ELSE n - 1 + 1
    BY FS_Interval
  <2>2. Cardinality(1..n) = n
    BY <2>1, SMT
  <2> QED BY <2>1, <2>2, FS_SUBSET
<1>2. \A n \in Nat : 2 ^ n \in Nat \ {0}
  <2> TAKE n \in Nat
  <2>1. SUBSET (1..n) # {}
    OBVIOUS
  <2> QED BY <1>1, <2>1, FS_CardinalityType, FS_EmptySet
<1>3. \A m, n \in Nat : m <= n => 2 ^ m <= 2 ^ n
  <2> SUFFICES ASSUME NEW m \in Nat, NEW n \in Nat, m <= n PROVE 2 ^ m <= 2 ^ n
    OBVIOUS
  <2>1. SUBSET (1..m) \in SUBSET SUBSET (1..n)
    <3>1. \A j \in 1..m : j \in 1..n
      BY SMT
    <3> QED BY <3>1
  <2>2. Cardinality(SUBSET (1..m)) <= Cardinality(SUBSET (1..n))
    BY <1>1, <2>1, FS_Subset
  <2> QED BY <1>1, <2>2
<1>4. ASSUME NEW n \in Nat PROVE 2 ^ (n + 1) = 2 * 2 ^ n
  <2> DEFINE A == SUBSET (1..n)
             B == {T \in SUBSET (1..(n + 1)) : n + 1 \in T}
             grow == [T \in A |-> T \cup {n + 1}]
  <2>1. n + 1 \in Nat /\ n + 1 \notin 1..n /\ 1..(n + 1) = (1..n) \cup {n + 1}
    BY SMT
  <2>2. A \cup B = SUBSET (1..(n + 1)) /\ A \cap B = {}
    BY <2>1
  <2>3. grow \in Bijection(A, B)
    <3>1. grow \in [A -> B]
      BY <2>1
    <3>2. ASSUME NEW S \in A, NEW T \in A, grow[S] = grow[T] PROVE S = T
      BY <2>1, <3>2
    <3>3. ASSUME NEW T \in B PROVE \E S \in A : grow[S] = T
      <4>1. T \ {n + 1} \in A /\ (T \ {n + 1}) \cup {n + 1} = T
        BY <2>1
      <4> QED BY <4>1
    <3> HIDE DEF grow, A, B
    <3> QED BY <3>1, <3>2, <3>3, Zenon DEF Bijection, Injection, Surjection, IsInjective
  <2>4. IsFiniteSet(A) /\ Cardinality(A) = 2 ^ n
    BY <1>1
  <2>5. IsFiniteSet(B) /\ Cardinality(B) = Cardinality(A)
    <3> HIDE DEF A, B, grow
    <3> QED BY <2>3, <2>4, FS_Bijection DEF ExistsBijection
  <2>6. Cardinality(A \cup B) = Cardinality(A) + Cardinality(B) - Cardinality(A \cap B)
    <3> HIDE DEF A, B
    <3> QED BY <2>4, <2>5, FS_Union
  <2>7. Cardinality(A \cup B) = 2 ^ (n + 1)
    BY <1>1, <2>1, <2>2
  <2>8. Cardinality(A \cap B) = 0
    <3> HIDE DEF A, B
    <3> QED BY <2>2, FS_EmptySet
  <2>9. 2 ^ n \in Nat
    BY <1>2
  <2> HIDE DEF A, B
  <2>10. 2 ^ (n + 1) = 2 ^ n + 2 ^ n - 0
    BY <2>4, <2>5, <2>6, <2>7, <2>8
  <2> QED BY <2>9, <2>10, SMT
<1> QED BY <1>2, <1>3, <1>4

-----------------------------------------------------------------------------
\* The prime is at least 5.
LEMMA PrimeIs ==
  /\ P \in Nat /\ P >= 5 /\ FieldBits \in Nat /\ P < 2 ^ FieldBits
  /\ \A x \in Int : x % P \in Residues
  /\ Residues \subseteq Int
<1>1. P \in Nat /\ P >= 5 /\ FieldBits \in Nat /\ P < 2 ^ FieldBits
  BY FieldConstants, SMT
<1>2. \A x \in Int : x % P \in Residues
  BY <1>1, SMT DEF Residues
<1>3. Residues \subseteq Int
  BY <1>1, SMT DEF Residues
<1> QED BY <1>1, <1>2, <1>3

\* The arithmetic of residues stays within the integers.
LEMMA TimesTyped == \A x, y \in Int : x * y \in Int /\ x + y \in Int /\ x - y \in Int /\ -x \in Int
BY SMT

\* Square and multiply yields residues.
LEMMA PowTyped ==
  ASSUME NEW z, z.val \in Residues, NEW n \in Nat
  PROVE  FePow(z, n).val \in Residues
<1> DEFINE Value(k, v) == IF k % 2 = 0 THEN (v * v) % P ELSE (((v * v) % P) * z.val) % P
           Rec(f) == f = [k \in 0..n |-> IF k = 0 THEN 1 ELSE Value(k, f[k \div 2])]
           g == CHOOSE f : Rec(f)
<1>1. \A k : \A v \in Residues : Value(k, v) \in Residues
  BY PrimeIs, TimesTyped
<1>2. 1 \in Residues /\ \A k \in 1..n : k \div 2 \in 0..n /\ k \div 2 < k /\ k \div 2 \in 0..(k - 1)
  BY PrimeIs, SMT DEF Residues
<1>3. \E f : Rec(f)
  <2> DEFINE I == [k \in 0..n |-> Residues]
             prev == [k \in 0..n |-> k \div 2]
             base == {0}
             first == [k \in 0..n |-> 1]
             next == [x \in (0..n) \X Residues |-> Value(x[1], x[2])]
  <2> HIDE DEF Value
  <2>1. I \in [0..n -> SUBSET Residues] /\ base \in SUBSET (0..n) /\ prev \in [0..n -> Nat]
    BY SMT
  <2>2. first \in [0..n -> Residues] /\ next \in [(0..n) \X Residues -> Residues]
    BY <1>1, <1>2
  <2>3. \A k \in base : first[k] \in I[k]
    BY <1>2, <2>1
  <2>4. \A k \in (0..n) \ base : k \in 1..n
    BY SMT
  <2>5. \A k \in (0..n) \ base : prev[k] < k /\ \A v \in I[prev[k]] : next[<<k, v>>] \in I[k]
    BY <1>1, <1>2, <2>4
  <2>6. Recursion(n, Residues, I, base, prev, first, next)
    <3> HIDE DEF I, prev, base, first, next
    <3> QED BY <2>1, <2>2, <2>3, <2>5 DEF Recursion
  <2>7. PICK f : SolvesRecursion(f, n, Residues, base, prev, first, next)
    <3> HIDE DEF I, prev, base, first, next
    <3> QED BY <2>6, RecursiveFunction
  <2>8. \A k \in 0..n : f[k] = IF k = 0 THEN 1 ELSE Value(k, f[k \div 2])
    BY <1>2, <2>4, <2>7 DEF SolvesRecursion
  <2>9. f = [k \in 0..n |-> f[k]]
    BY <2>7 DEF SolvesRecursion
  <2> QED BY <2>8, <2>9
<1>4. Rec(g)
  <2> HIDE DEF Rec
  <2> QED BY <1>3, Zenon
<1>5. FePow(z, n).val = g[n]
  BY DEF FePow
<1> HIDE DEF g
<1>6. ASSUME NEW k \in 0..n, \A j \in 0..(k - 1) : j \in {i \in 0..n : g[i] \in Residues}
      PROVE  k \in {i \in 0..n : g[i] \in Residues}
  <2>1. g[k] = IF k = 0 THEN 1 ELSE Value(k, g[k \div 2])
    <3> HIDE DEF Value
    <3> QED BY <1>4
  <2>2. k = 0 \/ k \in 1..n
    BY SMT
  <2> HIDE DEF Value
  <2> QED BY <1>1, <1>2, <1>6, <2>1, <2>2
<1>7. n \in 0..n
  BY SMT
<1>8. 0..n \subseteq {i \in 0..n : g[i] \in Residues}
  BY <1>6, Upwards
<1> QED BY <1>5, <1>7, <1>8

-----------------------------------------------------------------------------
\* The inverses are integers.
LEMMA InverseTyped == \A n \in Residues : ModInverse[n] \in Int
<1> DEFINE Value(k, v) == (-(P \div k) * v) % P
           Rec(f) == f = [k \in Residues |-> IF k <= 1 THEN k ELSE Value(k, f[P % k])]
           N == P - 1
<1>1. N \in Nat /\ Residues = 0..N /\ 0 \in 0..N /\ 1 \in 0..N
  BY PrimeIs, SMT DEF Residues
<1>2. \A k \in (0..N) \ {0, 1} :
        /\ ~(k <= 1) /\ P \div k \in Int
        /\ P % k \in Nat /\ P % k < k /\ P % k \in 0..(k - 1) /\ P % k \in 0..N
  BY PrimeIs, SMT
<1>3. \A k \in (0..N) \ {0, 1} : \A v \in Residues : Value(k, v) \in Residues
  BY <1>2, PrimeIs, TimesTyped
<1> HIDE DEF N
<1>4. \E f : Rec(f)
  <2> DEFINE I == [k \in 0..N |-> Residues]
             base == {0, 1}
             prev == [k \in 0..N |-> IF k \in base THEN 0 ELSE P % k]
             first == [k \in 0..N |-> IF k \in base THEN k ELSE 0]
             next == [x \in (0..N) \X Residues |-> IF x[1] \in base THEN 0 ELSE Value(x[1], x[2])]
  <2> HIDE DEF Value
  <2>1. I \in [0..N -> SUBSET Residues] /\ base \in SUBSET (0..N) /\ prev \in [0..N -> Nat]
    <3>1. \A k \in 0..N : (IF k \in base THEN 0 ELSE P % k) \in Nat
      BY <1>2
    <3> QED BY <1>1, <3>1
  <2>2. first \in [0..N -> Residues] /\ next \in [(0..N) \X Residues -> Residues]
    <3>1. \A x \in (0..N) \X Residues :
            (IF x[1] \in base THEN 0 ELSE Value(x[1], x[2])) \in Residues
      BY <1>1, <1>3
    <3>2. \A k \in 0..N : (IF k \in base THEN k ELSE 0) \in Residues
      BY <1>1
    <3> QED BY <3>1, <3>2
  <2>3. \A k \in base : first[k] \in I[k]
    BY <1>1, <2>1
  <2>4. \A k \in (0..N) \ base : prev[k] < k /\ \A v \in I[prev[k]] : next[<<k, v>>] \in I[k]
    BY <1>2, <1>3
  <2>5. Recursion(N, Residues, I, base, prev, first, next)
    <3> HIDE DEF I, prev, base, first, next
    <3> QED BY <1>1, <2>1, <2>2, <2>3, <2>4 DEF Recursion
  <2>6. PICK f : SolvesRecursion(f, N, Residues, base, prev, first, next)
    <3> HIDE DEF I, prev, base, first, next
    <3> QED BY <2>5, RecursiveFunction
  <2>7. f \in [0..N -> Residues]
    BY <2>6 DEF SolvesRecursion
  <2>8. \A k \in Residues : f[k] = IF k <= 1 THEN k ELSE Value(k, f[P % k])
    <3>1. \A k \in base : k <= 1
      BY SMT
    <3> QED BY <1>1, <1>2, <2>6, <2>7, <3>1 DEF SolvesRecursion
  <2>9. f = [k \in Residues |-> f[k]]
    BY <1>1, <2>7
  <2> QED BY <2>8, <2>9
<1>5. Rec(ModInverse)
  <2>1. ModInverse = CHOOSE f : Rec(f)
    BY DEF ModInverse
  <2> HIDE DEF Rec
  <2> QED BY <1>4, <2>1, Zenon
<1>6. ASSUME NEW k \in 0..N, \A j \in 0..(k - 1) : j \in {i \in 0..N : ModInverse[i] \in Int}
      PROVE  k \in {i \in 0..N : ModInverse[i] \in Int}
  <2>1. ModInverse[k] = IF k <= 1 THEN k ELSE Value(k, ModInverse[P % k])
    <3> HIDE DEF Value
    <3> QED BY <1>1, <1>5
  <2>2. CASE k \in {0, 1}
    <3>1. k <= 1 /\ k \in Int
      BY <2>2, SMT
    <3> QED BY <2>1, <3>1
  <2>3. CASE k \notin {0, 1}
    <3>1. ModInverse[P % k] \in Int
      BY <1>2, <1>6, <2>3
    <3>2. Value(k, ModInverse[P % k]) \in Int
      BY <1>2, <2>3, <3>1, PrimeIs, TimesTyped
    <3> HIDE DEF Value
    <3> QED BY <1>2, <2>1, <2>3, <3>2
  <2> QED BY <2>2, <2>3
<1>7. 0..N \subseteq {i \in 0..N : ModInverse[i] \in Int}
  BY <1>1, <1>6, Upwards
<1> QED BY <1>1, <1>7

\* Pairs of residues, which points of the curve are among.
EdPoints == Residues \X Residues

\* Sums of points by the addition law are pairs of residues.
LEMMA EdAddTyped == \A p, q \in EdPoints : EdAdd(p, q) \in EdPoints
<1>1. \A m, n \in Int : ModMul(m, n) \in Residues /\ ModMul(m, n) \in Int
  BY PrimeIs, TimesTyped DEF ModMul
<1> SUFFICES ASSUME NEW p \in EdPoints, NEW q \in EdPoints PROVE EdAdd(p, q) \in EdPoints
  OBVIOUS
<1> DEFINE t == ModMul(D, ModMul(ModMul(p[1], q[1]), ModMul(p[2], q[2])))
<1>2. p[1] \in Int /\ p[2] \in Int /\ q[1] \in Int /\ q[2] \in Int /\ D \in Int
  BY CurveConstant, PrimeIs DEF EdPoints
<1>3. t \in Int
  BY <1>1, <1>2
<1> HIDE DEF t
<1>4. ModInverse[(1 + t) % P] \in Int /\ ModInverse[(1 - t) % P] \in Int
  <2>1. 1 + t \in Int /\ 1 - t \in Int
    BY <1>3, SMT
  <2> QED BY <2>1, InverseTyped, PrimeIs
<1>5. ModMul(ModMul(p[1], q[2]) + ModMul(q[1], p[2]), ModInverse[(1 + t) % P]) \in Residues
  <2>1. ModMul(p[1], q[2]) + ModMul(q[1], p[2]) \in Int
    BY <1>1, <1>2, TimesTyped
  <2> QED BY <1>1, <1>4, <2>1
<1>6. ModMul(ModMul(p[2], q[2]) + ModMul(p[1], q[1]), ModInverse[(1 - t) % P]) \in Residues
  <2>1. ModMul(p[2], q[2]) + ModMul(p[1], q[1]) \in Int
    BY <1>1, <1>2, TimesTyped
  <2> QED BY <1>1, <1>4, <2>1
<1> QED BY <1>5, <1>6 DEF EdAdd, EdPoints, t

\* So are multiples.
LEMMA EdMulTyped ==
  ASSUME NEW n \in Nat, NEW p \in EdPoints
  PROVE  EdMul(n, p) \in EdPoints
<1> DEFINE Twice(v) == [u \in {v} |-> EdAdd(u, u)][v]
           Value(k, v) == IF k % 2 = 0 THEN Twice(v) ELSE EdAdd(Twice(v), p)
           Rec(f) == f = [k \in 0..n |-> IF k = 0 THEN EdZero ELSE Value(k, f[k \div 2])]
           g == CHOOSE f : Rec(f)
<1>1. \A k : \A v \in EdPoints : Value(k, v) \in EdPoints
  <2>1. \A v \in EdPoints : Twice(v) = EdAdd(v, v)
    OBVIOUS
  <2> HIDE DEF Twice
  <2> QED BY <2>1, EdAddTyped
<1>2. EdZero \in EdPoints
  <2>1. 0 \in Residues /\ 1 \in Residues
    BY PrimeIs, SMT DEF Residues
  <2> QED BY <2>1 DEF EdPoints, EdZero
<1>3. \A k \in 1..n : k \div 2 \in 0..n /\ k \div 2 < k /\ k \div 2 \in 0..(k - 1)
  BY SMT
<1>4. \E f : Rec(f)
  <2> DEFINE I == [k \in 0..n |-> EdPoints]
             prev == [k \in 0..n |-> k \div 2]
             base == {0}
             first == [k \in 0..n |-> EdZero]
             next == [x \in (0..n) \X EdPoints |-> Value(x[1], x[2])]
  <2> HIDE DEF Value
  <2>1. I \in [0..n -> SUBSET EdPoints] /\ base \in SUBSET (0..n) /\ prev \in [0..n -> Nat]
    BY SMT
  <2>2. first \in [0..n -> EdPoints] /\ next \in [(0..n) \X EdPoints -> EdPoints]
    BY <1>1, <1>2
  <2>3. \A k \in base : first[k] \in I[k]
    BY <1>2, <2>1
  <2>4. \A k \in (0..n) \ base : k \in 1..n
    BY SMT
  <2>5. \A k \in (0..n) \ base : prev[k] < k /\ \A v \in I[prev[k]] : next[<<k, v>>] \in I[k]
    BY <1>1, <1>3, <2>4
  <2>6. Recursion(n, EdPoints, I, base, prev, first, next)
    <3> HIDE DEF I, prev, base, first, next
    <3> QED BY <2>1, <2>2, <2>3, <2>5 DEF Recursion
  <2>7. PICK f : SolvesRecursion(f, n, EdPoints, base, prev, first, next)
    <3> HIDE DEF I, prev, base, first, next
    <3> QED BY <2>6, RecursiveFunction
  <2>8. \A k \in 0..n : f[k] = IF k = 0 THEN EdZero ELSE Value(k, f[k \div 2])
    BY <1>3, <2>4, <2>7 DEF SolvesRecursion
  <2>9. f = [k \in 0..n |-> f[k]]
    BY <2>7 DEF SolvesRecursion
  <2> QED BY <2>8, <2>9
<1>5. Rec(g)
  <2> HIDE DEF Rec
  <2> QED BY <1>4, Zenon
<1>6. EdMul(n, p) = g[n]
  BY DEF EdMul
<1> HIDE DEF g
<1>7. ASSUME NEW k \in 0..n, \A j \in 0..(k - 1) : j \in {i \in 0..n : g[i] \in EdPoints}
      PROVE  k \in {i \in 0..n : g[i] \in EdPoints}
  <2>1. g[k] = IF k = 0 THEN EdZero ELSE Value(k, g[k \div 2])
    <3> HIDE DEF Value
    <3> QED BY <1>5
  <2>2. k = 0 \/ k \in 1..n
    BY SMT
  <2> HIDE DEF Value
  <2> QED BY <1>1, <1>2, <1>3, <1>7, <2>1, <2>2
<1>8. n \in 0..n
  BY SMT
<1>9. 0..n \subseteq {i \in 0..n : g[i] \in EdPoints}
  BY <1>7, Upwards
<1> QED BY <1>6, <1>8, <1>9

-----------------------------------------------------------------------------
\* A field element with no limb beyond n.
Fits(f, n) == f \in Fe /\ f.max \in 0..n

\* Points in the forms that last: all limbs as a carry chain leaves them.
P2Fits(p) == Fits(p.X, Carried) /\ Fits(p.Y, Carried) /\ Fits(p.Z, Carried)
P3Fits(p) == P2Fits(p) /\ Fits(p.T, Carried)

\* Points as summands: y + x and y - x are not carried.
CachedFits(q) ==
  /\ Fits(q.YplusX, 2 * Carried) /\ Fits(q.YminusX, 2 * Carried)
  /\ Fits(q.Z, Carried) /\ Fits(q.T2d, Carried)

PrecompFits(q) ==
  Fits(q.yplusx, Carried) /\ Fits(q.yminusx, Carried) /\ Fits(q.xy2d, Carried)

\* Sums: up to three carried elements added up.
P1P1Fits(p) ==
  /\ Fits(p.X, 3 * Carried) /\ Fits(p.Y, 3 * Carried)
  /\ Fits(p.Z, 3 * Carried) /\ Fits(p.T, 3 * Carried)

LadderFits(s) ==
  Fits(s.x2, Carried) /\ Fits(s.z2, Carried) /\ Fits(s.x3, Carried) /\ Fits(s.z3, Carried)

-----------------------------------------------------------------------------
\* Sums of up to three carried elements may be multiplied.
LEMMA SmallProducts ==
  ASSUME NEW a \in 0..303, NEW b \in 0..303
  PROVE  1 * 125 * a * b < Int64 /\ 2 * 125 * a * b < Int64
<1>1. a \in Nat /\ b \in Nat /\ a <= 303 /\ b <= 303
  BY SMT
<1>2. a * b \in Nat
  BY <1>1, Z3
<1>3. a * b <= 303 * b
  BY <1>1, Z3
<1>4. 1 * 125 * a * b = 125 * (a * b) /\ 2 * 125 * a * b = 250 * (a * b)
  BY <1>1, Z3
<1>5. \A n \in Nat : n <= 303 * b => 125 * n < 8192 * 10000 /\ 250 * n < 8192 * 10000
  BY <1>1, SMT
<1>6. 125 * (a * b) < 8192 * 10000 /\ 250 * (a * b) < 8192 * 10000
  BY <1>2, <1>3, <1>5
<1> QED BY <1>4, <1>6 DEF Int64

\* fe_mul takes sums and returns a carried element.
LEMMA MulFits ==
  ASSUME NEW f, NEW g, Fits(f, 3 * Carried), Fits(g, 3 * Carried)
  PROVE  Fits(FeMul(f, g), Carried)
<1>1. f.max \in 0..303 /\ g.max \in 0..303
  BY SMT DEF Fits, Carried
<1>2. 1 * 125 * f.max * g.max < Int64
  BY <1>1, SmallProducts
<1>3. f.max < Int32 /\ 19 * g.max < Int32
  BY <1>1, SMT DEF Int32
<1>4. (f.val * g.val) % P \in Residues
  BY TimesTyped, PrimeIs DEF Fits, Fe
<1>5. Carried \in Nat /\ Carried \in 0..Carried
  BY SMT DEF Carried
<1>6. Product(f, g, 1) = Carried
  BY <1>2, <1>3 DEF Product
<1> QED BY <1>4, <1>5, <1>6 DEF FeMul, Fits, Fe

\* So do fe_sq and fe_sq2.
LEMMA SqFits ==
  ASSUME NEW f, Fits(f, 3 * Carried)
  PROVE  Fits(FeSq(f), Carried) /\ Fits(FeSq2(f), Carried)
<1>1. f.max \in 0..303
  BY SMT DEF Fits, Carried
<1>2. 1 * 125 * f.max * f.max < Int64 /\ 2 * 125 * f.max * f.max < Int64
  BY <1>1, SmallProducts
<1>3. f.max < Int32 /\ 19 * f.max < Int32
  BY <1>1, SMT DEF Int32
<1>4. (f.val * f.val) % P \in Residues /\ ((2 * f.val) * f.val) % P \in Residues
  <2>1. f.val \in Int
    BY PrimeIs DEF Fits, Fe
  <2>2. 2 * f.val \in Int
    BY <2>1, SMT
  <2> QED BY <2>1, <2>2, TimesTyped, PrimeIs
<1>5. Carried \in Nat /\ Carried \in 0..Carried
  BY SMT DEF Carried
<1>6. Product(f, f, 1) = Carried /\ Product(f, f, 2) = Carried
  BY <1>2, <1>3 DEF Product
<1> QED BY <1>4, <1>5, <1>6 DEF FeSq, FeSq2, Fits, Fe

\* fe_add, fe_sub and fe_neg do not carry.
LEMMA SumFits ==
  ASSUME NEW f, NEW g, NEW m \in Nat, NEW n \in Nat, Fits(f, m), Fits(g, n)
  PROVE  Fits(FeAdd(f, g), m + n) /\ Fits(FeSub(f, g), m + n) /\ Fits(FeNeg(f), m)
<1>1. f.max \in 0..m /\ g.max \in 0..n /\ f.val \in Residues /\ g.val \in Residues
  BY DEF Fits, Fe
<1>2. /\ (f.val + g.val) % P \in Residues /\ (f.val - g.val) % P \in Residues
      /\ (-f.val) % P \in Residues
  BY <1>1, TimesTyped, PrimeIs
<1>3. f.max + g.max \in Nat /\ f.max + g.max \in 0..(m + n) /\ f.max \in Nat
  BY <1>1, SMT
<1> QED BY <1>1, <1>2, <1>3 DEF Fits, Fe, FeAdd, FeSub, FeNeg

\* A smaller bound is a bound.
LEMMA LooseFits ==
  ASSUME NEW f, NEW m \in Nat, NEW n \in Nat, m <= n, Fits(f, m)
  PROVE  Fits(f, n)
<1> QED BY SMT DEF Fits

\* The multiplications of sums as the formulas have them.
LEMMA FieldFits ==
  /\ \A f, g : Fits(f, Carried) /\ Fits(g, Carried) =>
       Fits(FeAdd(f, g), 2 * Carried) /\ Fits(FeSub(f, g), 2 * Carried)
  /\ \A f, g : Fits(f, 2 * Carried) /\ Fits(g, Carried) =>
       Fits(FeAdd(f, g), 3 * Carried) /\ Fits(FeSub(f, g), 3 * Carried)
  /\ \A f, g : Fits(f, Carried) /\ Fits(g, 2 * Carried) =>
       Fits(FeAdd(f, g), 3 * Carried) /\ Fits(FeSub(f, g), 3 * Carried)
  /\ \A f, g : Fits(f, 3 * Carried) /\ Fits(g, 3 * Carried) => Fits(FeMul(f, g), Carried)
  /\ \A f : Fits(f, 3 * Carried) => Fits(FeSq(f), Carried) /\ Fits(FeSq2(f), Carried)
  /\ \A f : Fits(f, Carried) => Fits(FeNeg(f), Carried)
  /\ \A f : Fits(f, Carried) => Fits(f, 2 * Carried)
  /\ \A f : Fits(f, 2 * Carried) => Fits(f, 3 * Carried)
<1>1. /\ Carried \in Nat /\ 2 * Carried \in Nat /\ 3 * Carried \in Nat
      /\ Carried + Carried = 2 * Carried
      /\ 2 * Carried + Carried = 3 * Carried /\ Carried + 2 * Carried = 3 * Carried
      /\ Carried <= 2 * Carried /\ 2 * Carried <= 3 * Carried
  BY SMT DEF Carried
<1>2. \A f, g : Fits(f, Carried) /\ Fits(g, Carried) =>
        Fits(FeAdd(f, g), 2 * Carried) /\ Fits(FeSub(f, g), 2 * Carried)
  BY <1>1, SumFits
<1>3. \A f, g : Fits(f, 2 * Carried) /\ Fits(g, Carried) =>
        Fits(FeAdd(f, g), 3 * Carried) /\ Fits(FeSub(f, g), 3 * Carried)
  BY <1>1, SumFits
<1>4. \A f, g : Fits(f, Carried) /\ Fits(g, 2 * Carried) =>
        Fits(FeAdd(f, g), 3 * Carried) /\ Fits(FeSub(f, g), 3 * Carried)
  BY <1>1, SumFits
<1>5. \A f, g : Fits(f, 3 * Carried) /\ Fits(g, 3 * Carried) => Fits(FeMul(f, g), Carried)
  BY MulFits
<1>6. \A f : Fits(f, 3 * Carried) => Fits(FeSq(f), Carried) /\ Fits(FeSq2(f), Carried)
  BY SqFits
<1>7. \A f : Fits(f, Carried) => Fits(FeNeg(f), Carried)
  BY <1>1, SumFits
<1>8. /\ \A f : Fits(f, Carried) => Fits(f, 2 * Carried)
      /\ \A f : Fits(f, 2 * Carried) => Fits(f, 3 * Carried)
  BY <1>1, LooseFits
<1> QED BY <1>2, <1>3, <1>4, <1>5, <1>6, <1>7, <1>8

\* The constants of the curve are carried.
LEMMA ConstantsFit ==
  /\ \A n \in Residues : Fits(FeConst(n), Carried)
  /\ Fits(Zero, Carried) /\ Fits(One, Carried)
  /\ Fits(d, Carried) /\ Fits(d2, Carried) /\ Fits(sqrtm1, Carried)
<1>1. Carried \in Nat /\ {0, 1, Carried} \subseteq 0..Carried
  BY SMT DEF Carried
<1>2. \A n \in Residues : Fits(FeConst(n), Carried)
  BY <1>1 DEF Fits, Fe, FeConst
<1>3. 0 \in Residues /\ 1 \in Residues /\ 2 \in Residues /\ (P - 1) \div 4 \in Nat
  BY PrimeIs, SMT DEF Residues
<1>4. Fits(Zero, Carried) /\ Fits(One, Carried)
  BY <1>1, <1>3 DEF Fits, Fe, Zero, One
<1>5. D \in Residues /\ (2 * D) % P \in Residues
  BY CurveConstant, PrimeIs, TimesTyped
<1>6. FePow(FeConst(2), (P - 1) \div 4).val \in Residues
  BY <1>3, PowTyped DEF FeConst
<1> QED BY <1>2, <1>4, <1>5, <1>6 DEF d, d2, sqrtm1

\* The powers of an element that has been carried.
LEMMA PowFits ==
  ASSUME NEW z, Fits(z, 3 * Carried)
  PROVE  Fits(FeInvert(z), Carried) /\ Fits(FePow22523(z), Carried)
<1>1. Product(z, z, 1) \in 0..Carried /\ Product(z, z, 1) \in Nat
  BY MulFits DEF FeMul, Fits, Fe
<1>2. \A n \in Nat : Fits(FePow(z, n), Carried)
  <2> TAKE n \in Nat
  <2>1. FePow(z, n).val \in Residues
    BY PowTyped DEF Fits, Fe
  <2>2. FePow(z, n) = [val |-> FePow(z, n).val, max |-> Product(z, z, 1)]
    BY DEF FePow
  <2> HIDE DEF FePow
  <2> QED BY <1>1, <2>1, <2>2 DEF Fits, Fe
<1>3. P - 2 \in Nat /\ (P - 5) \div 8 \in Nat
  BY PrimeIs, SMT
<1> QED BY <1>2, <1>3 DEF FeInvert, FePow22523

-----------------------------------------------------------------------------
\* The summands a point is converted to, and the neutral elements.
LEMMA ConversionsFit ==
  /\ \A p : P3Fits(p) => P2Fits(GeP3ToP2(p)) /\ CachedFits(GeP3ToCached(p))
  /\ \A p : P1P1Fits(p) => P2Fits(GeP1P1ToP2(p)) /\ P3Fits(GeP1P1ToP3(p))
  /\ P2Fits(GeP20) /\ P3Fits(GeP30)
<1>1. ASSUME NEW p, P3Fits(p)
      PROVE  P2Fits(GeP3ToP2(p)) /\ CachedFits(GeP3ToCached(p))
  <2>1. Fits(d2, Carried)
    BY ConstantsFit
  <2>2. P2Fits(GeP3ToP2(p))
    BY <1>1 DEF P2Fits, P3Fits, GeP3ToP2
  <2>3. Fits(FeMul(p.T, d2), Carried)
    BY <1>1, <2>1, FieldFits DEF P3Fits
  <2>4. Fits(FeAdd(p.Y, p.X), 2 * Carried) /\ Fits(FeSub(p.Y, p.X), 2 * Carried)
    BY <1>1, FieldFits DEF P2Fits, P3Fits
  <2> QED BY <1>1, <2>2, <2>3, <2>4 DEF P2Fits, P3Fits, CachedFits, GeP3ToCached
<1>2. ASSUME NEW p, P1P1Fits(p)
      PROVE  P2Fits(GeP1P1ToP2(p)) /\ P3Fits(GeP1P1ToP3(p))
  <2>1. /\ Fits(FeMul(p.X, p.T), Carried) /\ Fits(FeMul(p.Y, p.Z), Carried)
        /\ Fits(FeMul(p.Z, p.T), Carried) /\ Fits(FeMul(p.X, p.Y), Carried)
    BY <1>2, MulFits DEF P1P1Fits
  <2> QED BY <2>1 DEF P2Fits, P3Fits, GeP1P1ToP2, GeP1P1ToP3
<1>3. P2Fits(GeP20) /\ P3Fits(GeP30)
  BY ConstantsFit DEF P2Fits, P3Fits, GeP20, GeP30
<1> QED BY <1>1, <1>2, <1>3

\* ge_add, ge_sub, ge_madd and ge_msub.
LEMMA GeSumFits ==
  ASSUME NEW p, NEW plus, NEW minus, NEW z, NEW t, P3Fits(p),
         Fits(plus, 2 * Carried), Fits(minus, 2 * Carried),
         Fits(z, 2 * Carried), Fits(t, Carried)
  PROVE  P1P1Fits(GeSum(p, plus, minus, z, t))
<1> DEFINE a == FeMul(FeAdd(p.Y, p.X), plus)
           b == FeMul(FeSub(p.Y, p.X), minus)
<1>1. Fits(FeAdd(p.Y, p.X), 3 * Carried) /\ Fits(FeSub(p.Y, p.X), 3 * Carried)
  BY FieldFits DEF P2Fits, P3Fits
<1>2. Fits(a, Carried) /\ Fits(b, Carried)
  BY <1>1, FieldFits
<1>3. Fits(FeSub(a, b), 3 * Carried) /\ Fits(FeAdd(a, b), 3 * Carried)
  BY <1>2, FieldFits
<1>4. Fits(FeAdd(z, t), 3 * Carried) /\ Fits(FeSub(z, t), 3 * Carried)
  BY FieldFits
<1> QED BY <1>3, <1>4 DEF GeSum, P1P1Fits

\* The four additions and the doubling: their results may be converted.
THEOREM SumsFit ==
  /\ \A p, q : P3Fits(p) /\ CachedFits(q) =>
       P1P1Fits(GeAdd(p, q)) /\ P1P1Fits(GeSub(p, q))
  /\ \A p, q : P3Fits(p) /\ PrecompFits(q) =>
       P1P1Fits(GeMadd(p, q)) /\ P1P1Fits(GeMsub(p, q))
  /\ \A p : P2Fits(p) => P1P1Fits(GeP2Dbl(p))
  /\ \A p : P3Fits(p) => P1P1Fits(GeP3Dbl(p))
<1>1. ASSUME NEW p, NEW q, P3Fits(p), CachedFits(q)
      PROVE  P1P1Fits(GeAdd(p, q)) /\ P1P1Fits(GeSub(p, q))
  <2> DEFINE zz == FeMul(p.Z, q.Z)
             t == FeMul(q.T2d, p.T)
  <2>1. Fits(zz, Carried) /\ Fits(t, Carried)
    BY <1>1, FieldFits DEF P2Fits, P3Fits, CachedFits
  <2>2. Fits(FeAdd(zz, zz), 2 * Carried) /\ Fits(FeNeg(t), Carried)
    BY <2>1, FieldFits
  <2> HIDE DEF zz, t
  <2>3. P1P1Fits(GeSum(p, q.YplusX, q.YminusX, FeAdd(zz, zz), t))
    BY <1>1, <2>1, <2>2, GeSumFits DEF CachedFits
  <2>4. P1P1Fits(GeSum(p, q.YminusX, q.YplusX, FeAdd(zz, zz), FeNeg(t)))
    BY <1>1, <2>2, GeSumFits DEF CachedFits
  <2> QED BY <2>3, <2>4 DEF GeAdd, GeSub, zz, t
<1>2. ASSUME NEW p, NEW q, P3Fits(p), PrecompFits(q)
      PROVE  P1P1Fits(GeMadd(p, q)) /\ P1P1Fits(GeMsub(p, q))
  <2> DEFINE t == FeMul(q.xy2d, p.T)
  <2>1. Fits(t, Carried)
    BY <1>2, FieldFits DEF P2Fits, P3Fits, PrecompFits
  <2>2. Fits(FeAdd(p.Z, p.Z), 2 * Carried) /\ Fits(FeNeg(t), Carried)
    BY <1>2, <2>1, FieldFits DEF P2Fits, P3Fits
  <2>3. Fits(q.yplusx, 2 * Carried) /\ Fits(q.yminusx, 2 * Carried)
    BY <1>2, FieldFits DEF PrecompFits
  <2> HIDE DEF t
  <2>4. P1P1Fits(GeSum(p, q.yplusx, q.yminusx, FeAdd(p.Z, p.Z), t))
    BY <1>2, <2>1, <2>2, <2>3, GeSumFits
  <2>5. P1P1Fits(GeSum(p, q.yminusx, q.yplusx, FeAdd(p.Z, p.Z), FeNeg(t)))
    BY <1>2, <2>2, <2>3, GeSumFits
  <2> QED BY <2>4, <2>5 DEF GeMadd, GeMsub, t
<1>3. ASSUME NEW p, P2Fits(p)
      PROVE  P1P1Fits(GeP2Dbl(p))
  <2> DEFINE xx == FeSq(p.X)
             yy == FeSq(p.Y)
             y == FeAdd(yy, xx)
             z == FeSub(yy, xx)
             xy == FeSq(FeAdd(p.X, p.Y))
             z2 == FeSq2(p.Z)
  <2>1. Fits(xx, Carried) /\ Fits(yy, Carried) /\ Fits(z2, Carried)
    BY <1>3, FieldFits DEF P2Fits
  <2>2. Fits(xy, Carried)
    BY <1>3, FieldFits DEF P2Fits
  <2>3. Fits(y, 2 * Carried) /\ Fits(z, 2 * Carried)
    BY <2>1, FieldFits
  <2>4. Fits(FeSub(xy, y), 3 * Carried) /\ Fits(FeSub(z2, z), 3 * Carried)
    BY <2>1, <2>2, <2>3, FieldFits
  <2>5. Fits(y, 3 * Carried) /\ Fits(z, 3 * Carried)
    BY <2>3, FieldFits
  <2> QED BY <2>4, <2>5 DEF P1P1Fits, GeP2Dbl
<1>4. \A p : P3Fits(p) => P1P1Fits(GeP3Dbl(p))
  BY <1>3, ConversionsFit DEF GeP3Dbl
<1> QED BY <1>1, <1>2, <1>3, <1>4

-----------------------------------------------------------------------------
\* fe_tobytes writes what its argument stands for, up to sums of three.
LEMMA BytesFit ==
  ASSUME NEW f, Fits(f, 3 * Carried)
  PROVE  FeToBytes(f) = f.val
<1>1. f.max \in 0..303
  BY SMT DEF Fits, Carried
<1>2. 19 * f.max + 100 < 2 * Int32
  BY <1>1, SMT DEF Int32
<1> QED BY <1>2 DEF FeToBytes

\* A point is encoded without an overflow, whatever its denominator.
THEOREM EncodingsFit ==
  ASSUME NEW p, P2Fits(p)
  PROVE  /\ FeToBytes(FeMul(p.Y, FeInvert(p.Z))) = FeMul(p.Y, FeInvert(p.Z)).val
         /\ FeToBytes(FeMul(p.X, FeInvert(p.Z))) = FeMul(p.X, FeInvert(p.Z)).val
<1>1. Fits(FeInvert(p.Z), Carried)
  BY FieldFits, PowFits DEF P2Fits
<1>2. Fits(FeMul(p.Y, FeInvert(p.Z)), Carried) /\ Fits(FeMul(p.X, FeInvert(p.Z)), Carried)
  BY <1>1, FieldFits DEF P2Fits
<1> QED BY <1>2, FieldFits, BytesFit

\* A decoded point may be used at once, whatever string it comes from.
THEOREM DecodingsFit ==
  ASSUME NEW s \in Nat
  PROVE  \A A \in GeFromBytesNegate(s) : P3Fits(A)
<1> DEFINE y == FeFromBytes(s)
           yy == FeSq(y)
           u == FeSub(yy, One)
           v == FeAdd(FeMul(yy, d), One)
           v3 == FeMul(FeSq(v), v)
           v7 == FeMul(FeSq(v3), v)
           pow == FePow22523(FeMul(v7, u))
           x == FeMul(FeMul(pow, v3), u)
<1>1. Fits(y, Carried) /\ Fits(d, Carried) /\ Fits(sqrtm1, Carried) /\ Fits(One, Carried)
  <2>1. (s % 2 ^ FieldBits) % P \in Residues
    <3>1. 2 ^ FieldBits \in Nat \ {0}
      BY PrimeIs, PowersOfTwo
    <3>2. s % 2 ^ FieldBits \in Int
      BY <3>1, SMT
    <3> QED BY <3>2, PrimeIs
  <2> QED BY <2>1, ConstantsFit DEF FeFromBytes
<1>2. Fits(yy, Carried)
  BY <1>1, FieldFits
<1>3. Fits(FeMul(yy, d), Carried)
  BY <1>1, <1>2, FieldFits
<1>4. Fits(u, 2 * Carried) /\ Fits(v, 2 * Carried)
  BY <1>1, <1>2, <1>3, FieldFits
<1> HIDE DEF y, yy, u, v
<1>5. Fits(v3, Carried) /\ Fits(v7, Carried)
  <2>1. Fits(v3, Carried)
    BY <1>4, FieldFits
  <2> HIDE DEF v3
  <2>2. Fits(FeSq(v3), Carried)
    BY <2>1, FieldFits
  <2> QED BY <1>4, <2>1, <2>2, FieldFits
<1> HIDE DEF v3, v7
<1>6. Fits(pow, Carried)
  <2>1. Fits(FeMul(v7, u), Carried)
    BY <1>4, <1>5, FieldFits
  <2> QED BY <2>1, FieldFits, PowFits
<1> HIDE DEF pow
<1>7. Fits(x, Carried)
  <2>1. Fits(FeMul(pow, v3), Carried)
    BY <1>5, <1>6, FieldFits
  <2> QED BY <1>4, <2>1, FieldFits
<1> HIDE DEF x
<1>8. Fits(FeMul(x, sqrtm1), Carried)
  BY <1>1, <1>7, FieldFits
<1>9. GeRoots(y) \subseteq {x, FeMul(x, sqrtm1)}
  BY DEF GeRoots, x, pow, v7, v3, v, u, yy
<1>10. ASSUME NEW z, Fits(z, Carried) PROVE P3Fits(GeAffine(z, y))
  BY <1>1, <1>10, FieldFits DEF GeAffine, P3Fits, P2Fits
<1>11. ASSUME NEW z \in GeRoots(y) PROVE Fits(z, Carried) /\ Fits(FeNeg(z), Carried)
  BY <1>7, <1>8, <1>9, <1>11, FieldFits
<1> QED BY <1>10, <1>11 DEF GeFromBytesNegate, y

-----------------------------------------------------------------------------
\* A round of the ladder leaves what the next one may start from; in it
\* fe_mul121666, whose only pass of carries is made for less, gets a difference
\* of two carried elements.
LEMMA RoundFits ==
  ASSUME NEW x1, NEW x2, NEW z2, NEW x3, NEW z3, Fits(x1, Carried),
         Fits(x2, Carried), Fits(z2, Carried), Fits(x3, Carried), Fits(z3, Carried)
  PROVE  LadderFits(LadderRound(x1, x2, z2, x3, z3))
<1> DEFINE sum2 == FeAdd(x2, z2)
           dif2 == FeSub(x2, z2)
           cross1 == FeMul(FeSub(x3, z3), sum2)
           cross2 == FeMul(FeAdd(x3, z3), dif2)
           aa == FeSq(sum2)
           bb == FeSq(dif2)
           e  == FeSub(aa, bb)
           sc == FeSq(FeAdd(cross1, cross2))
           dc == FeSq(FeSub(cross1, cross2))
<1>1. Fits(sum2, 3 * Carried) /\ Fits(dif2, 3 * Carried)
  BY FieldFits
<1>2. Fits(FeSub(x3, z3), 3 * Carried) /\ Fits(FeAdd(x3, z3), 3 * Carried)
  BY FieldFits
<1>3. Fits(cross1, Carried) /\ Fits(cross2, Carried) /\ Fits(aa, Carried) /\ Fits(bb, Carried)
  BY <1>1, <1>2, FieldFits
<1> HIDE DEF aa, bb, cross1, cross2
<1>4. Fits(e, 2 * Carried) /\ Fits(FeMul(aa, bb), Carried)
  BY <1>3, FieldFits
<1>5. Fits(FeMul121666(e), Carried)
  <2>1. e.val \in Int /\ A24 \in Int
    <3>1. e.val \in Residues
      BY <1>4 DEF Fits, Fe
    <3>2. A24 \in Int
      BY FieldConstants, PrimeIs, SMT
    <3> QED BY <3>1, <3>2, PrimeIs
  <2>2. (A24 * e.val) % P \in Residues
    BY <2>1, TimesTyped, PrimeIs
  <2>3. OnePass(e) = Carried /\ Carried \in Nat /\ Carried \in 0..Carried
    BY <1>4, SMT DEF OnePass, Fits, Carried
  <2> QED BY <2>2, <2>3 DEF FeMul121666, Fits, Fe
<1> HIDE DEF e
<1>6. Fits(FeAdd(bb, FeMul121666(e)), 3 * Carried)
  BY <1>3, <1>5, FieldFits
<1>7. Fits(FeMul(e, FeAdd(bb, FeMul121666(e))), Carried)
  BY <1>4, <1>6, FieldFits
<1>8. Fits(sc, Carried) /\ Fits(dc, Carried)
  <2>1. Fits(FeAdd(cross1, cross2), 3 * Carried) /\ Fits(FeSub(cross1, cross2), 3 * Carried)
    BY <1>3, FieldFits
  <2> QED BY <2>1, FieldFits
<1> HIDE DEF sc, dc
<1>9. Fits(FeMul(x1, dc), Carried)
  BY <1>8, FieldFits
<1> QED BY <1>4, <1>7, <1>8, <1>9
      DEF LadderFits, LadderRound, sum2, dif2, cross1, cross2, aa, bb, e, sc, dc

\* A round of the ladder in ed25519_key_exchange takes carried elements and
\* returns carried elements.
THEOREM LadderStepsFit ==
  ASSUME NEW x1, NEW s, NEW b, Fits(x1, Carried), LadderFits(s.points)
  PROVE  LadderFits(LadderStep(x1, s, b).points)
<1> QED BY RoundFits DEF LadderFits, LadderStep

-----------------------------------------------------------------------------
\* The points of the two forms that last, and fit.
P2Points == {p \in GeP2 : P2Fits(p)}
P3Points == {p \in GeP3 : P3Fits(p)}

\* Conversions yield points of the form they are named for.
LEMMA Converted ==
  /\ \A p : P1P1Fits(p) => GeP1P1ToP2(p) \in P2Points /\ GeP1P1ToP3(p) \in P3Points
  /\ GeP20 \in P2Points /\ GeP30 \in P3Points
  /\ \A p \in P3Points : GeP3ToP2(p) \in P2Points
<1>1. ASSUME NEW p, P1P1Fits(p) PROVE GeP1P1ToP2(p) \in P2Points /\ GeP1P1ToP3(p) \in P3Points
  <2>1. P2Fits(GeP1P1ToP2(p)) /\ P3Fits(GeP1P1ToP3(p))
    BY <1>1, ConversionsFit
  <2>2. GeP1P1ToP2(p) \in GeP2
    <3>1. FeMul(p.X, p.T) \in Fe /\ FeMul(p.Y, p.Z) \in Fe /\ FeMul(p.Z, p.T) \in Fe
      BY <1>1, MulFits DEF P1P1Fits, Fits
    <3> QED BY <3>1 DEF GeP1P1ToP2, GeP2
  <2>3. GeP1P1ToP3(p) \in GeP3
    <3>1. /\ FeMul(p.X, p.T) \in Fe /\ FeMul(p.Y, p.Z) \in Fe /\ FeMul(p.Z, p.T) \in Fe
          /\ FeMul(p.X, p.Y) \in Fe
      BY <1>1, MulFits DEF P1P1Fits, Fits
    <3> QED BY <3>1 DEF GeP1P1ToP3, GeP3
  <2> QED BY <2>1, <2>2, <2>3 DEF P2Points, P3Points
<1>2. GeP20 \in P2Points /\ GeP30 \in P3Points
  <2>1. Zero \in Fe /\ One \in Fe
    BY ConstantsFit DEF Fits
  <2>2. GeP20 \in GeP2 /\ GeP30 \in GeP3
    BY <2>1 DEF GeP20, GeP30, GeP2, GeP3
  <2> QED BY <2>2, ConversionsFit DEF P2Points, P3Points
<1>3. ASSUME NEW p \in P3Points PROVE GeP3ToP2(p) \in P2Points
  <2>1. GeP3ToP2(p) \in GeP2
    BY DEF P3Points, GeP3, GeP2, GeP3ToP2
  <2>2. P2Fits(GeP3ToP2(p))
    BY ConversionsFit DEF P3Points
  <2> QED BY <2>1, <2>2 DEF P2Points
<1> QED BY <1>1, <1>2, <1>3

\* The numbers of bytes and of radix-16 digits.
LEMMA SizesAre ==
  /\ ScalarBits \in Nat /\ ScalarBits >= 8 /\ ScalarBits = FieldBits + 1
  /\ ScalarBits \div 8 \in Nat
<1>1. ScalarBits = FieldBits + 1 /\ ScalarBits % 8 = 0 /\ FieldBits \in Nat
  BY PointConstants, FieldConstants
<1>2. ScalarBits \in Nat /\ ScalarBits >= 1
  BY <1>1, SMT
<1> QED BY <1>1, <1>2, SMT

\* Every pair of residues makes an entry of a table.
LEMMA PrecompIs ==
  ASSUME NEW p \in EdPoints
  PROVE  PrecompFits(GePrecomp(p))
<1>1. p[1] \in Int /\ p[2] \in Int /\ D \in Int
  BY CurveConstant, PrimeIs DEF EdPoints
<1>2. p[2] + p[1] \in Int /\ p[2] - p[1] \in Int /\ p[1] * p[2] \in Int /\ 2 * D \in Int
  BY <1>1, TimesTyped
<1>3. ModMul(p[1], p[2]) \in Int
  BY <1>2, PrimeIs DEF ModMul
<1>4. ModMul(2 * D, ModMul(p[1], p[2])) \in Residues
  <2>1. \A x, y \in Int : (x * y) % P \in Residues
    BY PrimeIs, TimesTyped
  <2> QED BY <1>2, <1>3, <2>1 DEF ModMul
<1> QED BY <1>2, <1>4, PrimeIs, ConstantsFit DEF GePrecomp, PrecompFits

\* The entries of the tables in precomp_data.h may be added.
LEMMA TablesFit ==
  /\ EdBase \in EdPoints
  /\ \A k \in 0..7 : PrecompFits(Bi[k])
  /\ \A pos \in 0..(ScalarBits \div 8 - 1), j \in 1..8 : PrecompFits(GeBase[pos][j])
  /\ PrecompFits(GePrecomp(EdZero))
<1>1. EdBase \in EdPoints
  <2>1. 5 % P \in Residues /\ 4 \in Int
    BY PrimeIs
  <2>2. ModMul(4, ModInverse[5 % P]) \in Residues
    BY <2>1, InverseTyped, PrimeIs, TimesTyped DEF ModMul
  <2> QED BY <2>2, PointConstants DEF EdBase, EdPoints
<1>2. ASSUME NEW k \in 0..7 PROVE PrecompFits(Bi[k])
  <2>1. 2 * k + 1 \in Nat
    BY SMT
  <2> QED BY <1>1, <2>1, EdMulTyped, PrecompIs DEF Bi
<1>3. ASSUME NEW pos \in 0..(ScalarBits \div 8 - 1), NEW j \in 1..8
      PROVE  PrecompFits(GeBase[pos][j])
  <2>1. 8 * pos \in Nat
    BY SizesAre, SMT
  <2>2. 2 ^ (8 * pos) \in Nat
    BY <2>1, PowersOfTwo
  <2>3. j * 2 ^ (8 * pos) \in Nat
    <3>1. PICK w \in Nat : w = 2 ^ (8 * pos)
      BY <2>2
    <3>2. j * w \in Nat
      BY SMT
    <3> QED BY <3>1, <3>2
  <2> QED BY <1>1, <2>3, EdMulTyped, PrecompIs DEF GeBase
<1>4. EdZero \in EdPoints
  <2>1. 0 \in Residues /\ 1 \in Residues
    BY PrimeIs, SMT DEF Residues
  <2> QED BY <2>1 DEF EdPoints, EdZero
<1> QED BY <1>1, <1>2, <1>3, <1>4, PrecompIs

\* So may what Select makes of them.
LEMMA SelectFits ==
  ASSUME NEW pos \in 0..(ScalarBits \div 8 - 1), NEW b
  PROVE  PrecompFits(Select(pos, b))
<1> DEFINE babs == IF b < 0 THEN -b ELSE b
           t == IF babs \in 1..8 THEN GeBase[pos][babs] ELSE GePrecomp(EdZero)
<1>1. PrecompFits(t)
  <2> HIDE DEF babs
  <2> QED BY TablesFit
<1> HIDE DEF t
<1>2. PrecompFits([yplusx |-> t.yminusx, yminusx |-> t.yplusx, xy2d |-> FeNeg(t.xy2d)])
  BY <1>1, FieldFits DEF PrecompFits
<1>3. Select(pos, b) \in {[yplusx |-> t.yminusx, yminusx |-> t.yplusx, xy2d |-> FeNeg(t.xy2d)], t}
  BY DEF Select, t
<1> QED BY <1>1, <1>2, <1>3

\* The rounds of a loop: each turns one of I[k - 1] into one of I[k].
RoundsKeep(n, V, I, first, step) ==
  /\ n \in Nat /\ I \in [0..n -> SUBSET V] /\ first \in I[0]
  /\ \A k \in 1..n : \A v \in I[k - 1] : step[<<k, v>>] \in I[k]

\* A loop ends with what its rounds keep: after k of them with one of I[k].
LEMMA LoopFunction ==
  ASSUME NEW n, NEW V, NEW I, NEW first, NEW step, RoundsKeep(n, V, I, first, step)
  PROVE  \E f : f = [k \in 0..n |-> IF k = 0 THEN first ELSE step[<<k, f[k - 1]>>]]
                /\ \A k \in 0..n : f[k] \in I[k]
<1> USE DEF RoundsKeep
<1> DEFINE prev == [k \in 0..n |-> IF k = 0 THEN 0 ELSE k - 1]
           base == {0}
           start == [k \in 0..n |-> first]
           next == [x \in (0..n) \X V |-> IF x[1] \in 1..n /\ x[2] \in I[x[1] - 1]
                                          THEN step[<<x[1], x[2]>>] ELSE x[2]]
<1>1. first \in V /\ 0 \in 0..n /\ 0 \notin 1..n
  <2>1. 0 \in 0..n /\ 0 \notin 1..n
    BY SMT
  <2> QED BY <2>1
<1>2. \A k \in 1..n : k \in 0..n /\ k - 1 \in 0..n /\ k - 1 \in Nat /\ k - 1 < k /\ k # 0
  BY SMT
<1>3. \A k \in 0..n : k = 0 \/ k \in 1..n
  BY SMT
<1>4. prev \in [0..n -> Nat] /\ start \in [0..n -> V]
  BY <1>1, <1>2, <1>3
<1>5. next \in [(0..n) \X V -> V]
  <2>1. ASSUME NEW x \in (0..n) \X V
        PROVE  (IF x[1] \in 1..n /\ x[2] \in I[x[1] - 1] THEN step[<<x[1], x[2]>>] ELSE x[2]) \in V
    BY <1>2
  <2> QED BY <2>1
<1>6. \A k \in base : start[k] \in I[k]
  BY <1>1
<1>7. \A k \in (0..n) \ base : prev[k] < k /\ \A v \in I[prev[k]] : next[<<k, v>>] \in I[k]
  <2> TAKE k \in (0..n) \ base
  <2>1. k \in 1..n /\ prev[k] = k - 1
    BY <1>2, <1>3
  <2>2. ASSUME NEW v \in I[k - 1] PROVE next[<<k, v>>] \in I[k]
    <3>1. <<k, v>> \in (0..n) \X V
      BY <1>2, <2>1
    <3>2. next[<<k, v>>] = step[<<k, v>>]
      BY <2>1, <3>1
    <3> QED BY <2>1, <3>2
  <2> QED BY <1>2, <2>1, <2>2
<1>8. base \in SUBSET (0..n)
  BY <1>1
<1>9. Recursion(n, V, I, base, prev, start, next)
  <2> HIDE DEF prev, base, start, next
  <2> QED BY <1>4, <1>5, <1>6, <1>7, <1>8 DEF Recursion
<1>10. PICK f : SolvesRecursion(f, n, V, base, prev, start, next)
  <2> HIDE DEF prev, base, start, next
  <2> QED BY <1>9, RecursiveFunction
<1>11. f \in [0..n -> V] /\ f[0] = first /\ \A k \in 1..n : f[k] = next[<<k, f[k - 1]>>]
  <2>1. f \in [0..n -> V] /\ f[0] = first
    BY <1>1, <1>10 DEF SolvesRecursion
  <2>2. ASSUME NEW k \in 1..n PROVE f[k] = next[<<k, f[k - 1]>>]
    <3>1. k \in 0..n /\ k \notin base /\ prev[k] = k - 1
      BY <1>2
    <3> HIDE DEF base, prev, next
    <3> QED BY <1>10, <3>1 DEF SolvesRecursion
  <2> QED BY <2>1, <2>2
<1>12. ASSUME NEW k \in 1..n, f[k - 1] \in I[k - 1]
       PROVE  f[k] = step[<<k, f[k - 1]>>] /\ f[k] \in I[k]
  <2>1. <<k, f[k - 1]>> \in (0..n) \X V
    BY <1>2, <1>11
  <2>2. next[<<k, f[k - 1]>>] = step[<<k, f[k - 1]>>]
    BY <1>12, <2>1
  <2> HIDE DEF next
  <2> QED BY <1>11, <1>12, <2>2
<1>13. ASSUME NEW k \in 0..n, \A j \in 0..(k - 1) : j \in {i \in 0..n : f[i] \in I[i]}
       PROVE  k \in {i \in 0..n : f[i] \in I[i]}
  <2>1. CASE k = 0
    BY <1>1, <1>11, <2>1
  <2>2. CASE k # 0
    <3>1. k \in 1..n /\ k - 1 \in 0..(k - 1)
      BY <2>2, SMT
    <3> QED BY <1>12, <1>13, <3>1
  <2> QED BY <2>1, <2>2
<1>14. \A k \in 0..n : f[k] \in I[k]
  BY <1>13, Upwards
<1>15. f = [k \in 0..n |-> IF k = 0 THEN first ELSE step[<<k, f[k - 1]>>]]
  <2>1. \A k \in 0..n : f[k] = IF k = 0 THEN first ELSE step[<<k, f[k - 1]>>]
    <3> HIDE DEF next
    <3> QED BY <1>2, <1>3, <1>11, <1>12, <1>14
  <2>2. f = [k \in 0..n |-> f[k]]
    BY <1>11
  <2> QED BY <2>1, <2>2
<1> QED BY <1>14, <1>15

-----------------------------------------------------------------------------
\* One of the two loops of ge_scalarmult_base.
BaseRounds(e, first, seq) ==
  Loop(LAMBDA h, i : GeP1P1ToP3(GeMadd(h, Select(i \div 2, e[i]))), first, seq)

\* Its digits may be anything, but their places are those of the table.
LEMMA BaseRoundsFit ==
  ASSUME NEW e, NEW first \in P3Points, NEW seq, NEW n \in Nat, Len(seq) = n,
         \A k \in 1..n : seq[k] \div 2 \in 0..(ScalarBits \div 8 - 1)
  PROVE  BaseRounds(e, first, seq) \in P3Points
<1> DEFINE S(h, i) == [v \in {h} |-> GeP1P1ToP3(GeMadd(v, Select(i \div 2, e[i])))][h]
           Rec(f) == f = [k \in 0..n |-> IF k = 0 THEN first ELSE S(f[k - 1], seq[k])]
           g == CHOOSE f : Rec(f)
<1>1. \A k \in 1..n : \A h \in P3Points : S(h, seq[k]) \in P3Points
  <2> SUFFICES ASSUME NEW k \in 1..n, NEW h \in P3Points PROVE S(h, seq[k]) \in P3Points
    OBVIOUS
  <2>1. PrecompFits(Select(seq[k] \div 2, e[seq[k]]))
    BY SelectFits
  <2>2. P1P1Fits(GeMadd(h, Select(seq[k] \div 2, e[seq[k]])))
    BY <2>1, SumsFit DEF P3Points
  <2>3. S(h, seq[k]) = GeP1P1ToP3(GeMadd(h, Select(seq[k] \div 2, e[seq[k]])))
    OBVIOUS
  <2> HIDE DEF S
  <2> QED BY <2>2, <2>3, Converted
<1> HIDE DEF S
<1>2. \A k \in 0..n : k = 0 \/ (k \in 1..n /\ k - 1 \in 0..(k - 1))
  BY SMT
<1>3. \E f : Rec(f)
  <2> DEFINE I == [k \in 0..n |-> P3Points]
             step == [x \in (1..n) \X P3Points |-> S(x[2], seq[x[1]])]
  <2>1. 0 \in 0..n /\ \A k \in 1..n : k \in 0..n /\ k - 1 \in 0..n
    BY SMT
  <2>2. I \in [0..n -> SUBSET P3Points] /\ first \in I[0]
    BY <2>1
  <2>3. \A k \in 1..n : \A v \in I[k - 1] : step[<<k, v>>] \in I[k] /\ step[<<k, v>>] = S(v, seq[k])
    BY <1>1, <2>1
  <2>4. PICK f : f = [k \in 0..n |-> IF k = 0 THEN first ELSE step[<<k, f[k - 1]>>]]
                 /\ \A k \in 0..n : f[k] \in I[k]
    <3> HIDE DEF I, step
    <3>1. RoundsKeep(n, P3Points, I, first, step)
      BY <2>2, <2>3 DEF RoundsKeep
    <3> QED BY <3>1, LoopFunction
  <2>5. \A k \in 1..n : step[<<k, f[k - 1]>>] = S(f[k - 1], seq[k])
    <3> HIDE DEF I, step
    <3> QED BY <2>1, <2>3, <2>4
  <2>6. f = [k \in 0..n |-> IF k = 0 THEN first ELSE S(f[k - 1], seq[k])]
    <3> HIDE DEF I, step
    <3> QED BY <1>2, <2>4, <2>5
  <2> QED BY <2>6
<1>4. Rec(g)
  <2> HIDE DEF Rec
  <2> QED BY <1>3, Zenon
<1>5. BaseRounds(e, first, seq) = g[n]
  BY Zenon DEF BaseRounds, Loop, S
<1> HIDE DEF g
<1>6. ASSUME NEW k \in 0..n, \A j \in 0..(k - 1) : j \in {i \in 0..n : g[i] \in P3Points}
      PROVE  k \in {i \in 0..n : g[i] \in P3Points}
  <2>1. g[k] = IF k = 0 THEN first ELSE S(g[k - 1], seq[k])
    BY <1>4
  <2> QED BY <1>1, <1>2, <1>6, <2>1
<1>7. n \in 0..n
  BY SMT
<1>8. 0..n \subseteq {i \in 0..n : g[i] \in P3Points}
  BY <1>6, Upwards
<1> QED BY <1>5, <1>7, <1>8

\* ge_scalarmult_base returns a point that fits, for all scalars.
LEMMA ScalarmultBaseFits ==
  ASSUME NEW a
  PROVE  GeScalarmultBase(a) \in P3Points
<1> DEFINE e == Radix16(a)
           half == ScalarBits \div 8
           odds == [k \in 1..half |-> 2 * k - 1]
           evens == [k \in 1..half |-> 2 * k - 2]
           odd == BaseRounds(e, GeP30, odds)
           dbl(p) == GeP1P1ToP2(GeP2Dbl(p))
           times16 == GeP1P1ToP3(GeP2Dbl(dbl(dbl(dbl(GeP3ToP2(odd))))))
<1>1. GeScalarmultBase(a) = BaseRounds(e, times16, evens)
  BY Zenon DEF GeScalarmultBase, BaseRounds, Loop
<1>2. half \in Nat /\ Len(odds) = half /\ Len(evens) = half
  BY SizesAre, SMT
<1>3. \A k \in 1..half : odds[k] \div 2 \in 0..(half - 1) /\ evens[k] \div 2 \in 0..(half - 1)
  <2>1. \A k \in 1..half :
          (2 * k - 1) \div 2 \in 0..(half - 1) /\ (2 * k - 2) \div 2 \in 0..(half - 1)
    BY SizesAre, SMT
  <2> QED BY <2>1
<1> HIDE DEF odds, evens, e
<1>4. odd \in P3Points
  BY <1>2, <1>3, Converted, BaseRoundsFit
<1> HIDE DEF odd
<1>5. \A p \in P2Points : dbl(p) \in P2Points /\ GeP1P1ToP3(GeP2Dbl(p)) \in P3Points
  BY SumsFit, Converted DEF P2Points
<1> HIDE DEF dbl
<1>6. times16 \in P3Points
  <2>1. GeP3ToP2(odd) \in P2Points
    BY <1>4, Converted
  <2>2. dbl(dbl(dbl(GeP3ToP2(odd)))) \in P2Points
    BY <1>5, <2>1
  <2> QED BY <1>5, <2>2
<1> HIDE DEF times16
<1>7. BaseRounds(e, times16, evens) \in P3Points
  BY <1>2, <1>3, <1>6, BaseRoundsFit
<1> QED BY <1>1, <1>7

-----------------------------------------------------------------------------
\* The places of the digits of a scalar.
Places == 0..(ScalarBits - 1)

\* The digits before the window at place i: those below it are done, the others bits.
Digits(i) ==
  {r \in [Places -> Int] : \A j \in Places : r[j] \in -15..15 /\ (j >= i => r[j] \in {0, 1})}

\* Within the window.
Windows(i) == [r : Digits(i + 1), open : BOOLEAN]

\* A carry leaves bits, and what is below it.
LEMMA SlideCarryKeeps ==
  ASSUME NEW i \in Places, NEW r \in Digits(i + 1), NEW k \in Places, k > i
  PROVE  SlideCarry(r, k) \in Digits(i + 1)
<1> DEFINE zeros == {j \in DOMAIN r : j >= k /\ r[j] = 0}
           top == IF zeros = {} THEN ScalarBits ELSE Min(zeros)
           v(j) == IF j < k \/ j > top THEN r[j] ELSE IF j = top THEN 1 ELSE 0
<1>1. DOMAIN r = Places /\ \A j \in Places : r[j] \in -15..15 /\ (j >= i + 1 => r[j] \in {0, 1})
  BY DEF Digits
<1>2. SlideCarry(r, k) = [j \in Places |-> v(j)]
  BY <1>1, Zenon DEF SlideCarry
<1>3. 0 \in -15..15 /\ 1 \in -15..15 /\ -15..15 \subseteq Int
  BY SMT
<1> HIDE DEF top
<1>4. \A j \in Places : v(j) \in {r[j], 1, 0}
  OBVIOUS
<1> HIDE DEF v
<1>5. \A j \in Places : v(j) \in -15..15 /\ v(j) \in Int /\ (j >= i + 1 => v(j) \in {0, 1})
  BY <1>1, <1>3, <1>4
<1> QED BY <1>2, <1>5 DEF Digits

\* Digits put in place of others.
LEMMA DigitsPut ==
  ASSUME NEW i \in Places, NEW r \in Digits(i + 1), NEW x \in -15..15
  PROVE  [r EXCEPT ![i] = x] \in Digits(i + 1)
<1>1. i \in Int /\ ~(i >= i + 1) /\ x \in Int
  BY SMT DEF Places
<1>2. ASSUME NEW j \in Places PROVE [r EXCEPT ![i] = x][j] = IF j = i THEN x ELSE r[j]
  BY DEF Digits
<1>3. [r EXCEPT ![i] = x] \in [Places -> Int]
  BY <1>1 DEF Digits
<1>4. \A j \in Places : r[j] \in -15..15 /\ (j >= i + 1 => r[j] \in {0, 1})
  BY DEF Digits
<1> QED BY <1>1, <1>2, <1>3, <1>4 DEF Digits

\* A zero may be put in any place.
LEMMA DigitsCleared ==
  ASSUME NEW i \in Places, NEW r \in Digits(i + 1), NEW j \in Places
  PROVE  [r EXCEPT ![j] = 0] \in Digits(i + 1)
<1>1. 0 \in -15..15 /\ 0 \in Int
  BY SMT
<1>2. ASSUME NEW k \in Places PROVE [r EXCEPT ![j] = 0][k] = IF k = j THEN 0 ELSE r[k]
  BY DEF Digits
<1>3. [r EXCEPT ![j] = 0] \in [Places -> Int]
  BY <1>1 DEF Digits
<1>4. \A k \in Places : r[k] \in -15..15 /\ (k >= i + 1 => r[k] \in {0, 1})
  BY DEF Digits
<1> QED BY <1>1, <1>2, <1>3, <1>4 DEF Digits

\* A bit that joins the window leaves its digit within 15 of 0.
LEMMA SlideJoinKeeps ==
  ASSUME NEW i \in Places, NEW s \in Windows(i), NEW b \in 1..6
  PROVE  SlideJoin(s, i, b) \in Windows(i)
<1> DEFINE w == s.r[i + b] * 2 ^ b
           joined == [s.r EXCEPT ![i] = s.r[i] + w, ![i + b] = 0]
           less == [s.r EXCEPT ![i] = s.r[i] - w]
<1>1. s.r \in Digits(i + 1) /\ s = [r |-> s.r, open |-> s.open] /\ s.open \in BOOLEAN
  BY DEF Windows
<1>2. /\ DOMAIN s.r = Places
      /\ \A j \in Places : s.r[j] \in -15..15 /\ (j >= i + 1 => s.r[j] \in {0, 1})
  BY <1>1 DEF Digits
<1>3. CASE ~s.open \/ i + b \notin Places
  BY <1>2, <1>3 DEF SlideJoin
<1>4. CASE s.open /\ i + b \in Places
  <2>1. i + b >= i + 1 /\ i + b > i /\ i + b # i
    BY SMT DEF Places
  <2>2. s.r[i] \in -15..15 /\ s.r[i + b] \in {0, 1}
    BY <1>2, <1>4, <2>1
  <2>3. w \in Nat
    <3>1. 2 ^ b \in Nat
      BY PowersOfTwo, SMT
    <3>2. CASE s.r[i + b] = 0
      BY <3>1, <3>2, SMT
    <3>3. CASE s.r[i + b] = 1
      BY <3>1, <3>3, SMT
    <3> QED BY <2>2, <3>2, <3>3
  <2> HIDE DEF w
  <2>4. ASSUME s.r[i] + w <= 15
        PROVE  [s EXCEPT !.r = joined] \in Windows(i)
    <3>1. s.r[i] + w \in -15..15
      BY <2>2, <2>3, <2>4, SMT
    <3>2. [s.r EXCEPT ![i] = s.r[i] + w] \in Digits(i + 1)
      BY <1>1, <3>1, DigitsPut
    <3>3. joined \in Digits(i + 1)
      <4> DEFINE u == [s.r EXCEPT ![i] = s.r[i] + w]
      <4> HIDE DEF u
      <4>1. [u EXCEPT ![i + b] = 0] \in Digits(i + 1)
        BY <1>4, <3>2, DigitsCleared DEF u
      <4> QED BY <4>1 DEF u
    <3> HIDE DEF joined
    <3> QED BY <1>1, <3>3 DEF Windows
  <2>5. ASSUME s.r[i] - w >= -15
        PROVE  [s EXCEPT !.r = SlideCarry(less, i + b)] \in Windows(i)
    <3>1. s.r[i] - w \in -15..15
      BY <2>2, <2>3, <2>5, SMT
    <3>2. less \in Digits(i + 1)
      BY <1>1, <3>1, DigitsPut
    <3> HIDE DEF less
    <3>3. SlideCarry(less, i + b) \in Digits(i + 1)
      BY <1>4, <2>1, <3>2, SlideCarryKeeps
    <3> QED BY <1>1, <3>3 DEF Windows
  <2>6. [s EXCEPT !.open = FALSE] \in Windows(i)
    BY <1>1 DEF Windows
  <2>7. SlideJoin(s, i, b) =
          IF s.r[i + b] = 0 THEN s
          ELSE IF s.r[i] + w <= 15 THEN [s EXCEPT !.r = joined]
          ELSE IF s.r[i] - w >= -15 THEN [s EXCEPT !.r = SlideCarry(less, i + b)]
          ELSE [s EXCEPT !.open = FALSE]
    <3>1. ~(~s.open \/ i + b \notin DOMAIN s.r)
      BY <1>2, <1>4
    <3> QED BY <3>1 DEF SlideJoin, w
  <2> HIDE DEF joined, less
  <2> QED BY <2>4, <2>5, <2>6, <2>7
<1> QED BY <1>2, <1>3, <1>4

-----------------------------------------------------------------------------
\* A window uses its bits up, or leaves them to the next.
LEMMA SlideWindowKeeps ==
  ASSUME NEW i \in Places, NEW r \in Digits(i)
  PROVE  SlideWindow(r, i) \in Digits(i + 1)
<1> DEFINE N == 6
           seq == <<1, 2, 3, 4, 5, 6>>
           first == [r |-> r, open |-> TRUE]
           S(s, b) == [v \in {s} |-> SlideJoin(v, i, b)][s]
           Rec(f) == f = [k \in 0..Len(seq) |-> IF k = 0 THEN first ELSE S(f[k - 1], seq[k])]
           g == CHOOSE f : Rec(f)
<1>1. Len(seq) = N /\ N \in Nat /\ N \in 0..N /\ \A k \in 1..N : seq[k] = k
  BY SMT
<1>2. r \in Digits(i + 1)
  <2>1. \A j \in Places : j >= i + 1 => j >= i
    BY SMT DEF Places
  <2> QED BY <2>1 DEF Digits
<1>3. first \in Windows(i)
  BY <1>2 DEF Windows
<1>4. \A k \in 0..N : k = 0 \/ (k \in 1..N /\ k - 1 \in 0..(k - 1))
  BY <1>1, SMT
<1>5. \A k \in 1..N : \A s \in Windows(i) : S(s, seq[k]) \in Windows(i)
  <2>1. \A s, b : S(s, b) = SlideJoin(s, i, b)
    OBVIOUS
  <2> HIDE DEF S
  <2> QED BY <1>1, <2>1, SlideJoinKeeps
<1> HIDE DEF N, seq, first, S
<1>6. \E f : Rec(f)
  <2> DEFINE I == [k \in 0..N |-> Windows(i)]
             step == [x \in (1..N) \X Windows(i) |-> S(x[2], seq[x[1]])]
  <2>1. 0 \in 0..N /\ \A k \in 1..N : k \in 0..N /\ k - 1 \in 0..N
    BY <1>1, SMT
  <2>2. I \in [0..N -> SUBSET Windows(i)] /\ first \in I[0]
    BY <1>3, <2>1
  <2>3. \A k \in 1..N : \A v \in I[k - 1] :
          step[<<k, v>>] \in I[k] /\ step[<<k, v>>] = S(v, seq[k])
    BY <1>5, <2>1
  <2>4. PICK f : f = [k \in 0..N |-> IF k = 0 THEN first ELSE step[<<k, f[k - 1]>>]]
                 /\ \A k \in 0..N : f[k] \in I[k]
    <3> HIDE DEF I, step
    <3>1. RoundsKeep(N, Windows(i), I, first, step)
      BY <1>1, <2>2, <2>3 DEF RoundsKeep
    <3> QED BY <3>1, LoopFunction
  <2>5. \A k \in 1..N : step[<<k, f[k - 1]>>] = S(f[k - 1], seq[k])
    <3> HIDE DEF I, step
    <3> QED BY <2>1, <2>3, <2>4
  <2>6. f = [k \in 0..N |-> IF k = 0 THEN first ELSE S(f[k - 1], seq[k])]
    <3> HIDE DEF I, step
    <3> QED BY <1>4, <2>4, <2>5
  <2> QED BY <1>1, <2>6
<1>7. Rec(g)
  <2> HIDE DEF Rec
  <2> QED BY <1>6, Zenon
<1>8. Loop(LAMBDA s, b : SlideJoin(s, i, b), first, seq) = g[Len(seq)]
  BY Zenon DEF Loop, S
<1> HIDE DEF g
<1>9. ASSUME NEW k \in 0..N, \A j \in 0..(k - 1) : j \in {n \in 0..N : g[n] \in Windows(i)}
      PROVE  k \in {n \in 0..N : g[n] \in Windows(i)}
  <2>1. g[k] = IF k = 0 THEN first ELSE S(g[k - 1], seq[k])
    BY <1>1, <1>7
  <2> QED BY <1>3, <1>4, <1>5, <1>9, <2>1
<1>11. 0..N \subseteq {n \in 0..N : g[n] \in Windows(i)}
  BY <1>9, <1>1, Upwards
<1>12. g[N].r \in Digits(i + 1)
  BY <1>1, <1>11 DEF Windows
<1>13. SlideWindow(r, i) = r \/ SlideWindow(r, i) = g[N].r
  <2>1. SlideWindow(r, i) =
          IF r[i] = 0 THEN r ELSE Loop(LAMBDA s, b : SlideJoin(s, i, b), first, seq).r
    BY Zenon DEF SlideWindow, Loop, first, seq
  <2>2. SlideWindow(r, i) = IF r[i] = 0 THEN r ELSE g[Len(seq)].r
    BY <1>8, <2>1, Zenon
  <2> QED BY <1>1, <2>2
<1> QED BY <1>2, <1>12, <1>13

\* The digits of slide are the numbers whose multiples are in the tables.
LEMMA SlideDigits ==
  ASSUME NEW a \in Nat
  PROVE  Slide(a) \in [Places -> Int] /\ \A j \in Places : Slide(a)[j] \in -15..15
<1> DEFINE N == ScalarBits
           seq == [i \in 1..N |-> i - 1]
           first == [i \in Places |-> (a \div 2 ^ i) % 2]
           S(r, i) == [v \in {r} |-> SlideWindow(v, i)][r]
           Rec(f) == f = [k \in 0..Len(seq) |-> IF k = 0 THEN first ELSE S(f[k - 1], seq[k])]
           g == CHOOSE f : Rec(f)
           V == [Places -> Int]
<1>1. N \in Nat /\ Len(seq) = N /\ \A k \in 1..N : seq[k] = k - 1 /\ k - 1 \in Places
  BY SizesAre, SMT DEF Places
<1>2. first \in Digits(0)
  <2>1. \A i \in Places : (a \div 2 ^ i) % 2 \in {0, 1}
    <3> TAKE i \in Places
    <3>1. 2 ^ i \in Nat \ {0}
      BY PowersOfTwo, SMT DEF Places
    <3>2. a \div 2 ^ i \in Int
      <4>1. PICK w \in Nat \ {0} : w = 2 ^ i
        BY <3>1
      <4> QED BY <4>1, SMT
    <3>3. PICK q \in Int : q = a \div 2 ^ i
      BY <3>2
    <3> QED BY <3>3, SMT
  <2>2. {0, 1} \subseteq Int /\ {0, 1} \subseteq -15..15
    BY SMT
  <2> QED BY <2>1, <2>2 DEF Digits
<1>3. \A k \in 0..N : k = 0 \/ (k \in 1..N /\ k - 1 \in 0..(k - 1) /\ k - 1 + 1 = k)
  BY <1>1, SMT
<1>4. \A k \in 1..N : \A r \in Digits(k - 1) : S(r, seq[k]) \in Digits(k)
  <2> TAKE k \in 1..N
  <2>1. (k - 1) + 1 = k
    BY SMT
  <2>2. \A r, i : S(r, i) = SlideWindow(r, i)
    OBVIOUS
  <2> HIDE DEF S
  <2> QED BY <1>1, <2>1, <2>2, SlideWindowKeeps
<1> HIDE DEF N, seq, first, S
<1>5. \E f : Rec(f)
  <2> DEFINE I == [k \in 0..N |-> Digits(k)]
             step == [x \in (1..N) \X V |-> S(x[2], seq[x[1]])]
  <2>1. 0 \in 0..N /\ \A k \in 1..N : k \in 0..N /\ k - 1 \in 0..N
    BY <1>1, SMT
  <2>2. \A k : Digits(k) \subseteq V
    BY DEF Digits
  <2> HIDE DEF V
  <2>3. I \in [0..N -> SUBSET V] /\ first \in I[0]
    BY <1>2, <2>1, <2>2
  <2>4. \A k \in 1..N : \A v \in I[k - 1] :
          step[<<k, v>>] \in I[k] /\ step[<<k, v>>] = S(v, seq[k])
    BY <1>4, <2>1, <2>2
  <2>5. PICK f : f = [k \in 0..N |-> IF k = 0 THEN first ELSE step[<<k, f[k - 1]>>]]
                 /\ \A k \in 0..N : f[k] \in I[k]
    <3> HIDE DEF I, step
    <3>1. RoundsKeep(N, V, I, first, step)
      BY <1>1, <2>1, <2>3, <2>4 DEF RoundsKeep
    <3> QED BY <3>1, LoopFunction
  <2>6. \A k \in 1..N : step[<<k, f[k - 1]>>] = S(f[k - 1], seq[k])
    <3> HIDE DEF I, step
    <3> QED BY <2>1, <2>4, <2>5
  <2>7. f = [k \in 0..N |-> IF k = 0 THEN first ELSE S(f[k - 1], seq[k])]
    <3> HIDE DEF I, step
    <3> QED BY <1>3, <2>5, <2>6
  <2> QED BY <1>1, <2>7
<1>6. Rec(g)
  <2> HIDE DEF Rec
  <2> QED BY <1>5, Zenon
<1>7. Slide(a) = g[Len(seq)]
  BY Zenon DEF Slide, Loop, N, seq, first, Places, S
<1> HIDE DEF g
<1>8. ASSUME NEW k \in 0..N, \A j \in 0..(k - 1) : j \in {n \in 0..N : g[n] \in Digits(n)}
      PROVE  k \in {n \in 0..N : g[n] \in Digits(n)}
  <2>1. g[k] = IF k = 0 THEN first ELSE S(g[k - 1], seq[k])
    BY <1>1, <1>6
  <2> QED BY <1>2, <1>3, <1>4, <1>8, <2>1
<1>9. N \in 0..N
  BY <1>1, SMT
<1>10. 0..N \subseteq {n \in 0..N : g[n] \in Digits(n)}
  BY <1>1, <1>8, Upwards
<1>11. g[N] \in Digits(N)
  BY <1>9, <1>10
<1> QED BY <1>1, <1>7, <1>11 DEF Digits

\* The greatest of some of the numbers up to n.
LEMMA MaxIs ==
  ASSUME NEW n \in Nat, NEW S \in SUBSET (0..n), S # {}
  PROVE  Max(S) \in S
<1>1. \E x \in S : \A y \in S : x >= y
  <2> SUFFICES ASSUME \A x \in S : \E y \in S : ~(x >= y) PROVE FALSE
    OBVIOUS
  <2> DEFINE G == {k \in 0..n : n - k \notin S}
  <2>1. ASSUME NEW k \in 0..n, \A j \in 0..(k - 1) : j \in G PROVE k \in G
    <3> SUFFICES ASSUME n - k \in S PROVE FALSE
      OBVIOUS
    <3>1. PICK y \in S : ~(n - k >= y)
      OBVIOUS
    <3>2. n - y \in 0..(k - 1) /\ n - (n - y) = y
      <4>1. y \in 0..n
        BY <3>1
      <4> QED BY <3>1, <4>1, SMT
    <3> QED BY <2>1, <3>1, <3>2
  <2>2. 0..n \subseteq G
    <3> HIDE DEF G
    <3> QED BY <2>1, Upwards
  <2>3. PICK x \in S : TRUE
    OBVIOUS
  <2>4. n - x \in 0..n /\ n - (n - x) = x
    <3>1. x \in 0..n
      BY <2>3
    <3> QED BY <3>1, SMT
  <2> QED BY <2>2, <2>3, <2>4
<1> QED BY <1>1 DEF Max

-----------------------------------------------------------------------------
\* Points in the form of ge_cached, and those of them that fit.
GeCached == [YplusX : Fe, YminusX : Fe, Z : Fe, T2d : Fe]
CachedPoints == {q \in GeCached : CachedFits(q)}

\* Conversion to ge_cached yields one that fits.
LEMMA CachedIs == \A p \in P3Points : GeP3ToCached(p) \in CachedPoints
<1> SUFFICES ASSUME NEW p \in P3Points PROVE GeP3ToCached(p) \in CachedPoints
  OBVIOUS
<1>1. CachedFits(GeP3ToCached(p))
  BY ConversionsFit DEF P3Points
<1>2. GeP3ToCached(p) \in GeCached
  BY <1>1 DEF CachedFits, Fits, GeP3ToCached, GeCached
<1> QED BY <1>1, <1>2 DEF CachedPoints

\* The table that ge_double_scalarmult_vartime makes of its point.
LEMMA OddMultiplesFit ==
  ASSUME NEW A \in P3Points
  PROVE  \A k \in 0..7 : CachedFits(OddMultiples(A)[k])
<1> DEFINE N == 7
           A2 == GeP1P1ToP3(GeP3Dbl(A))
           first == GeP3ToCached(A)
           S(q) == GeP3ToCached(GeP1P1ToP3(GeAdd(A2, q)))
           Rec(f) == f = [k \in 0..N |-> IF k = 0 THEN first ELSE S(f[k - 1])]
           g == CHOOSE f : Rec(f)
<1>1. N \in Nat /\ first \in CachedPoints
  BY CachedIs
<1>2. \A q \in CachedPoints : S(q) \in CachedPoints
  <2>1. A2 \in P3Points
    BY SumsFit, Converted DEF P3Points
  <2> HIDE DEF A2
  <2>2. \A q \in CachedPoints : P1P1Fits(GeAdd(A2, q))
    BY <2>1, SumsFit DEF P3Points, CachedPoints
  <2> QED BY <2>2, Converted, CachedIs
<1>3. \A k \in 0..N : k = 0 \/ (k \in 1..N /\ k - 1 \in 0..(k - 1))
  BY SMT
<1> HIDE DEF N, first, S
<1>4. \E f : Rec(f)
  <2> DEFINE I == [k \in 0..N |-> CachedPoints]
             step == [x \in (1..N) \X CachedPoints |-> S(x[2])]
  <2>1. 0 \in 0..N /\ \A k \in 1..N : k \in 0..N /\ k - 1 \in 0..N
    BY <1>1, SMT
  <2>2. I \in [0..N -> SUBSET CachedPoints] /\ first \in I[0]
    BY <1>1, <2>1
  <2>3. \A k \in 1..N : \A v \in I[k - 1] : step[<<k, v>>] \in I[k] /\ step[<<k, v>>] = S(v)
    BY <1>2, <2>1
  <2>4. PICK f : f = [k \in 0..N |-> IF k = 0 THEN first ELSE step[<<k, f[k - 1]>>]]
                 /\ \A k \in 0..N : f[k] \in I[k]
    <3> HIDE DEF I, step
    <3>1. RoundsKeep(N, CachedPoints, I, first, step)
      BY <1>1, <2>2, <2>3 DEF RoundsKeep
    <3> QED BY <3>1, LoopFunction
  <2>5. \A k \in 1..N : step[<<k, f[k - 1]>>] = S(f[k - 1])
    <3> HIDE DEF I, step
    <3> QED BY <2>1, <2>3, <2>4
  <2>6. f = [k \in 0..N |-> IF k = 0 THEN first ELSE S(f[k - 1])]
    <3> HIDE DEF I, step
    <3> QED BY <1>3, <2>4, <2>5
  <2> QED BY <2>6
<1>5. Rec(g)
  <2> HIDE DEF Rec
  <2> QED BY <1>4, Zenon
<1>6. OddMultiples(A) = g
  BY Zenon DEF OddMultiples, N, first, S
<1> HIDE DEF g
<1>7. ASSUME NEW k \in 0..N, \A j \in 0..(k - 1) : j \in {n \in 0..N : g[n] \in CachedPoints}
      PROVE  k \in {n \in 0..N : g[n] \in CachedPoints}
  <2>1. g[k] = IF k = 0 THEN first ELSE S(g[k - 1])
    BY <1>5
  <2> QED BY <1>1, <1>2, <1>3, <1>7, <2>1
<1>8. 0..N \subseteq {n \in 0..N : g[n] \in CachedPoints}
  BY <1>1, <1>7, Upwards
<1>9. \A k \in 0..N : CachedFits(g[k])
  BY <1>8 DEF CachedPoints
<1> QED BY <1>6, <1>9 DEF N

\* What one digit of each scalar adds.
WithA(t, e, Ai) ==
  IF e > 0 THEN GeAdd(GeP1P1ToP3(t), Ai[e \div 2])
  ELSE IF e < 0 THEN GeSub(GeP1P1ToP3(t), Ai[(-e) \div 2])
  ELSE t

WithB(t, e) ==
  IF e > 0 THEN GeMadd(GeP1P1ToP3(t), Bi[e \div 2])
  ELSE IF e < 0 THEN GeMsub(GeP1P1ToP3(t), Bi[(-e) \div 2])
  ELSE t

\* A digit within 15 of 0 adds an entry of a table, if any.
LEMMA DigitAdded ==
  ASSUME NEW t, P1P1Fits(t), NEW e \in -15..15
  PROVE  /\ P1P1Fits(WithB(t, e))
         /\ \A Ai : (\A k \in 0..7 : CachedFits(Ai[k])) => P1P1Fits(WithA(t, e, Ai))
<1>1. (e > 0 => e \div 2 \in 0..7) /\ (e < 0 => (-e) \div 2 \in 0..7)
  BY SMT
<1>2. P3Fits(GeP1P1ToP3(t))
  BY ConversionsFit
<1>3. \A k \in 0..7 :
        P1P1Fits(GeMadd(GeP1P1ToP3(t), Bi[k])) /\ P1P1Fits(GeMsub(GeP1P1ToP3(t), Bi[k]))
  BY <1>2, TablesFit, SumsFit
<1>4. P1P1Fits(WithB(t, e))
  <2>1. CASE e > 0
    BY <1>1, <1>3, <2>1 DEF WithB
  <2>2. CASE ~(e > 0) /\ e < 0
    BY <1>1, <1>3, <2>2 DEF WithB
  <2>3. CASE ~(e > 0) /\ ~(e < 0)
    BY <2>3 DEF WithB
  <2> QED BY <2>1, <2>2, <2>3
<1>5. ASSUME NEW Ai, \A k \in 0..7 : CachedFits(Ai[k]) PROVE P1P1Fits(WithA(t, e, Ai))
  <2>1. \A k \in 0..7 :
          P1P1Fits(GeAdd(GeP1P1ToP3(t), Ai[k])) /\ P1P1Fits(GeSub(GeP1P1ToP3(t), Ai[k]))
    BY <1>2, <1>5, SumsFit
  <2>2. CASE e > 0
    BY <1>1, <2>1, <2>2 DEF WithA
  <2>3. CASE ~(e > 0) /\ e < 0
    BY <1>1, <2>1, <2>3 DEF WithA
  <2>4. CASE ~(e > 0) /\ ~(e < 0)
    BY <2>4 DEF WithA
  <2> QED BY <2>2, <2>3, <2>4
<1> QED BY <1>4, <1>5

\* ge_double_scalarmult_vartime returns a point that fits, for all scalars.
LEMMA DoubleScalarmultFits ==
  ASSUME NEW a \in Nat, NEW A \in P3Points, NEW b \in Nat
  PROVE  GeDoubleScalarmult(a, A, b) \in P2Points
<1> DEFINE aslide == Slide(a)
           bslide == Slide(b)
           Ai == OddMultiples(A)
           digits == {i \in DOMAIN aslide : aslide[i] # 0 \/ bslide[i] # 0}
           top == IF digits = {} THEN -1 ELSE Max(digits)
           N == top + 1
           seq == [k \in 1..(top + 1) |-> top + 1 - k]
           S(r, i) == [v \in {r} |->
                         GeP1P1ToP2(WithB(WithA(GeP2Dbl(v), aslide[i], Ai), bslide[i]))][r]
           Rec(f) == f = [k \in 0..Len(seq) |-> IF k = 0 THEN GeP20 ELSE S(f[k - 1], seq[k])]
           g == CHOOSE f : Rec(f)
<1>1. GeDoubleScalarmult(a, A, b) = g[Len(seq)]
  BY Zenon DEF GeDoubleScalarmult, Loop, WithA, WithB
<1>2. /\ aslide \in [Places -> Int] /\ bslide \in [Places -> Int]
      /\ \A j \in Places : aslide[j] \in -15..15 /\ bslide[j] \in -15..15
  BY SlideDigits
<1>3. \A k \in 0..7 : CachedFits(Ai[k])
  BY OddMultiplesFit
<1> HIDE DEF aslide, bslide, Ai
<1>4. top \in -1..(ScalarBits - 1)
  <2>1. digits \subseteq 0..(ScalarBits - 1) /\ ScalarBits - 1 \in Nat
    BY <1>2, SizesAre, SMT DEF Places
  <2>2. CASE digits = {}
    BY <2>1, <2>2, SMT
  <2>3. CASE digits # {}
    <3>1. Max(digits) \in 0..(ScalarBits - 1)
      <4> HIDE DEF digits
      <4> QED BY <2>1, <2>3, MaxIs
    <3> HIDE DEF digits
    <3> QED BY <2>1, <2>3, <3>1, SMT
  <2> QED BY <2>2, <2>3
<1> HIDE DEF top
<1>5. /\ N \in Nat /\ Len(seq) = N
      /\ \A k \in 1..N : seq[k] \in Places
  <2>1. top + 1 \in Nat
    BY <1>4, SizesAre, SMT
  <2>2. \A k \in 1..(top + 1) : top + 1 - k \in Places
    BY <1>4, SizesAre, SMT DEF Places
  <2>3. Len(seq) = top + 1
    BY <2>1, SMT
  <2> QED BY <2>1, <2>2, <2>3
<1>6. \A k \in 1..N : \A r \in P2Points : S(r, seq[k]) \in P2Points
  <2> SUFFICES ASSUME NEW i \in Places, NEW r \in P2Points PROVE S(r, i) \in P2Points
    BY <1>5
  <2>1. P1P1Fits(GeP2Dbl(r))
    BY SumsFit DEF P2Points
  <2>2. P1P1Fits(WithA(GeP2Dbl(r), aslide[i], Ai))
    BY <1>2, <1>3, <2>1, DigitAdded
  <2>3. P1P1Fits(WithB(WithA(GeP2Dbl(r), aslide[i], Ai), bslide[i]))
    BY <1>2, <2>2, DigitAdded
  <2>4. S(r, i) = GeP1P1ToP2(WithB(WithA(GeP2Dbl(r), aslide[i], Ai), bslide[i]))
    OBVIOUS
  <2> HIDE DEF S
  <2> QED BY <2>3, <2>4, Converted
<1>7. \A k \in 0..N : k = 0 \/ (k \in 1..N /\ k - 1 \in 0..(k - 1))
  BY <1>5, SMT
<1>8. GeP20 \in P2Points
  BY Converted
<1> HIDE DEF N, seq, S
<1>9. \E f : Rec(f)
  <2> DEFINE I == [k \in 0..N |-> P2Points]
             step == [x \in (1..N) \X P2Points |-> S(x[2], seq[x[1]])]
  <2>1. 0 \in 0..N /\ \A k \in 1..N : k \in 0..N /\ k - 1 \in 0..N
    BY <1>5, SMT
  <2>2. I \in [0..N -> SUBSET P2Points] /\ GeP20 \in I[0]
    BY <1>8, <2>1
  <2>3. \A k \in 1..N : \A v \in I[k - 1] : step[<<k, v>>] \in I[k] /\ step[<<k, v>>] = S(v, seq[k])
    BY <1>6, <2>1
  <2>4. PICK f : f = [k \in 0..N |-> IF k = 0 THEN GeP20 ELSE step[<<k, f[k - 1]>>]]
                 /\ \A k \in 0..N : f[k] \in I[k]
    <3> HIDE DEF I, step
    <3>1. RoundsKeep(N, P2Points, I, GeP20, step)
      BY <1>5, <2>2, <2>3 DEF RoundsKeep
    <3> QED BY <3>1, LoopFunction
  <2>5. \A k \in 1..N : step[<<k, f[k - 1]>>] = S(f[k - 1], seq[k])
    <3> HIDE DEF I, step
    <3> QED BY <2>1, <2>3, <2>4
  <2>6. f = [k \in 0..N |-> IF k = 0 THEN GeP20 ELSE S(f[k - 1], seq[k])]
    <3> HIDE DEF I, step
    <3> QED BY <1>7, <2>4, <2>5
  <2> QED BY <1>5, <2>6
<1>10. Rec(g)
  <2> HIDE DEF Rec
  <2> QED BY <1>9, Zenon
<1> HIDE DEF g
<1>11. ASSUME NEW k \in 0..N, \A j \in 0..(k - 1) : j \in {n \in 0..N : g[n] \in P2Points}
       PROVE  k \in {n \in 0..N : g[n] \in P2Points}
  <2>1. g[k] = IF k = 0 THEN GeP20 ELSE S(g[k - 1], seq[k])
    BY <1>5, <1>10
  <2> QED BY <1>6, <1>7, <1>8, <1>11, <2>1
<1>12. 0..N \subseteq {n \in 0..N : g[n] \in P2Points}
  BY <1>5, <1>11, Upwards
<1>13. N \in 0..N
  BY <1>5, SMT
<1> QED BY <1>1, <1>5, <1>12, <1>13

-----------------------------------------------------------------------------
\* Powers of two around the sizes of strings and scalars.
LEMMA SizePowers ==
  /\ 2 ^ FieldBits \in Nat \ {0} /\ 2 ^ ScalarBits = 2 * 2 ^ FieldBits
  /\ 2 ^ (ScalarBits - 3) <= 2 ^ (ScalarBits - 1)
  /\ 2 ^ (ScalarBits - 2) \in Nat /\ 2 ^ (ScalarBits - 2) >= 64
  /\ 2 ^ (ScalarBits - 1) = 2 * 2 ^ (ScalarBits - 2)
  /\ \A k \in {1, 2, 3} : ScalarBits - k \in Nat /\ 2 ^ (ScalarBits - k) \in Nat \ {0}
  /\ 2 ^ ScalarBits \in Nat \ {0}
<1>1. /\ FieldBits \in Nat /\ ScalarBits \in Nat
      /\ \A k \in {1, 2, 3} : ScalarBits - k \in Nat
      /\ ScalarBits = FieldBits + 1 /\ ScalarBits - 1 = ScalarBits - 2 + 1
      /\ ScalarBits - 3 <= ScalarBits - 1 /\ 6 <= ScalarBits - 2
  BY SizesAre, PrimeIs, SMT
<1>2. 2 ^ 6 <= 2 ^ (ScalarBits - 2) /\ 2 ^ (ScalarBits - 3) <= 2 ^ (ScalarBits - 1)
  <2>1. 6 \in Nat
    OBVIOUS
  <2> QED BY <1>1, <2>1, PowersOfTwo
<1>3. 2 ^ 6 = 64
  BY SMT
<1>4. /\ 2 ^ FieldBits \in Nat \ {0} /\ 2 ^ ScalarBits = 2 * 2 ^ FieldBits
      /\ 2 ^ ScalarBits \in Nat \ {0}
  BY <1>1, PowersOfTwo
<1>5. 2 ^ (ScalarBits - 1) = 2 * 2 ^ (ScalarBits - 2)
  BY <1>1, PowersOfTwo
<1>6. \A k \in {1, 2, 3} : 2 ^ (ScalarBits - k) \in Nat \ {0}
  BY <1>1, PowersOfTwo
<1>7. 2 ^ (ScalarBits - 2) >= 64
  <2>1. PICK m \in Nat : m = 2 ^ (ScalarBits - 2)
    BY <1>6
  <2> QED BY <1>2, <1>3, <2>1, SMT
<1> QED BY <1>1, <1>2, <1>4, <1>5, <1>6, <1>7

\* An encoded point is a string of ScalarBits bits.
LEMMA EncodedRange ==
  ASSUME NEW p, P2Fits(p)
  PROVE  GeToBytes(p) \in 0..(2 ^ ScalarBits - 1)
<1> DEFINE x == FeMul(p.X, FeInvert(p.Z))
           y == FeMul(p.Y, FeInvert(p.Z))
<1>1. Fits(x, Carried) /\ Fits(y, Carried)
  <2>1. Fits(FeInvert(p.Z), Carried)
    BY FieldFits, PowFits DEF P2Fits
  <2> QED BY <2>1, FieldFits DEF P2Fits
<1>2. FeToBytes(x) = x.val /\ FeToBytes(y) = y.val
  BY EncodingsFit
<1>3. GeToBytes(p) = FeToBytes(y) + FeIsNegative(x) * 2 ^ FieldBits
  BY DEF GeToBytes
<1> HIDE DEF x, y
<1>4. x.val \in 0..(P - 1) /\ y.val \in 0..(P - 1)
  BY <1>1 DEF Fits, Fe, Residues
<1>5. FeIsNegative(x) \in {0, 1}
  <2>1. x.val # NoBytes
    BY <1>4, PrimeIs, SMT DEF NoBytes
  <2>2. FeIsNegative(x) = x.val % 2
    BY <1>2, <2>1 DEF FeIsNegative
  <2> QED BY <1>4, <2>2, PrimeIs, SMT
<1>6. PICK m \in Nat : m = 2 ^ FieldBits
  BY SizePowers
<1>7. 2 ^ ScalarBits = 2 * m /\ P < m
  BY <1>6, SizePowers, PrimeIs
<1>8. GeToBytes(p) = y.val + FeIsNegative(x) * m
  BY <1>2, <1>3, <1>6
<1>9. CASE FeIsNegative(x) = 0
  <2>1. GeToBytes(p) = y.val
    <3>1. 0 * m = 0
      BY SMT
    <3>2. y.val + 0 = y.val
      BY <1>4, PrimeIs, SMT
    <3> QED BY <1>8, <1>9, <3>1, <3>2
  <2>2. y.val \in 0..(2 * m - 1)
    BY <1>4, <1>7, PrimeIs, SMT
  <2> QED BY <1>7, <2>1, <2>2
<1>10. CASE FeIsNegative(x) = 1
  <2>1. GeToBytes(p) = y.val + 1 * m
    BY <1>8, <1>10
  <2>2. y.val + 1 * m \in 0..(2 * m - 1)
    BY <1>4, <1>7, PrimeIs, SMT
  <2> QED BY <1>7, <2>1, <2>2
<1> QED BY <1>5, <1>9, <1>10

\* So is every public key that is derived from a private one.
LEMMA DerivedRange == \A e : DerivePub(e) \in 0..(2 ^ ScalarBits - 1)
BY ScalarmultBaseFits, EncodedRange DEF DerivePub, P3Points, P3Fits

\* A decoded point is one that fits.
LEMMA DecodedPoints ==
  ASSUME NEW s \in Nat, NEW A \in GeFromBytesNegate(s)
  PROVE  A \in P3Points
<1>1. P3Fits(A)
  BY DecodingsFit
<1>2. A \in GeP3
  <2>1. PICK x, y : A = GeAffine(x, y)
    BY DEF GeFromBytesNegate
  <2>2. A.X = x /\ A.Y = y /\ A.Z = One /\ A.T = FeMul(x, y)
    BY <2>1 DEF GeAffine
  <2>3. A.X \in Fe /\ A.Y \in Fe /\ A.Z \in Fe /\ A.T \in Fe
    BY <1>1 DEF P3Fits, P2Fits, Fits
  <2> QED BY <2>1, <2>2, <2>3 DEF GeAffine, GeP3
<1> QED BY <1>1, <1>2 DEF P3Points

\* ed25519_add_scalar on a public key that decodes makes another string.
LEMMA AddedRange ==
  ASSUME NEW s \in Nat, GeFromBytesNegate(s) # {}, NEW scalar
  PROVE  AddToPublic(s, scalar) \in 0..(2 ^ ScalarBits - 1)
<1> DEFINE nB == GeScalarmultBase(ScalarToAdd(scalar))
           T == CHOOSE A \in GeFromBytesNegate(s) : TRUE
           undone == [T EXCEPT !.X = FeNeg(T.X), !.T = FeNeg(T.T)]
<1>1. T \in GeFromBytesNegate(s)
  OBVIOUS
<1>2. T \in GeP3 /\ P3Fits(T)
  BY <1>1, DecodedPoints DEF P3Points
<1>3. nB \in P3Points
  BY ScalarmultBaseFits
<1>4. AddToPublic(s, scalar) = GeToBytes(GeP1P1ToP3(GeAdd(nB, GeP3ToCached(undone))))
  BY DEF AddToPublic
<1> HIDE DEF T, nB
<1>5. P3Fits(undone)
  <2>1. undone.X = FeNeg(T.X) /\ undone.Y = T.Y /\ undone.Z = T.Z /\ undone.T = FeNeg(T.T)
    BY <1>2 DEF GeP3
  <2> HIDE DEF undone
  <2>2. Fits(FeNeg(T.X), Carried) /\ Fits(FeNeg(T.T), Carried)
    BY <1>2, FieldFits DEF P3Fits, P2Fits
  <2> QED BY <1>2, <2>1, <2>2 DEF P3Fits, P2Fits
<1> HIDE DEF undone
<1>6. P1P1Fits(GeAdd(nB, GeP3ToCached(undone)))
  BY <1>3, <1>5, ConversionsFit, SumsFit DEF P3Points
<1>7. P2Fits(GeP1P1ToP3(GeAdd(nB, GeP3ToCached(undone))))
  BY <1>6, Converted DEF P3Points, P3Fits
<1> QED BY <1>4, <1>7, EncodedRange

\* What clamping leaves of a private key.
LEMMA ClampRange ==
  ASSUME NEW s \in Nat
  PROVE  Clamp(s) \in 0..(2 ^ (ScalarBits - 1) - 1)
<1>1. PICK m \in Nat : m = 2 ^ (ScalarBits - 2)
  BY SizePowers
<1>2. m >= 64 /\ 2 ^ (ScalarBits - 1) = 2 * m
  BY <1>1, SizePowers
<1>3. Clamp(s) = (s % m) - (s % 8) + m
  BY <1>1 DEF Clamp
<1>4. s % m \in 0..(m - 1) /\ s % 8 \in 0..7
  BY <1>2, SMT
<1>5. (s % m) - (s % 8) + m \in 0..(2 * m - 1)
  BY <1>2, <1>4, SMT
<1> QED BY <1>2, <1>3, <1>5

-----------------------------------------------------------------------------
\* The ladder's state between its rounds.
LadderCoords == [x2 : Fe, z2 : Fe, x3 : Fe, z3 : Fe]
LadderPoints == {t \in [points : LadderCoords, swap : {0, 1}] : LadderFits(t.points)}

\* ed25519_key_exchange takes every string for a key.
LEMMA SharedSecretFits ==
  ASSUME NEW public \in Nat, NEW e \in Nat
  PROVE  SharedSecret(public, e) >= 0
<1> DEFINE y == FeFromBytes(public)
           x1 == FeMul(FeAdd(y, One), FeInvert(FeSub(One, y)))
           N == ScalarBits - 1
           first == [points |-> [x2 |-> One, z2 |-> Zero, x3 |-> x1, z3 |-> One], swap |-> 0]
           seq == [k \in 1..(ScalarBits - 1) |-> ScalarBits - 1 - k]
           S(t, pos) == [v \in {t} |-> LadderStep(x1, v, (e \div 2 ^ pos) % 2)][t]
           Rec(f) == f = [k \in 0..Len(seq) |-> IF k = 0 THEN first ELSE S(f[k - 1], seq[k])]
           g == CHOOSE f : Rec(f)
           s == g[Len(seq)]
           xs == FeCswap(<<s.points.x2, s.points.x3>>, s.swap)
           zs == FeCswap(<<s.points.z2, s.points.z3>>, s.swap)
<1>1. SharedSecret(public, e) = FeToBytes(FeMul(xs[1], FeInvert(zs[1])))
  BY Zenon DEF SharedSecret, Loop
<1>2. Fits(x1, Carried)
  <2>1. (public % 2 ^ FieldBits) % P \in Residues
    <3>1. PICK m \in Nat \ {0} : m = 2 ^ FieldBits
      BY SizePowers
    <3>2. public % m \in Int
      BY SMT
    <3> QED BY <3>1, <3>2, PrimeIs
  <2>2. Fits(y, Carried)
    BY <2>1, ConstantsFit DEF FeFromBytes
  <2> HIDE DEF y
  <2>3. Fits(FeAdd(y, One), 3 * Carried) /\ Fits(FeSub(One, y), 3 * Carried)
    BY <2>2, ConstantsFit, FieldFits
  <2>4. Fits(FeInvert(FeSub(One, y)), 3 * Carried)
    BY <2>3, PowFits, FieldFits
  <2> QED BY <2>3, <2>4, FieldFits
<1>3. N \in Nat /\ Len(seq) = N /\ \A k \in 1..N : seq[k] \in Nat
  <2>1. N \in Nat
    BY SizesAre, SMT
  <2>2. \A k \in 1..N : N - k \in Nat
    BY <2>1, SMT
  <2> QED BY <2>1, <2>2, SMT
<1> HIDE DEF x1
<1>4. first \in LadderPoints
  <2>1. first.points \in LadderCoords /\ LadderFits(first.points)
    BY <1>2, ConstantsFit DEF LadderCoords, LadderFits, Fits
  <2> QED BY <2>1 DEF LadderPoints
<1>5. \A k \in 1..N : \A t \in LadderPoints : S(t, seq[k]) \in LadderPoints
  <2> SUFFICES ASSUME NEW pos \in Nat, NEW t \in LadderPoints PROVE S(t, pos) \in LadderPoints
    BY <1>3
  <2>1. (e \div 2 ^ pos) % 2 \in {0, 1}
    <3>1. PICK m \in Nat \ {0} : m = 2 ^ pos
      BY PowersOfTwo
    <3>2. PICK q \in Int : q = e \div m
      BY SMT
    <3>3. q % 2 \in {0, 1}
      BY SMT
    <3> QED BY <3>1, <3>2, <3>3
  <2> DEFINE b == (e \div 2 ^ pos) % 2
  <2> HIDE DEF b
  <2>2. LadderFits(LadderStep(x1, t, b).points)
    BY <1>2, LadderStepsFit DEF LadderPoints
  <2>3. LadderStep(x1, t, b).points \in LadderCoords
    <3>1. PICK x2, z2, x3, z3 : LadderStep(x1, t, b).points = LadderRound(x1, x2, z2, x3, z3)
      BY DEF LadderStep
    <3>2. PICK c2, w2, c3, w3 :
            LadderStep(x1, t, b).points = [x2 |-> c2, z2 |-> w2, x3 |-> c3, z3 |-> w3]
      BY <3>1, Zenon DEF LadderRound
    <3>3. c2 \in Fe /\ w2 \in Fe /\ c3 \in Fe /\ w3 \in Fe
      BY <2>2, <3>2 DEF LadderFits, Fits
    <3> QED BY <3>2, <3>3 DEF LadderCoords
  <2>4. LadderStep(x1, t, b) = [points |-> LadderStep(x1, t, b).points, swap |-> b]
    BY DEF LadderStep
  <2>5. LadderStep(x1, t, b) \in LadderPoints
    <3> DEFINE c == LadderStep(x1, t, b)
    <3> HIDE DEF c
    <3>1. b \in {0, 1}
      BY <2>1 DEF b
    <3>2. c = [points |-> c.points, swap |-> b] /\ c.points \in LadderCoords /\ LadderFits(c.points)
      BY <2>2, <2>3, <2>4 DEF c
    <3>3. c \in LadderPoints
      BY <3>1, <3>2 DEF LadderPoints
    <3> QED BY <3>3 DEF c
  <2>6. S(t, pos) = LadderStep(x1, t, b)
    BY DEF b
  <2> HIDE DEF S
  <2> QED BY <2>5, <2>6
<1>6. \A k \in 0..N : k = 0 \/ (k \in 1..N /\ k - 1 \in 0..(k - 1))
  BY <1>3, SMT
<1> HIDE DEF N, first, seq, S
<1>7. \E f : Rec(f)
  <2> DEFINE I == [k \in 0..N |-> LadderPoints]
             step == [x \in (1..N) \X LadderPoints |-> S(x[2], seq[x[1]])]
  <2>1. 0 \in 0..N /\ \A k \in 1..N : k \in 0..N /\ k - 1 \in 0..N
    BY <1>3, SMT
  <2>2. I \in [0..N -> SUBSET LadderPoints] /\ first \in I[0]
    BY <1>4, <2>1
  <2>3. \A k \in 1..N : \A v \in I[k - 1] : step[<<k, v>>] \in I[k] /\ step[<<k, v>>] = S(v, seq[k])
    BY <1>5, <2>1
  <2>4. PICK f : f = [k \in 0..N |-> IF k = 0 THEN first ELSE step[<<k, f[k - 1]>>]]
                 /\ \A k \in 0..N : f[k] \in I[k]
    <3> HIDE DEF I, step
    <3>1. RoundsKeep(N, LadderPoints, I, first, step)
      BY <1>3, <2>2, <2>3 DEF RoundsKeep
    <3> QED BY <3>1, LoopFunction
  <2>5. \A k \in 1..N : step[<<k, f[k - 1]>>] = S(f[k - 1], seq[k])
    <3> HIDE DEF I, step
    <3> QED BY <2>1, <2>3, <2>4
  <2>6. f = [k \in 0..N |-> IF k = 0 THEN first ELSE S(f[k - 1], seq[k])]
    <3> HIDE DEF I, step
    <3> QED BY <1>6, <2>4, <2>5
  <2> QED BY <1>3, <2>6
<1>8. Rec(g)
  <2> HIDE DEF Rec
  <2> QED BY <1>7, Zenon
<1> HIDE DEF g
<1>9. ASSUME NEW k \in 0..N, \A j \in 0..(k - 1) : j \in {n \in 0..N : g[n] \in LadderPoints}
      PROVE  k \in {n \in 0..N : g[n] \in LadderPoints}
  <2>1. g[k] = IF k = 0 THEN first ELSE S(g[k - 1], seq[k])
    BY <1>3, <1>8
  <2> QED BY <1>4, <1>5, <1>6, <1>9, <2>1
<1>10. 0..N \subseteq {n \in 0..N : g[n] \in LadderPoints}
  BY <1>3, <1>9, Upwards
<1>11. s \in LadderPoints
  <2>1. N \in 0..N
    BY <1>3, SMT
  <2> QED BY <1>3, <1>10, <2>1
<1> HIDE DEF s
<1>12. Fits(xs[1], Carried) /\ Fits(zs[1], Carried)
  BY <1>11 DEF LadderPoints, LadderFits, FeCswap
<1> HIDE DEF xs, zs
<1>13. Fits(FeMul(xs[1], FeInvert(zs[1])), Carried)
  <2>1. Fits(FeInvert(zs[1]), Carried)
    BY <1>12, FieldFits, PowFits
  <2> QED BY <1>12, <2>1, FieldFits
<1>14. SharedSecret(public, e) = FeMul(xs[1], FeInvert(zs[1])).val
  BY <1>1, <1>13, FieldFits, BytesFit
<1>15. FeMul(xs[1], FeInvert(zs[1])).val \in 0..(P - 1)
  BY <1>13 DEF Fits, Fe, Residues
<1> QED BY <1>14, <1>15, PrimeIs, SMT

-----------------------------------------------------------------------------
\* Reduced scalars, and hence private keys that scalars were added to.
LEMMA ReducedRange ==
  /\ \A n \in Int : n % L \in 0..(L - 1)
  /\ L \in Nat \ {0} /\ L - 1 < 2 ^ (ScalarBits - 1)
<1>1. PICK m \in Nat, n \in Nat : m = 2 ^ (ScalarBits - 3) /\ n = 2 ^ (ScalarBits - 1)
  BY SizePowers
<1>2. L \in Nat \ {0} /\ L < m /\ m <= n
  BY <1>1, SizePowers, LibraryConstants
<1> QED BY <1>1, <1>2, SMT

\* The types of the variables: private keys stay below 2^(ScalarBits - 1), public
\* keys are strings, no copy is ahead of its key, signatures have reduced halves.
\* Besides what TypeOK says, the sets that the functions come from, without which
\* a step's EXCEPT says nothing.
KeyInv ==
  /\ prv \in [Parties -> 0..(2 ^ (ScalarBits - 1) - 1)]
  /\ pub \in [Parties -> 0..(2 ^ ScalarBits - 1)]
  /\ added \in [Parties -> Seq(Scalars)]
  /\ copy = [p \in Parties |-> [pub |-> copy[p].pub, count |-> copy[p].count]]
  /\ \A p \in Parties : copy[p].count \in 0..Len(added[p])
  /\ \A s \in sig : s.of.S \in 0..(L - 1) /\ s.hash \in Nat

\* Keys of clamped seeds, and nothing added, copied or signed.
LEMMA KeyInit == Init => KeyInv
<1> SUFFICES ASSUME Init PROVE KeyInv
  OBVIOUS
<1>1. PICK first \in [Parties -> Seeds] :
        /\ prv = [p \in Parties |-> NewKey(first[p]).prv]
        /\ pub = [p \in Parties |-> NewKey(first[p]).pub]
  BY DEF Init
<1>2. \A p \in Parties : first[p] \in Nat
  <2>1. PICK m \in Nat : m = 2 ^ ScalarBits
    BY SizePowers
  <2>2. Seeds \subseteq 0..(m - 1)
    BY <2>1, LibraryConstants
  <2>3. Seeds \subseteq Nat
    BY <2>2, SMT
  <2> QED BY <2>3
<1>3. \A p \in Parties : NewKey(first[p]).prv \in 0..(2 ^ (ScalarBits - 1) - 1)
                         /\ NewKey(first[p]).pub \in 0..(2 ^ ScalarBits - 1)
  BY <1>2, ClampRange, DerivedRange DEF NewKey
<1>4. /\ prv \in [Parties -> 0..(2 ^ (ScalarBits - 1) - 1)]
      /\ pub \in [Parties -> 0..(2 ^ ScalarBits - 1)]
  BY <1>1, <1>3
<1>5. added \in [Parties -> Seq(Scalars)] /\ \A p \in Parties : Len(added[p]) = 0
  BY DEF Init
<1>6. copy = [p \in Parties |-> [pub |-> copy[p].pub, count |-> copy[p].count]]
      /\ \A p \in Parties : copy[p].count = 0
  BY DEF Init
<1>7. sig = {}
  BY DEF Init
<1> QED BY <1>4, <1>5, <1>6, <1>7 DEF KeyInv

\* Every action keeps the types.
LEMMA KeyStep == KeyInv /\ [Next]_vars => KeyInv'
<1> SUFFICES ASSUME KeyInv, [Next]_vars PROVE KeyInv'
  OBVIOUS
<1>1. CASE UNCHANGED vars
  BY <1>1 DEF KeyInv, vars
<1>2. ASSUME NEW p \in Parties, AddScalarPublic(p) PROVE KeyInv'
  <2> DEFINE next == [pub |-> AddToPublic(copy[p].pub, added[p][copy[p].count + 1]),
                      count |-> copy[p].count + 1]
  <2>1. /\ copy' = [copy EXCEPT ![p] = next] /\ sig' = {}
        /\ pub' = pub /\ prv' = prv /\ added' = added
        /\ copy[p].count < Len(added[p])
    BY <1>2 DEF AddScalarPublic
  <2>2. next.count \in 0..Len(added[p]) /\ next = [pub |-> next.pub, count |-> next.count]
    <3>1. copy[p].count \in 0..Len(added[p]) /\ Len(added[p]) \in Nat
      BY DEF KeyInv
    <3> QED BY <2>1, <3>1
  <2> HIDE DEF next
  <2>3. \A q \in Parties : copy'[q] = IF q = p THEN next ELSE copy[q]
    BY <2>1 DEF KeyInv
  <2>4. copy' = [q \in Parties |-> [pub |-> copy'[q].pub, count |-> copy'[q].count]]
    <3>1. copy' = [q \in Parties |-> copy'[q]]
      BY <2>1 DEF KeyInv
    <3>2. \A q \in Parties : copy'[q] = [pub |-> copy'[q].pub, count |-> copy'[q].count]
      BY <2>2, <2>3 DEF KeyInv
    <3> QED BY <3>1, <3>2
  <2>5. \A q \in Parties : copy'[q].count \in 0..Len(added[q])
    BY <2>2, <2>3 DEF KeyInv
  <2> QED BY <2>1, <2>4, <2>5 DEF KeyInv
<1>3. ASSUME NEW p \in Parties, NEW n \in Scalars, AddScalar(p, n) PROVE KeyInv'
  <2> DEFINE private == AddToPrivate(prv[p], n)
  <2>1. /\ prv' = [prv EXCEPT ![p] = private]
        /\ pub' = [pub EXCEPT ![p] = DerivePub(private)]
        /\ added' = [added EXCEPT ![p] = Append(added[p], n)]
        /\ sig' = {} /\ copy' = copy
    BY <1>3 DEF AddScalar
  <2>2. private \in 0..(2 ^ (ScalarBits - 1) - 1)
    <3>1. ScalarToAdd(n) \in Int /\ prv[p] \in Int
      <4>1. PICK m \in Nat \ {0}, w \in Nat : m = 2 ^ (ScalarBits - 1) /\ w = 2 ^ ScalarBits
        BY SizePowers
      <4>2. n \in 0..(w - 1)
        BY <4>1, LibraryConstants
      <4>3. n % m \in Int
        BY <4>1, <4>2, SMT
      <4>4. prv[p] \in 0..(m - 1)
        BY <4>1 DEF KeyInv
      <4> QED BY <4>1, <4>3, <4>4 DEF ScalarToAdd
    <3>2. 1 * ScalarToAdd(n) + prv[p] \in Int
      BY <3>1, SMT
    <3>3. private \in 0..(L - 1)
      BY <3>2, ReducedRange DEF AddToPrivate, ScMulAdd
    <3>4. PICK m \in Nat : m = 2 ^ (ScalarBits - 1)
      BY SizePowers
    <3>5. L \in Nat /\ L - 1 < m
      BY <3>4, ReducedRange
    <3> HIDE DEF private
    <3>6. private \in 0..(m - 1)
      BY <3>3, <3>5, SMT
    <3> QED BY <3>4, <3>6
  <2>3. DerivePub(private) \in 0..(2 ^ ScalarBits - 1)
    BY DerivedRange
  <2> HIDE DEF private
  <2>4. prv' \in [Parties -> 0..(2 ^ (ScalarBits - 1) - 1)]
    BY <2>1, <2>2 DEF KeyInv
  <2>5. pub' \in [Parties -> 0..(2 ^ ScalarBits - 1)]
    BY <2>1, <2>3 DEF KeyInv
  <2>6. added' \in [Parties -> Seq(Scalars)]
    BY <2>1 DEF KeyInv
  <2>7. \A q \in Parties : copy[q].count \in 0..Len(added'[q])
    <3> SUFFICES ASSUME NEW q \in Parties PROVE copy[q].count \in 0..Len(added'[q])
      OBVIOUS
    <3>1. Len(added[q]) \in Nat /\ copy[q].count \in 0..Len(added[q])
      BY DEF KeyInv
    <3>2. Len(added'[q]) \in {Len(added[q]), Len(added[q]) + 1}
      BY <2>1 DEF KeyInv
    <3> QED BY <3>1, <3>2
  <2> QED BY <2>1, <2>4, <2>5, <2>6, <2>7 DEF KeyInv
<1>4. ASSUME NEW p \in Parties, NEW r \in HashValues, NEW h \in HashValues, SignMessage(p, r, h)
      PROVE  KeyInv'
  <2>1. /\ sig' = {[key |-> pub[p], of |-> Sign(prv[p], r, SignPoint(r), h), hash |-> h]}
        /\ UNCHANGED <<pub, prv, added, copy>>
    BY <1>4 DEF SignMessage
  <2>2. Sign(prv[p], r, SignPoint(r), h).S \in 0..(L - 1)
    <3>1. Sign(prv[p], r, SignPoint(r), h).S = (ScReduce(h) * prv[p] + ScReduce(r)) % L
      BY DEF Sign, ScMulAdd
    <3>2. ScReduce(h) \in Int /\ ScReduce(r) \in Int
      BY ReducedRange, LibraryConstants DEF ScReduce
    <3>3. prv[p] \in Int
      <4>1. PICK m \in Nat : m = 2 ^ (ScalarBits - 1)
        BY SizePowers
      <4> QED BY <4>1 DEF KeyInv
    <3>4. ScReduce(h) * prv[p] + ScReduce(r) \in Int
      BY <3>2, <3>3, SMT
    <3> QED BY <3>1, <3>4, ReducedRange
  <2>3. h \in Nat
    BY LibraryConstants
  <2> QED BY <2>1, <2>2, <2>3 DEF KeyInv
<1>5. Adders \subseteq Parties
  BY LibraryConstants
<1> QED BY <1>1, <1>2, <1>3, <1>4, <1>5 DEF Next

\* So they are invariant.
LEMMA KeyInvariant == Spec => []KeyInv
BY KeyInit, KeyStep, PTL DEF Spec

\* Whatever scalars are added to a key, a private key stays a number below 2^255,
\* its public key an encoded string, no copy runs ahead of the key it follows,
\* and the second half of every signature is reduced.
THEOREM LibraryTypes == Spec => []TypeOK
<1>1. KeyInv => TypeOK
  BY DEF KeyInv, TypeOK
<1> QED BY <1>1, KeyInvariant, PTL

\* The copies of public keys are numbers.
CopyInv == \A p \in Parties : copy[p].pub \in Nat

\* Adding to a copy that is a point makes it a number again.
LEMMA CopyStep == KeyInv /\ CopyInv /\ CopiesDecode /\ [Next]_vars => CopyInv'
<1> SUFFICES ASSUME KeyInv, CopyInv, CopiesDecode, [Next]_vars PROVE CopyInv'
  OBVIOUS
<1>1. CASE copy' = copy
  BY <1>1 DEF CopyInv
<1>2. ASSUME NEW p \in Parties, AddScalarPublic(p) PROVE CopyInv'
  <2> DEFINE next == [pub |-> AddToPublic(copy[p].pub, added[p][copy[p].count + 1]),
                      count |-> copy[p].count + 1]
  <2>1. copy' = [copy EXCEPT ![p] = next]
    BY <1>2 DEF AddScalarPublic
  <2>2. next.pub \in Nat
    <3>1. copy[p].pub \in Nat /\ GeFromBytesNegate(copy[p].pub) # {}
      BY DEF CopyInv, CopiesDecode
    <3>2. next.pub \in 0..(2 ^ ScalarBits - 1)
      BY <3>1, AddedRange
    <3>3. PICK m \in Nat : m = 2 ^ ScalarBits
      BY SizePowers
    <3> HIDE DEF next
    <3> QED BY <3>2, <3>3
  <2> HIDE DEF next
  <2>3. \A q \in Parties : copy'[q] = IF q = p THEN next ELSE copy[q]
    BY <2>1 DEF KeyInv
  <2> QED BY <2>2, <2>3 DEF CopyInv
<1>3. Adders \subseteq Parties
  BY LibraryConstants
<1>4. [Next]_vars => copy' = copy \/ \E p \in Adders : AddScalarPublic(p)
  BY DEF Next, vars, AddScalar, SignMessage
<1> QED BY <1>1, <1>2, <1>3, <1>4

\* What ed25519_key_exchange and ed25519_verify compute for numbers.
LEMMA KeysFit == KeyInv /\ CopyInv => LimbsFit
<1> SUFFICES ASSUME KeyInv, CopyInv PROVE LimbsFit
  OBVIOUS
<1>1. \A p \in Parties : pub[p] \in Nat /\ prv[p] \in Nat
  <2>1. PICK m \in Nat, n \in Nat : m = 2 ^ (ScalarBits - 1) /\ n = 2 ^ ScalarBits
    BY SizePowers
  <2> QED BY <2>1 DEF KeyInv
<1>2. OtherKeys \subseteq Nat
  <2>1. PICK m \in Nat : m = 2 ^ ScalarBits
    BY SizePowers
  <2> QED BY <2>1, LibraryConstants
<1>3. ASSUME NEW p \in Parties
      PROVE  /\ pub[p] >= 0 /\ copy[p].pub >= 0
             /\ \A key \in OtherKeys \cup {pub[p]} : KeyExchange(key, prv[p]) >= 0
  <2>1. pub[p] >= 0 /\ copy[p].pub >= 0
    BY <1>1 DEF CopyInv
  <2>2. Clamp(prv[p]) \in Nat
    <3>1. PICK m \in Nat : m = 2 ^ (ScalarBits - 1)
      BY SizePowers
    <3>2. Clamp(prv[p]) \in 0..(m - 1)
      BY <1>1, <3>1, ClampRange
    <3> QED BY <3>2
  <2>3. \A key \in OtherKeys \cup {pub[p]} : KeyExchange(key, prv[p]) >= 0
    BY <1>1, <1>2, <2>2, SharedSecretFits DEF KeyExchange
  <2> QED BY <2>1, <2>3
<1>4. ASSUME NEW s \in sig, NEW key \in OtherKeys, NEW A \in GeFromBytesNegate(key)
      PROVE  GeToBytes(GeDoubleScalarmult(ScReduce(s.hash), A, s.of.S)) >= 0
  <2>1. ScReduce(s.hash) \in Nat /\ s.of.S \in Nat
    <3>1. s.hash \in Nat /\ s.of.S \in 0..(L - 1)
      BY DEF KeyInv
    <3>2. s.hash % L \in 0..(L - 1)
      BY <3>1, ReducedRange
    <3> QED BY <3>1, <3>2 DEF ScReduce
  <2>2. A \in P3Points
    BY <1>2, DecodedPoints
  <2> DEFINE q == GeDoubleScalarmult(ScReduce(s.hash), A, s.of.S)
  <2>3. P2Fits(q)
    BY <2>1, <2>2, DoubleScalarmultFits DEF P2Points
  <2> HIDE DEF q
  <2>4. GeToBytes(q) \in 0..(2 ^ ScalarBits - 1)
    BY <2>3, EncodedRange
  <2>5. PICK m \in Nat : m = 2 ^ ScalarBits
    BY SizePowers
  <2>6. GeToBytes(q) >= 0
    BY <2>4, <2>5
  <2> QED BY <2>6 DEF q
<1> QED BY <1>3, <1>4 DEF LimbsFit

\* As long as what ed25519_add_scalar is given for a public key is a point, no
\* sum, difference or product of limbs outgrows its word: not in deriving keys,
\* adding scalars, signing, verifying or agreeing on secrets, for keys and strings
\* of every value and curves of every size.
THEOREM LimbsAlwaysFit == Spec /\ []CopiesDecode => []LimbsFit
<1>1. Init => CopyInv
  <2>1. PICK m \in Nat : m = 2 ^ ScalarBits
    BY SizePowers
  <2>2. Init => \A p \in Parties : copy[p].pub = pub[p]
    BY DEF Init
  <2> QED BY <2>1, <2>2, KeyInit DEF KeyInv, CopyInv
<1>2. Spec /\ []CopiesDecode => []CopyInv
  BY <1>1, KeyInvariant, CopyStep, PTL DEF Spec
<1> QED BY <1>2, KeyInvariant, KeysFit, PTL

-----------------------------------------------------------------------------
\* Which powers of two make up the exponent in register r before statement n.
InvertBits(n, r) ==
  CASE r = "z" -> {0}
    [] r = "t0" -> IF n = 1 THEN {} ELSE IF n <= 4 THEN {1} ELSE {0, 1, 3}
    [] r = "t1" -> IF n <= 2 THEN {} ELSE IF n = 3 THEN {3} ELSE IF n <= 6 THEN {0, 3}
                   ELSE IF n <= 8 THEN 0..4 ELSE IF n <= 14 THEN 0..9
                   ELSE IF n <= 20 THEN 0..49 ELSE IF n = 21 THEN 0..249 ELSE 5..254
    [] r = "t2" -> IF n <= 5 THEN {} ELSE IF n <= 7 THEN {1, 2, 4} ELSE IF n <= 9 THEN 5..9
                   ELSE IF n = 10 THEN 10..19 ELSE IF n <= 12 THEN 0..19
                   ELSE IF n = 13 THEN 0..39 ELSE IF n <= 15 THEN 10..49
                   ELSE IF n = 16 THEN 50..99 ELSE IF n <= 18 THEN 0..99
                   ELSE IF n = 19 THEN 0..199 ELSE 50..249
    [] r = "t3" -> IF n <= 11 THEN {} ELSE IF n <= 17 THEN 20..39 ELSE 100..199
    [] r = "out" -> IF n <= 22 THEN {} ELSE (0..254) \ {2, 4}

Pow22523Bits(n, r) ==
  CASE r = "z" -> {0}
    [] r = "t0" -> IF n = 1 THEN {} ELSE IF n <= 4 THEN {1} ELSE IF n = 5 THEN {0, 1, 3}
                   ELSE IF n = 6 THEN {1, 2, 4} ELSE IF n <= 8 THEN 0..4 ELSE IF n <= 14 THEN 0..9
                   ELSE IF n <= 20 THEN 0..49 ELSE IF n = 21 THEN 0..249 ELSE 2..251
    [] r = "t1" -> IF n <= 2 THEN {} ELSE IF n = 3 THEN {3} ELSE IF n <= 7 THEN {0, 3}
                   ELSE IF n <= 9 THEN 5..9 ELSE IF n = 10 THEN 10..19 ELSE IF n <= 12 THEN 0..19
                   ELSE IF n = 13 THEN 0..39 ELSE IF n <= 15 THEN 10..49
                   ELSE IF n = 16 THEN 50..99 ELSE IF n <= 18 THEN 0..99
                   ELSE IF n = 19 THEN 0..199 ELSE 50..249
    [] r = "t2" -> IF n <= 11 THEN {} ELSE IF n <= 17 THEN 20..39 ELSE 100..199
    [] r = "t3" -> {}
    [] r = "out" -> IF n <= 22 THEN {} ELSE (0..251) \ {1}

\* The bits in either function.
BitsBefore(name, n, r) == IF name = "fe_invert" THEN InvertBits(n, r) ELSE Pow22523Bits(n, r)

\* A squaring moves all of them up.
Raised(S, j) == {k \in Exponent : k - j \in S}

\* The exponent with these bits.
ExponentOf(S) == [k \in Exponent |-> IF k \in S THEN 1 ELSE 0]

\* What register r holds after j squarings of statement n.
BitsAt(name, n, j, r) ==
  LET s == Program[name][n]
  IN  IF j > 0 /\ r = s.out THEN Raised(BitsBefore(name, n, s.x), j)
      ELSE BitsBefore(name, n, r)

\* The registers hold what the table says.
PowerInv ==
  /\ power \in {"fe_invert", "fe_pow22523"} /\ line \in 1..23 /\ turn \in 0..99
  /\ turn > 0 => line \in 1..22 /\ turn < Program[power][line].times
  /\ reg = [r \in Registers |-> ExponentOf(BitsAt(power, line, turn, r))]
\* What a statement does to the bits of the exponents.
Advances(name, n, s) ==
  /\ {s.out, s.x, s.y} \subseteq Registers /\ s.times \in 0..100
  /\ \A r \in Registers \ {s.out}, k \in Exponent :
       k \in BitsBefore(name, n + 1, r) <=> k \in BitsBefore(name, n, r)
  /\ IF s.times = 0
     THEN \A k \in Exponent :
            /\ ~(k \in BitsBefore(name, n, s.x) /\ k \in BitsBefore(name, n, s.y))
            /\ k \in BitsBefore(name, n + 1, s.out)
                 <=> k \in BitsBefore(name, n, s.x) \/ k \in BitsBefore(name, n, s.y)
     ELSE \A k \in Exponent :
            k \in BitsBefore(name, n + 1, s.out) <=> k \in Raised(BitsBefore(name, n, s.x), s.times)

\* The statements of fe_invert do what the table says.
LEMMA InvertAdvances ==
  ASSUME NEW n \in 1..22
  PROVE  Advances("fe_invert", n, Invert[n])
<1>1. CASE n = 1
  <2>1. Invert[1] = Sq("t0", "z", 1)
    BY SMT DEF Invert
  <2>2. Advances("fe_invert", 1, Sq("t0", "z", 1))
    BY SMT DEF Advances, Sq, Mul, BitsBefore, InvertBits, Raised, Registers, Exponent
  <2> QED BY <1>1, <2>1, <2>2, Zenon
<1>2. CASE n = 2
  <2>1. Invert[2] = Sq("t1", "t0", 2)
    BY SMT DEF Invert
  <2>2. Advances("fe_invert", 2, Sq("t1", "t0", 2))
    BY SMT DEF Advances, Sq, Mul, BitsBefore, InvertBits, Raised, Registers, Exponent
  <2> QED BY <1>2, <2>1, <2>2, Zenon
<1>3. CASE n = 3
  <2>1. Invert[3] = Mul("t1", "z", "t1")
    BY SMT DEF Invert
  <2>2. Advances("fe_invert", 3, Mul("t1", "z", "t1"))
    BY SMT DEF Advances, Sq, Mul, BitsBefore, InvertBits, Raised, Registers, Exponent
  <2> QED BY <1>3, <2>1, <2>2, Zenon
<1>4. CASE n = 4
  <2>1. Invert[4] = Mul("t0", "t0", "t1")
    BY SMT DEF Invert
  <2>2. Advances("fe_invert", 4, Mul("t0", "t0", "t1"))
    BY SMT DEF Advances, Sq, Mul, BitsBefore, InvertBits, Raised, Registers, Exponent
  <2> QED BY <1>4, <2>1, <2>2, Zenon
<1>5. CASE n = 5
  <2>1. Invert[5] = Sq("t2", "t0", 1)
    BY SMT DEF Invert
  <2>2. Advances("fe_invert", 5, Sq("t2", "t0", 1))
    BY SMT DEF Advances, Sq, Mul, BitsBefore, InvertBits, Raised, Registers, Exponent
  <2> QED BY <1>5, <2>1, <2>2, Zenon
<1>6. CASE n = 6
  <2>1. Invert[6] = Mul("t1", "t1", "t2")
    BY SMT DEF Invert
  <2>2. Advances("fe_invert", 6, Mul("t1", "t1", "t2"))
    BY SMT DEF Advances, Sq, Mul, BitsBefore, InvertBits, Raised, Registers, Exponent
  <2> QED BY <1>6, <2>1, <2>2, Zenon
<1>7. CASE n = 7
  <2>1. Invert[7] = Sq("t2", "t1", 5)
    BY SMT DEF Invert
  <2>2. Advances("fe_invert", 7, Sq("t2", "t1", 5))
    BY SMT DEF Advances, Sq, Mul, BitsBefore, InvertBits, Raised, Registers, Exponent
  <2> QED BY <1>7, <2>1, <2>2, Zenon
<1>8. CASE n = 8
  <2>1. Invert[8] = Mul("t1", "t2", "t1")
    BY SMT DEF Invert
  <2>2. Advances("fe_invert", 8, Mul("t1", "t2", "t1"))
    BY SMT DEF Advances, Sq, Mul, BitsBefore, InvertBits, Raised, Registers, Exponent
  <2> QED BY <1>8, <2>1, <2>2, Zenon
<1>9. CASE n = 9
  <2>1. Invert[9] = Sq("t2", "t1", 10)
    BY SMT DEF Invert
  <2>2. Advances("fe_invert", 9, Sq("t2", "t1", 10))
    BY SMT DEF Advances, Sq, Mul, BitsBefore, InvertBits, Raised, Registers, Exponent
  <2> QED BY <1>9, <2>1, <2>2, Zenon
<1>10. CASE n = 10
  <2>1. Invert[10] = Mul("t2", "t2", "t1")
    BY SMT DEF Invert
  <2>2. Advances("fe_invert", 10, Mul("t2", "t2", "t1"))
    BY SMT DEF Advances, Sq, Mul, BitsBefore, InvertBits, Raised, Registers, Exponent
  <2> QED BY <1>10, <2>1, <2>2, Zenon
<1>11. CASE n = 11
  <2>1. Invert[11] = Sq("t3", "t2", 20)
    BY SMT DEF Invert
  <2>2. Advances("fe_invert", 11, Sq("t3", "t2", 20))
    BY SMT DEF Advances, Sq, Mul, BitsBefore, InvertBits, Raised, Registers, Exponent
  <2> QED BY <1>11, <2>1, <2>2, Zenon
<1>12. CASE n = 12
  <2>1. Invert[12] = Mul("t2", "t3", "t2")
    BY SMT DEF Invert
  <2>2. Advances("fe_invert", 12, Mul("t2", "t3", "t2"))
    BY SMT DEF Advances, Sq, Mul, BitsBefore, InvertBits, Raised, Registers, Exponent
  <2> QED BY <1>12, <2>1, <2>2, Zenon
<1>13. CASE n = 13
  <2>1. Invert[13] = Sq("t2", "t2", 10)
    BY SMT DEF Invert
  <2>2. Advances("fe_invert", 13, Sq("t2", "t2", 10))
    BY SMT DEF Advances, Sq, Mul, BitsBefore, InvertBits, Raised, Registers, Exponent
  <2> QED BY <1>13, <2>1, <2>2, Zenon
<1>14. CASE n = 14
  <2>1. Invert[14] = Mul("t1", "t2", "t1")
    BY SMT DEF Invert
  <2>2. Advances("fe_invert", 14, Mul("t1", "t2", "t1"))
    BY SMT DEF Advances, Sq, Mul, BitsBefore, InvertBits, Raised, Registers, Exponent
  <2> QED BY <1>14, <2>1, <2>2, Zenon
<1>15. CASE n = 15
  <2>1. Invert[15] = Sq("t2", "t1", 50)
    BY SMT DEF Invert
  <2>2. Advances("fe_invert", 15, Sq("t2", "t1", 50))
    BY SMT DEF Advances, Sq, Mul, BitsBefore, InvertBits, Raised, Registers, Exponent
  <2> QED BY <1>15, <2>1, <2>2, Zenon
<1>16. CASE n = 16
  <2>1. Invert[16] = Mul("t2", "t2", "t1")
    BY SMT DEF Invert
  <2>2. Advances("fe_invert", 16, Mul("t2", "t2", "t1"))
    BY SMT DEF Advances, Sq, Mul, BitsBefore, InvertBits, Raised, Registers, Exponent
  <2> QED BY <1>16, <2>1, <2>2, Zenon
<1>17. CASE n = 17
  <2>1. Invert[17] = Sq("t3", "t2", 100)
    BY SMT DEF Invert
  <2>2. Advances("fe_invert", 17, Sq("t3", "t2", 100))
    BY SMT DEF Advances, Sq, Mul, BitsBefore, InvertBits, Raised, Registers, Exponent
  <2> QED BY <1>17, <2>1, <2>2, Zenon
<1>18. CASE n = 18
  <2>1. Invert[18] = Mul("t2", "t3", "t2")
    BY SMT DEF Invert
  <2>2. Advances("fe_invert", 18, Mul("t2", "t3", "t2"))
    BY SMT DEF Advances, Sq, Mul, BitsBefore, InvertBits, Raised, Registers, Exponent
  <2> QED BY <1>18, <2>1, <2>2, Zenon
<1>19. CASE n = 19
  <2>1. Invert[19] = Sq("t2", "t2", 50)
    BY SMT DEF Invert
  <2>2. Advances("fe_invert", 19, Sq("t2", "t2", 50))
    BY SMT DEF Advances, Sq, Mul, BitsBefore, InvertBits, Raised, Registers, Exponent
  <2> QED BY <1>19, <2>1, <2>2, Zenon
<1>20. CASE n = 20
  <2>1. Invert[20] = Mul("t1", "t2", "t1")
    BY SMT DEF Invert
  <2>2. Advances("fe_invert", 20, Mul("t1", "t2", "t1"))
    BY SMT DEF Advances, Sq, Mul, BitsBefore, InvertBits, Raised, Registers, Exponent
  <2> QED BY <1>20, <2>1, <2>2, Zenon
<1>21. CASE n = 21
  <2>1. Invert[21] = Sq("t1", "t1", 5)
    BY SMT DEF Invert
  <2>2. Advances("fe_invert", 21, Sq("t1", "t1", 5))
    BY SMT DEF Advances, Sq, Mul, BitsBefore, InvertBits, Raised, Registers, Exponent
  <2> QED BY <1>21, <2>1, <2>2, Zenon
<1>22. CASE n = 22
  <2>1. Invert[22] = Mul("out", "t1", "t0")
    BY SMT DEF Invert
  <2>2. Advances("fe_invert", 22, Mul("out", "t1", "t0"))
    BY SMT DEF Advances, Sq, Mul, BitsBefore, InvertBits, Raised, Registers, Exponent
  <2> QED BY <1>22, <2>1, <2>2, Zenon
<1> QED BY <1>1, <1>2, <1>3, <1>4, <1>5, <1>6, <1>7, <1>8, <1>9, <1>10, <1>11,
       <1>12, <1>13, <1>14, <1>15, <1>16, <1>17, <1>18, <1>19, <1>20, <1>21, <1>22, SMT

\* The statements of fe_pow22523 do what the table says.
LEMMA Pow22523Advances ==
  ASSUME NEW n \in 1..22
  PROVE  Advances("fe_pow22523", n, Pow22523[n])
<1>1. CASE n = 1
  <2>1. Pow22523[1] = Sq("t0", "z", 1)
    BY SMT DEF Pow22523
  <2>2. Advances("fe_pow22523", 1, Sq("t0", "z", 1))
    BY SMT DEF Advances, Sq, Mul, BitsBefore, Pow22523Bits, Raised, Registers, Exponent
  <2> QED BY <1>1, <2>1, <2>2, Zenon
<1>2. CASE n = 2
  <2>1. Pow22523[2] = Sq("t1", "t0", 2)
    BY SMT DEF Pow22523
  <2>2. Advances("fe_pow22523", 2, Sq("t1", "t0", 2))
    BY SMT DEF Advances, Sq, Mul, BitsBefore, Pow22523Bits, Raised, Registers, Exponent
  <2> QED BY <1>2, <2>1, <2>2, Zenon
<1>3. CASE n = 3
  <2>1. Pow22523[3] = Mul("t1", "z", "t1")
    BY SMT DEF Pow22523
  <2>2. Advances("fe_pow22523", 3, Mul("t1", "z", "t1"))
    BY SMT DEF Advances, Sq, Mul, BitsBefore, Pow22523Bits, Raised, Registers, Exponent
  <2> QED BY <1>3, <2>1, <2>2, Zenon
<1>4. CASE n = 4
  <2>1. Pow22523[4] = Mul("t0", "t0", "t1")
    BY SMT DEF Pow22523
  <2>2. Advances("fe_pow22523", 4, Mul("t0", "t0", "t1"))
    BY SMT DEF Advances, Sq, Mul, BitsBefore, Pow22523Bits, Raised, Registers, Exponent
  <2> QED BY <1>4, <2>1, <2>2, Zenon
<1>5. CASE n = 5
  <2>1. Pow22523[5] = Sq("t0", "t0", 1)
    BY SMT DEF Pow22523
  <2>2. Advances("fe_pow22523", 5, Sq("t0", "t0", 1))
    BY SMT DEF Advances, Sq, Mul, BitsBefore, Pow22523Bits, Raised, Registers, Exponent
  <2> QED BY <1>5, <2>1, <2>2, Zenon
<1>6. CASE n = 6
  <2>1. Pow22523[6] = Mul("t0", "t1", "t0")
    BY SMT DEF Pow22523
  <2>2. Advances("fe_pow22523", 6, Mul("t0", "t1", "t0"))
    BY SMT DEF Advances, Sq, Mul, BitsBefore, Pow22523Bits, Raised, Registers, Exponent
  <2> QED BY <1>6, <2>1, <2>2, Zenon
<1>7. CASE n = 7
  <2>1. Pow22523[7] = Sq("t1", "t0", 5)
    BY SMT DEF Pow22523
  <2>2. Advances("fe_pow22523", 7, Sq("t1", "t0", 5))
    BY SMT DEF Advances, Sq, Mul, BitsBefore, Pow22523Bits, Raised, Registers, Exponent
  <2> QED BY <1>7, <2>1, <2>2, Zenon
<1>8. CASE n = 8
  <2>1. Pow22523[8] = Mul("t0", "t1", "t0")
    BY SMT DEF Pow22523
  <2>2. Advances("fe_pow22523", 8, Mul("t0", "t1", "t0"))
    BY SMT DEF Advances, Sq, Mul, BitsBefore, Pow22523Bits, Raised, Registers, Exponent
  <2> QED BY <1>8, <2>1, <2>2, Zenon
<1>9. CASE n = 9
  <2>1. Pow22523[9] = Sq("t1", "t0", 10)
    BY SMT DEF Pow22523
  <2>2. Advances("fe_pow22523", 9, Sq("t1", "t0", 10))
    BY SMT DEF Advances, Sq, Mul, BitsBefore, Pow22523Bits, Raised, Registers, Exponent
  <2> QED BY <1>9, <2>1, <2>2, Zenon
<1>10. CASE n = 10
  <2>1. Pow22523[10] = Mul("t1", "t1", "t0")
    BY SMT DEF Pow22523
  <2>2. Advances("fe_pow22523", 10, Mul("t1", "t1", "t0"))
    BY SMT DEF Advances, Sq, Mul, BitsBefore, Pow22523Bits, Raised, Registers, Exponent
  <2> QED BY <1>10, <2>1, <2>2, Zenon
<1>11. CASE n = 11
  <2>1. Pow22523[11] = Sq("t2", "t1", 20)
    BY SMT DEF Pow22523
  <2>2. Advances("fe_pow22523", 11, Sq("t2", "t1", 20))
    BY SMT DEF Advances, Sq, Mul, BitsBefore, Pow22523Bits, Raised, Registers, Exponent
  <2> QED BY <1>11, <2>1, <2>2, Zenon
<1>12. CASE n = 12
  <2>1. Pow22523[12] = Mul("t1", "t2", "t1")
    BY SMT DEF Pow22523
  <2>2. Advances("fe_pow22523", 12, Mul("t1", "t2", "t1"))
    BY SMT DEF Advances, Sq, Mul, BitsBefore, Pow22523Bits, Raised, Registers, Exponent
  <2> QED BY <1>12, <2>1, <2>2, Zenon
<1>13. CASE n = 13
  <2>1. Pow22523[13] = Sq("t1", "t1", 10)
    BY SMT DEF Pow22523
  <2>2. Advances("fe_pow22523", 13, Sq("t1", "t1", 10))
    BY SMT DEF Advances, Sq, Mul, BitsBefore, Pow22523Bits, Raised, Registers, Exponent
  <2> QED BY <1>13, <2>1, <2>2, Zenon
<1>14. CASE n = 14
  <2>1. Pow22523[14] = Mul("t0", "t1", "t0")
    BY SMT DEF Pow22523
  <2>2. Advances("fe_pow22523", 14, Mul("t0", "t1", "t0"))
    BY SMT DEF Advances, Sq, Mul, BitsBefore, Pow22523Bits, Raised, Registers, Exponent
  <2> QED BY <1>14, <2>1, <2>2, Zenon
<1>15. CASE n = 15
  <2>1. Pow22523[15] = Sq("t1", "t0", 50)
    BY SMT DEF Pow22523
  <2>2. Advances("fe_pow22523", 15, Sq("t1", "t0", 50))
    BY SMT DEF Advances, Sq, Mul, BitsBefore, Pow22523Bits, Raised, Registers, Exponent
  <2> QED BY <1>15, <2>1, <2>2, Zenon
<1>16. CASE n = 16
  <2>1. Pow22523[16] = Mul("t1", "t1", "t0")
    BY SMT DEF Pow22523
  <2>2. Advances("fe_pow22523", 16, Mul("t1", "t1", "t0"))
    BY SMT DEF Advances, Sq, Mul, BitsBefore, Pow22523Bits, Raised, Registers, Exponent
  <2> QED BY <1>16, <2>1, <2>2, Zenon
<1>17. CASE n = 17
  <2>1. Pow22523[17] = Sq("t2", "t1", 100)
    BY SMT DEF Pow22523
  <2>2. Advances("fe_pow22523", 17, Sq("t2", "t1", 100))
    BY SMT DEF Advances, Sq, Mul, BitsBefore, Pow22523Bits, Raised, Registers, Exponent
  <2> QED BY <1>17, <2>1, <2>2, Zenon
<1>18. CASE n = 18
  <2>1. Pow22523[18] = Mul("t1", "t2", "t1")
    BY SMT DEF Pow22523
  <2>2. Advances("fe_pow22523", 18, Mul("t1", "t2", "t1"))
    BY SMT DEF Advances, Sq, Mul, BitsBefore, Pow22523Bits, Raised, Registers, Exponent
  <2> QED BY <1>18, <2>1, <2>2, Zenon
<1>19. CASE n = 19
  <2>1. Pow22523[19] = Sq("t1", "t1", 50)
    BY SMT DEF Pow22523
  <2>2. Advances("fe_pow22523", 19, Sq("t1", "t1", 50))
    BY SMT DEF Advances, Sq, Mul, BitsBefore, Pow22523Bits, Raised, Registers, Exponent
  <2> QED BY <1>19, <2>1, <2>2, Zenon
<1>20. CASE n = 20
  <2>1. Pow22523[20] = Mul("t0", "t1", "t0")
    BY SMT DEF Pow22523
  <2>2. Advances("fe_pow22523", 20, Mul("t0", "t1", "t0"))
    BY SMT DEF Advances, Sq, Mul, BitsBefore, Pow22523Bits, Raised, Registers, Exponent
  <2> QED BY <1>20, <2>1, <2>2, Zenon
<1>21. CASE n = 21
  <2>1. Pow22523[21] = Sq("t0", "t0", 2)
    BY SMT DEF Pow22523
  <2>2. Advances("fe_pow22523", 21, Sq("t0", "t0", 2))
    BY SMT DEF Advances, Sq, Mul, BitsBefore, Pow22523Bits, Raised, Registers, Exponent
  <2> QED BY <1>21, <2>1, <2>2, Zenon
<1>22. CASE n = 22
  <2>1. Pow22523[22] = Mul("out", "t0", "z")
    BY SMT DEF Pow22523
  <2>2. Advances("fe_pow22523", 22, Mul("out", "t0", "z"))
    BY SMT DEF Advances, Sq, Mul, BitsBefore, Pow22523Bits, Raised, Registers, Exponent
  <2> QED BY <1>22, <2>1, <2>2, Zenon
<1> QED BY <1>1, <1>2, <1>3, <1>4, <1>5, <1>6, <1>7, <1>8, <1>9, <1>10, <1>11,
       <1>12, <1>13, <1>14, <1>15, <1>16, <1>17, <1>18, <1>19, <1>20, <1>21, <1>22, SMT

\* Which chain a call runs.
LEMMA ProgramIs ==
  /\ Program["fe_invert"] = Invert /\ Program["fe_pow22523"] = Pow22523
  /\ Len(Invert) = 22 /\ Len(Pow22523) = 22
<1>1. Program["fe_invert"] = Invert /\ Program["fe_pow22523"] = Pow22523
  BY DEF Program
<1>2. Len(Invert) = 22 /\ Len(Pow22523) = 22
  BY SMT DEF Invert, Pow22523
<1> QED BY <1>1, <1>2

\* Either chain has 22 statements, and each does what the table says.
LEMMA Programs ==
  ASSUME NEW name \in {"fe_invert", "fe_pow22523"}
  PROVE  Len(Program[name]) = 22 /\ \A n \in 1..22 : Advances(name, n, Program[name][n])
BY InvertAdvances, Pow22523Advances, ProgramIs

\* Two sets with the same bits are the same exponent.
LEMMA SameExponent ==
  ASSUME NEW S, NEW T, \A k \in Exponent : k \in S <=> k \in T
  PROVE  ExponentOf(S) = ExponentOf(T)
BY DEF ExponentOf

\* All bits that the table names can occur.
LEMMA BitsOccur ==
  ASSUME NEW name, NEW n \in 1..22, NEW r \in Registers, NEW k \in Int, k < 0
  PROVE  k \notin BitsBefore(name, n, r)
BY SMT DEF BitsBefore, InvertBits, Pow22523Bits, Registers

\* One squaring more.
LEMMA RaisedOnce ==
  ASSUME NEW S, \A k \in Int : k < 0 => k \notin S, NEW j \in Nat,
         NEW x, x = ExponentOf(Raised(S, j))
  PROVE  [k \in Exponent |-> IF k = 0 THEN 0 ELSE x[k - 1]] = ExponentOf(Raised(S, j + 1))
<1>1. ASSUME NEW k \in Exponent
      PROVE  (IF k = 0 THEN 0 ELSE x[k - 1]) = IF k \in Raised(S, j + 1) THEN 1 ELSE 0
  <2>1. CASE k = 0
    <3>1. k - (j + 1) \in Int /\ k - (j + 1) < 0
      BY <2>1, SMT
    <3>2. k \notin Raised(S, j + 1)
      BY <3>1 DEF Raised
    <3> QED BY <2>1, <3>2
  <2>2. CASE k # 0
    <3>1. k - 1 \in Exponent /\ (k - 1) - j = k - (j + 1)
      BY <2>2, SMT DEF Exponent
    <3>2. x[k - 1] = IF k - 1 \in Raised(S, j) THEN 1 ELSE 0
      BY <3>1 DEF ExponentOf
    <3>3. k - 1 \in Raised(S, j) <=> k \in Raised(S, j + 1)
      BY <3>1, Zenon DEF Raised
    <3> QED BY <2>2, <3>2, <3>3
  <2> QED BY <2>1, <2>2
<1> QED BY <1>1 DEF ExponentOf

\* Exponents without a bit in common are added by taking all bits.
LEMMA AddedBits ==
  ASSUME NEW S, NEW T, NEW U, NEW x, NEW y, x = ExponentOf(S), y = ExponentOf(T),
         \A k \in Exponent : ~(k \in S /\ k \in T) /\ (k \in U <=> k \in S \/ k \in T)
  PROVE  [k \in Exponent |-> x[k] + y[k]] = ExponentOf(U)
<1>1. ASSUME NEW k \in Exponent PROVE x[k] + y[k] = IF k \in U THEN 1 ELSE 0
  <2>1. x[k] = (IF k \in S THEN 1 ELSE 0) /\ y[k] = (IF k \in T THEN 1 ELSE 0)
    BY DEF ExponentOf
  <2>2. ~(k \in S /\ k \in T) /\ (k \in U <=> k \in S \/ k \in T)
    OBVIOUS
  <2> QED BY <2>1, <2>2, SMT
<1> QED BY <1>1 DEF ExponentOf

\* Both functions begin with z to the power of 1.
LEMMA PowerInvBegins ==
  ASSUME PowerInit
  PROVE  PowerInv
<1>1. /\ power \in {"fe_invert", "fe_pow22523"} /\ line = 1 /\ turn = 0
      /\ reg = [r \in Registers |-> IF r = "z" THEN [Unset EXCEPT ![0] = 1] ELSE Unset]
  BY DEF PowerInit, Powering
<1>2. 1 \in 1..23 /\ 0 \in 0..99 /\ ~(0 > 0)
  BY SMT
<1>3. ASSUME NEW r \in Registers
      PROVE  (IF r = "z" THEN [Unset EXCEPT ![0] = 1] ELSE Unset)
               = ExponentOf(BitsAt(power, 1, 0, r))
  <2>1. BitsAt(power, 1, 0, r) = BitsBefore(power, 1, r)
    BY <1>2, Zenon DEF BitsAt
  <2>2. ASSUME NEW k \in Exponent
        PROVE  k \in BitsBefore(power, 1, r) <=> r = "z" /\ k = 0
    BY <1>1, SMT DEF BitsBefore, InvertBits, Pow22523Bits, Registers
  <2>3. ASSUME NEW k \in Exponent
        PROVE  (IF r = "z" THEN [Unset EXCEPT ![0] = 1] ELSE Unset)[k]
                 = IF r = "z" /\ k = 0 THEN 1 ELSE 0
    BY DEF Unset
  <2>4. (IF r = "z" THEN [Unset EXCEPT ![0] = 1] ELSE Unset)
          = [k \in Exponent |-> IF k \in BitsBefore(power, 1, r) THEN 1 ELSE 0]
    BY <2>2, <2>3 DEF Unset
  <2> QED BY <2>1, <2>4 DEF ExponentOf
<1> QED BY <1>1, <1>2, <1>3 DEF PowerInv

\* Every squaring and every multiplication.
LEMMA PowerInvStep ==
  ASSUME PowerInv, [PowerNext]_powerVars
  PROVE  PowerInv'
<1>1. CASE UNCHANGED powerVars
  BY <1>1 DEF powerVars, PowerInv
<1> SUFFICES ASSUME PowerNext PROVE PowerInv'
  BY <1>1
<1> DEFINE s == Program[power][line]
           B(r) == BitsBefore(power, line, r)
<1>2. power' = power /\ line <= Len(Program[power])
  BY DEF PowerNext, Square, Multiply
<1>3. /\ power \in {"fe_invert", "fe_pow22523"} /\ line \in 1..22 /\ turn \in 0..99
      /\ turn > 0 => turn < s.times
      /\ reg = [r \in Registers |-> ExponentOf(BitsAt(power, line, turn, r))]
  <2>1. Len(Program[power]) = 22
    BY Programs DEF PowerInv
  <2>2. line \in 1..22
    BY <1>2, <2>1, SMT DEF PowerInv
  <2> QED BY <2>2 DEF PowerInv
<1>4. Advances(power, line, s)
  BY <1>3, Programs
<1>5. {s.out, s.x, s.y} \subseteq Registers /\ s.times \in 0..100
  BY <1>4 DEF Advances
<1>6. line + 1 \in 1..23 /\ 0 \in 0..99 /\ ~(0 > 0)
  BY <1>3, SMT
<1>7. \A n, r : BitsAt(power, n, 0, r) = BitsBefore(power, n, r)
  BY <1>6, Zenon DEF BitsAt
<1>8. ASSUME NEW e, reg' = [reg EXCEPT ![s.out] = e], line' = line + 1, turn' = 0,
             e = ExponentOf(BitsBefore(power, line + 1, s.out))
      PROVE  PowerInv'
  <2>1. ASSUME NEW r \in Registers PROVE reg'[r] = ExponentOf(BitsAt(power, line + 1, 0, r))
    <3>1. CASE r = s.out
      BY <1>3, <1>7, <1>8, <3>1
    <3>2. CASE r # s.out
      <4>1. reg'[r] = ExponentOf(BitsBefore(power, line, r))
        BY <1>3, <1>8, <3>2 DEF BitsAt
      <4>2. \A k \in Exponent :
              k \in BitsBefore(power, line + 1, r) <=> k \in BitsBefore(power, line, r)
        BY <1>4, <3>2 DEF Advances
      <4> QED BY <1>7, <4>1, <4>2, SameExponent, Zenon
    <3> QED BY <3>1, <3>2
  <2>2. reg' = [r \in Registers |-> ExponentOf(BitsAt(power, line + 1, 0, r))]
    <3>1. reg' = [r \in Registers |-> reg'[r]]
      BY <1>3, <1>8
    <3> QED BY <2>1, <3>1
  <2> QED BY <1>2, <1>3, <1>6, <1>8, <2>2 DEF PowerInv
<1>9. CASE Square
  <2> DEFINE x == reg[IF turn = 0 THEN s.x ELSE s.out]
             e == [k \in Exponent |-> IF k = 0 THEN 0 ELSE x[k - 1]]
  <2>1. /\ s.times > 0 /\ turn < s.times /\ reg' = [reg EXCEPT ![s.out] = e]
        /\ IF turn + 1 = s.times THEN line' = line + 1 /\ turn' = 0
                                 ELSE line' = line /\ turn' = turn + 1
    BY <1>9 DEF Square, Turns
  <2>2. x = ExponentOf(Raised(B(s.x), turn))
    <3>1. CASE turn = 0
      <4>1. x = ExponentOf(B(s.x))
        BY <1>3, <1>5, <1>7, <3>1
      <4>2. ASSUME NEW k \in Exponent PROVE k \in B(s.x) <=> k \in Raised(B(s.x), 0)
        <5>1. k - 0 = k
          BY SMT DEF Exponent
        <5> QED BY <5>1 DEF Raised
      <4> HIDE DEF x, B
      <4> QED BY <3>1, <4>1, <4>2, SameExponent
    <3>2. CASE turn # 0
      <4>1. turn > 0
        BY <1>3, <3>2, SMT
      <4>2. reg[s.out] = ExponentOf(BitsAt(power, line, turn, s.out))
        BY <1>3, <1>5
      <4>3. BitsAt(power, line, turn, s.out) = Raised(B(s.x), turn)
        BY <4>1, Zenon DEF BitsAt
      <4> QED BY <3>2, <4>2, <4>3
    <3> QED BY <3>1, <3>2
  <2>3. \A k \in Int : k < 0 => k \notin B(s.x)
    BY <1>3, <1>5, BitsOccur
  <2>4. turn \in Nat
    BY <1>3, SMT
  <2>5. e = ExponentOf(Raised(B(s.x), turn + 1))
    <3> HIDE DEF x, B, s
    <3> QED BY <2>2, <2>3, <2>4, RaisedOnce
  <2>6. CASE turn + 1 = s.times
    <3>1. \A k \in Exponent :
            k \in BitsBefore(power, line + 1, s.out) <=> k \in Raised(B(s.x), s.times)
      BY <1>4, <2>1, SMT DEF Advances
    <3>2. e = ExponentOf(BitsBefore(power, line + 1, s.out))
      <4> HIDE DEF e, x, B, s
      <4> QED BY <2>5, <2>6, <3>1, SameExponent
    <3> HIDE DEF e, s
    <3> QED BY <1>8, <2>1, <2>6, <3>2
  <2>7. CASE turn + 1 # s.times
    <3>1. line' = line /\ turn' = turn + 1
      BY <2>1, <2>7
    <3>2. turn + 1 \in 0..99 /\ turn + 1 > 0 /\ turn + 1 < s.times
      <4>1. turn \in 0..99 /\ s.times \in 0..100 /\ turn < s.times
        BY <1>3, <1>5, <2>1
      <4> HIDE DEF s
      <4> QED BY <2>7, <4>1, SMT
    <3>3. ASSUME NEW r \in Registers PROVE reg'[r] = ExponentOf(BitsAt(power, line, turn + 1, r))
      <4>1. CASE r = s.out
        <5>1. BitsAt(power, line, turn + 1, r) = Raised(B(s.x), turn + 1)
          BY <3>2, <4>1, Zenon DEF BitsAt
        <5>2. reg'[r] = e
          <6> HIDE DEF e
          <6> QED BY <1>3, <2>1, <4>1
        <5> QED BY <2>5, <5>1, <5>2
      <4>2. CASE r # s.out
        <5>1. BitsAt(power, line, turn + 1, r) = BitsAt(power, line, turn, r)
          BY <4>2, Zenon DEF BitsAt
        <5>2. reg'[r] = reg[r]
          <6> HIDE DEF e
          <6> QED BY <1>3, <2>1, <4>2
        <5> QED BY <1>3, <5>1, <5>2
      <4> QED BY <4>1, <4>2
    <3>4. reg' = [r \in Registers |-> ExponentOf(BitsAt(power, line, turn + 1, r))]
      <4>1. reg' = [r \in Registers |-> reg'[r]]
        <5> HIDE DEF e
        <5> QED BY <1>3, <2>1
      <4> QED BY <3>3, <4>1
    <3>5. line \in 1..23
      BY <1>3, SMT
    <3> QED BY <1>2, <1>3, <3>1, <3>2, <3>4, <3>5 DEF PowerInv
  <2> QED BY <2>6, <2>7
<1>10. CASE Multiply
  <2> DEFINE e == [k \in Exponent |-> reg[s.x][k] + reg[s.y][k]]
  <2>1. s.times = 0 /\ reg' = [reg EXCEPT ![s.out] = e] /\ line' = line + 1 /\ turn' = turn
    BY <1>10 DEF Multiply
  <2>2. turn = 0
    BY <1>3, <2>1, SMT
  <2>3. reg[s.x] = ExponentOf(B(s.x)) /\ reg[s.y] = ExponentOf(B(s.y))
    BY <1>3, <1>5, <1>7, <2>2
  <2>4. \A k \in Exponent :
          /\ ~(k \in B(s.x) /\ k \in B(s.y))
          /\ k \in BitsBefore(power, line + 1, s.out) <=> k \in B(s.x) \/ k \in B(s.y)
    BY <1>4, <2>1 DEF Advances
  <2>5. e = ExponentOf(BitsBefore(power, line + 1, s.out))
    <3> HIDE DEF B, s
    <3> QED BY <2>3, <2>4, AddedBits
  <2> HIDE DEF e, s
  <2> QED BY <1>8, <2>1, <2>2, <2>5
<1> QED BY <1>9, <1>10 DEF PowerNext

\* fe_invert and fe_pow22523 raise to the powers that invert and that take square
\* roots in the field of 2^255 - 19 elements: no multiplication of the two chains
\* and no number of squarings is off.
THEOREM ExponentsReached == PowerSpec => []ExponentReached
<1>1. PowerInit => PowerInv
  BY PowerInvBegins
<1>2. PowerInv /\ [PowerNext]_powerVars => PowerInv'
  BY PowerInvStep
<1>3. PowerInv => ExponentReached
  <2> SUFFICES ASSUME PowerInv, line > Len(Program[power])
               PROVE  reg["out"] = [k \in Exponent |->
                        IF IF power = "fe_invert" THEN k < 255 /\ k \notin {2, 4}
                                                  ELSE k < 252 /\ k # 1
                          THEN 1 ELSE 0]
    BY DEF ExponentReached
  <2>1. Len(Program[power]) = 22 /\ power \in {"fe_invert", "fe_pow22523"}
    BY Programs DEF PowerInv
  <2>2. line = 23 /\ ~(turn > 0)
    BY <2>1, SMT DEF PowerInv
  <2>3. reg["out"] = ExponentOf(BitsBefore(power, 23, "out"))
    <3>1. "out" \in Registers
      BY DEF Registers
    <3> QED BY <2>2, <3>1 DEF PowerInv, BitsAt
  <2>4. ASSUME NEW k \in Exponent
        PROVE  k \in BitsBefore(power, 23, "out")
                 <=> IF power = "fe_invert" THEN k < 255 /\ k \notin {2, 4} ELSE k < 252 /\ k # 1
    <3>1. InvertBits(23, "out") = (0..254) \ {2, 4}
      BY SMT DEF InvertBits
    <3>2. Pow22523Bits(23, "out") = (0..251) \ {1}
      BY SMT DEF Pow22523Bits
    <3>3. k \in (0..254) \ {2, 4} <=> k < 255 /\ k \notin {2, 4}
      BY SMT DEF Exponent
    <3>4. k \in (0..251) \ {1} <=> k < 252 /\ k # 1
      BY SMT DEF Exponent
    <3> QED BY <2>1, <3>1, <3>2, <3>3, <3>4, Zenon DEF BitsBefore
  <2> QED BY <2>3, <2>4 DEF ExponentOf
<1> QED BY <1>1, <1>2, <1>3, PTL DEF PowerSpec
=============================================================================
