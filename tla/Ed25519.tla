------------------------------ MODULE Ed25519 ------------------------------
(***************************************************************************)
(* The Ed25519 library as its callers see it: key pairs, signatures, the   *)
(* addition of scalars to keys, and shared secrets, on a curve of any size *)
(* of the shape the code needs. SHA-512 is an oracle: where the code       *)
(* hashes, the outcome is any member of HashValues.                        *)
(***************************************************************************)
EXTENDS EdwardsPoint, MontgomeryLadder

CONSTANTS
  L,           \* 2^252 + 27742317777372353535851937790883648493: order of the base
  Parties,
  Seeds,       \* outcomes of hashing a seed: the 32 bytes of the private key
  HashValues,  \* outcomes of hashing messages
  Scalars,     \* arguments of ed25519_add_scalar
  Adders,      \* parties that add scalars to their keys
  MaxAdds,     \* bound on the scalars added to a key
  OtherKeys    \* 32-byte strings somebody passes for public keys

\* A reduced scalar is below the limit verification sets.
ASSUME LibraryConstants ==
  /\ L \in Nat \ {0} /\ L < 2 ^ (ScalarBits - 3)
  /\ Seeds \subseteq 0..(2 ^ ScalarBits - 1)
  /\ Adders \subseteq Parties
  /\ HashValues \subseteq Nat
  /\ Scalars \subseteq 0..(2 ^ ScalarBits - 1)
  /\ OtherKeys \subseteq 0..(2 ^ ScalarBits - 1)

VARIABLES
  pub, prv,   \* the key pair of each party
  added,      \* history: the scalars added to the key pair, in order
  copy,       \* somebody's copy of each public key: its value, and how many
              \* of the added scalars have been added to it as well
  sig         \* the signature last made with the present keys, if any, with
              \* its key and its challenge hash

vars == <<pub, prv, added, copy, sig>>

-----------------------------------------------------------------------------
ScReduce(s) == s % L

\* Mutant of ScMulAdd: the result is not reduced.
ScMulAddWide(a, b, c) == a * b + c

ScMulAdd(a, b, c) == (a * b + c) % L

\* The low three bits and the top bit are cleared, the bit below it is set.
Clamp(s) == (s % 2 ^ (ScalarBits - 2)) - (s % 8) + 2 ^ (ScalarBits - 2)

DerivePub(private) == GeToBytes(GeScalarmultBase(private))

\* A signature is the pair of its halves; r and h are the two hashes.
Sign(private, r, R, h) == [R |-> R, S |-> ScMulAdd(ScReduce(h), private, ScReduce(r))]

SignPoint(r) == GeToBytes(GeScalarmultBase(ScReduce(r)))

\* ed25519_verify.
Verify(public, s, h) ==
  /\ s.S < 2 ^ (ScalarBits - 3)
  /\ \E A \in GeFromBytesNegate(public) :
       GeToBytes(GeDoubleScalarmult(ScReduce(h), A, s.S)) = s.R

\* ed25519_add_scalar cuts the scalar's top bit.
ScalarToAdd(scalar) == scalar % 2 ^ (ScalarBits - 1)

\* With a private key at hand.
AddToPrivate(private, scalar) == ScMulAdd(1, ScalarToAdd(scalar), private)

\* Mutant of AddToPublic: the point stays negated.
AddToPublicNegated(public, scalar) ==
  LET nB == GeScalarmultBase(ScalarToAdd(scalar))
      T == CHOOSE A \in GeFromBytesNegate(public) : TRUE
  IN  GeToBytes(GeP1P1ToP3(GeAdd(nB, GeP3ToCached(T))))

\* Mutant of AddToPublic: T keeps its sign.
AddToPublicSkewed(public, scalar) ==
  LET nB == GeScalarmultBase(ScalarToAdd(scalar))
      T == CHOOSE A \in GeFromBytesNegate(public) : TRUE
      undone == [T EXCEPT !.X = FeNeg(@)]
  IN  GeToBytes(GeP1P1ToP3(GeAdd(nB, GeP3ToCached(undone))))

\* With a public key alone.
AddToPublic(public, scalar) ==
  LET nB == GeScalarmultBase(ScalarToAdd(scalar))
      T == CHOOSE A \in GeFromBytesNegate(public) : TRUE
      undone == [T EXCEPT !.X = FeNeg(@), !.T = FeNeg(@)]
  IN  GeToBytes(GeP1P1ToP3(GeAdd(nB, GeP3ToCached(undone))))

-----------------------------------------------------------------------------
\* The x coordinate of e times the other's point on the Montgomery form of the
\* curve; the sign of the public key plays no part.
SharedSecret(public, e) ==
  LET y == FeFromBytes(public)
      x1 == FeMul(FeAdd(y, One), FeInvert(FeSub(One, y)))
      s == Loop(LAMBDA t, pos : LadderStep(x1, t, (e \div 2 ^ pos) % 2),
                [points |-> [x2 |-> One, z2 |-> Zero, x3 |-> x1, z3 |-> One], swap |-> 0],
                [k \in 1..(ScalarBits - 1) |-> ScalarBits - 1 - k])
      xs == FeCswap(<<s.points.x2, s.points.x3>>, s.swap)
      zs == FeCswap(<<s.points.z2, s.points.z3>>, s.swap)
  IN  FeToBytes(FeMul(xs[1], FeInvert(zs[1])))

\* Mutant of KeyExchange: private keys pass for clamped.
KeyExchangeRaw(public, private) == SharedSecret(public, private)

\* ed25519_key_exchange clamps the private key again.
KeyExchange(public, private) == SharedSecret(public, Clamp(private))

-----------------------------------------------------------------------------
NewKey(seed) == [prv |-> Clamp(seed), pub |-> DerivePub(Clamp(seed))]

Init ==
  /\ \E first \in [Parties -> Seeds] :
       /\ prv = [p \in Parties |-> NewKey(first[p]).prv]
       /\ pub = [p \in Parties |-> NewKey(first[p]).pub]
  /\ added = [p \in Parties |-> <<>>]
  /\ copy = [p \in Parties |-> [pub |-> pub[p], count |-> 0]]
  /\ sig = {}

\* ed25519_add_scalar on a key pair. The second half of the private key, which
\* it hashes anew, only feeds the oracle.
AddScalar(p, scalar) ==
  LET private == AddToPrivate(prv[p], scalar) IN
  /\ Len(added[p]) < MaxAdds
  /\ prv' = [prv EXCEPT ![p] = private]
  /\ pub' = [pub EXCEPT ![p] = DerivePub(private)]
  /\ added' = [added EXCEPT ![p] = Append(@, scalar)]
  /\ sig' = {}
  /\ UNCHANGED copy

\* ed25519_add_scalar on the copy of a public key, with the next scalar.
AddScalarPublic(p) ==
  /\ copy[p].count < Len(added[p])
  /\ copy' = [copy EXCEPT ![p] =
       [pub |-> AddToPublic(@.pub, added[p][@.count + 1]), count |-> @.count + 1]]
  /\ sig' = {}
  /\ UNCHANGED <<pub, prv, added>>

\* ed25519_sign.
SignMessage(p, r, h) ==
  /\ sig' = {[key |-> pub[p], of |-> Sign(prv[p], r, SignPoint(r), h), hash |-> h]}
  /\ UNCHANGED <<pub, prv, added, copy>>

Next ==
  \/ \E p \in Adders : AddScalarPublic(p) \/ \E n \in Scalars : AddScalar(p, n)
  \/ \E p \in Parties, r, h \in HashValues : SignMessage(p, r, h)

Spec == Init /\ [][Next]_vars

-----------------------------------------------------------------------------
\* The point that party p's public key stands for.
Point(p) == EdMul(prv[p], EdBase)

TypeOK ==
  /\ \A p \in Parties :
       /\ prv[p] \in 0..(2 ^ (ScalarBits - 1) - 1)
       /\ pub[p] \in 0..(2 ^ ScalarBits - 1)
       /\ copy[p].count \in 0..Len(added[p])
  /\ \A s \in sig : s.of.S \in 0..(L - 1)

\* Limbs never outgrow the words of their sums and products, whatever keys and
\* strings the library is given: no result is made of an overflow.
LimbsFit ==
  /\ \A p \in Parties :
       /\ pub[p] >= 0 /\ copy[p].pub >= 0
       /\ \A key \in OtherKeys \cup {pub[p]} : KeyExchange(key, prv[p]) >= 0
  /\ \A s \in sig, key \in OtherKeys : \A A \in GeFromBytesNegate(key) :
       GeToBytes(GeDoubleScalarmult(ScReduce(s.hash), A, s.of.S)) >= 0

\* However a key pair came about, its public key is the private one times the
\* base point by the addition law of the curve: signed digits, tables and
\* projective coordinates make no difference.
KeysMatch == \A p \in Parties : pub[p] = EdEncode(Point(p))

\* Who adds the same scalars to the public key alone arrives at the same key.
CopiesFollow ==
  \A p \in Parties : copy[p].count = Len(added[p]) => copy[p].pub = pub[p]

\* What ed25519_add_scalar is given for a public key is a point: it does not look
\* whether decoding it succeeds.
CopiesDecode == \A p \in Parties : GeFromBytesNegate(copy[p].pub) # {}

\* ed25519_verify accepts what ed25519_sign made, for every key and hash.
SignaturesVerify == \A s \in sig : Verify(s.key, s.of, s.hash)

\* The point that a string encodes by definition, if it encodes one.
Decodings ==
  [s \in OtherKeys |->
     {p \in {<<x, (s % 2 ^ FieldBits) % P>> : x \in Residues} :
        OnCurve(p) /\ (p[1] # 0 => p[1] % 2 = s \div 2 ^ FieldBits)}]

\* ed25519_verify accepts exactly the signatures with R = S B - h A, for keys
\* of any order, no points, or not encoded canonically, and for halves S up to
\* its limit, reduced or not.
VerifyIsEquation ==
  \A s \in sig, key \in OtherKeys, more \in {0, L, 2 ^ (ScalarBits - 3)} :
    LET S == s.of.S + more
        right == {EdEncode(EdAdd(EdMul(S, EdBase), EdNeg(EdMul(ScReduce(s.hash), A)))) :
                    A \in Decodings[key]}
    IN  \A R \in right \cup {0} :
          Verify(key, [R |-> R, S |-> S], s.hash)
            <=> S < 2 ^ (ScalarBits - 3) /\ R \in right

\* The secret is the base point times one private key times the other, which
\* is clamped, also for keys with scalars added to them. Without those clamping
\* changes nothing, and both parties have the same secret.
SecretIsProduct ==
  \A p, q \in Parties :
    LET y == EdMul(ScReduce(Clamp(prv[q]) * prv[p]), EdBase)[2]
    IN  KeyExchange(pub[p], prv[q]) = ModMul(1 + y, ModInverse[(1 - y) % P])
=============================================================================
