---------------------------- MODULE MCPrimitives ----------------------------
(***************************************************************************)
(* The primitives under the Ed25519 library on small instances. They share *)
(* nothing: a behaviour is one of a SHA-512 stream, of a carry chain, or of*)
(* an addition chain, while the others rest.                               *)
(***************************************************************************)
EXTENDS Sha512, CarryChains, AdditionChains

MCInit ==
  /\ Init
  /\ \/ Call("none", <<>>, 0) /\ (PowerInit \/ Powering("none"))
     \/ ChainInit /\ Powering("none")

MCNext ==
  \/ fn = "none" /\ power = "none" /\ Next /\ UNCHANGED <<chainVars, powerVars>>
  \/ ChainNext /\ UNCHANGED <<vars, powerVars>>
  \/ PowerNext /\ UNCHANGED <<vars, chainVars>>

MCSpec == MCInit /\ [][MCNext]_<<vars, chainVars, powerVars>>

-----------------------------------------------------------------------------
\* Limbs of 3 and 2 bits and a field of 2^25 - 19 elements; scalars of twelve
\* limbs of 2 bits modulo 2^24 + 871.
SmallFoldDigits == [i \in 0..5 |-> <<1, 2, 1, -2, 1, -1>>[i + 1]]
SmallChunkStarts == [i \in 0..10 |-> <<0, 4, 6, 9, 11, 13, 17, 19, 22, 24, 25>>[i + 1]]

\* One value in a run of limbs and one in the others, for carries to run through.
Patterns(last, values) ==
  {[i \in 0..last |-> IF i \in j..k THEN v ELSE w] :
     j, k \in 0..last, v, w \in values}

\* The patterns whose runs begin and end at a few places only.
Coarse(last, values) ==
  {p \in Patterns(last, values) :
     \A i \in 1..last : p[i] # p[i - 1] => i \in {1, last \div 2, last}}

\* 1.65 times 2^3 and 2^2.
Widest(i) == IF i % 2 = 0 THEN 13 ELSE 6

FieldElements == {[i \in Limbs |-> Widest(i) * p[i]] : p \in Coarse(9, {-1, 0, 1})}

HalfElements == {[i \in Limbs |-> f[i] \div 2] : f \in FieldElements}

\* 19 is much for limbs of 3 bits: fe_tobytes works up to these here.
Encodable ==
  {[[i \in Limbs |-> (IF i % 2 = 0 THEN 6 ELSE 4) * p[i]] EXCEPT ![0] = n] :
     p \in {p \in Patterns(9, {-1, 0, 1}) : p[0] = 0}, n \in -6..6}

\* Around multiples of the prime and of 2^25, and bits in turn, cut into words.
FieldStrings ==
  {[k \in Limbs |->
      (s \div 2 ^ ChunkStarts[k]) % 2 ^ (IF k = 9 THEN 2 ELSE ChunkStarts[k + 1] - ChunkStarts[k])] :
     s \in {0, 1, 18, 19, 33554412, 33554413, 33554431, 33554432, 67108845, 67108863, 44739242}}

\* Scalars of 25 bits and of 50 bits: the top limb is wider than the others.
SmallScalars ==
  {[i \in 0..11 |-> (IF i < k THEN v ELSE w) * (IF i = 11 THEN 2 ELSE 1)] :
     k \in {1, 6, 11}, v, w \in {0, 3}}

DoubleScalars == {[p EXCEPT ![23] = 5 * @] : p \in Patterns(23, {0, 1, 3})}
=============================================================================
