---------------------------- MODULE Sha512Proofs ----------------------------
(***************************************************************************)
(* With the sizes of SHA-512, however a message of any length is cut into  *)
(* pieces: what sha512.c compresses is the message with its padding.       *)
(***************************************************************************)
EXTENDS Sha512, SequenceTheorems, TLAPS

\* The sizes in sha512.c.
RealSizes == Block = 128 /\ LenField = 16

Blocks == [1..128 -> Int]

\* The first n bytes of b are those of the message behind its first `after`.
Numbered(b, n, after) == \A i \in 1..n : b[i] = after + i

\* The types with these sizes.
Typed ==
  /\ buf \in Blocks /\ state \in Seq(Blocks) /\ in \in Seq(Int)
  /\ curlen \in 0..127 /\ length \in Nat /\ fed \in Nat /\ pieces \in 0..MaxPieces

\* NothingLost with these sizes.
Kept ==
  /\ fed = 128 * Len(state) + curlen + Len(in)
  /\ length = 128 * Len(state)
  /\ \A k \in 1..Len(state) : Numbered(state[k], 128, 128 * (k - 1))
  /\ Numbered(buf, curlen, 128 * Len(state))
  /\ Numbered(in, Len(in), 128 * Len(state) + curlen)

-----------------------------------------------------------------------------
\* The blocks of a state with one more.
LEMMA OneBlockMore ==
  ASSUME NEW s \in Seq(Blocks), NEW b \in Blocks
  PROVE  /\ Append(s, b) \in Seq(Blocks)
         /\ Len(Append(s, b)) = Len(s) + 1
         /\ \A k \in 1..Len(s) : Append(s, b)[k] = s[k]
         /\ Append(s, b)[Len(s) + 1] = b
         /\ s \o <<b>> = Append(s, b)
OBVIOUS

\* A state with the next block of the message behind it.
LEMMA NextBlock ==
  ASSUME NEW s \in Seq(Blocks), NEW b \in Blocks,
         \A k \in 1..Len(s) : Numbered(s[k], 128, 128 * (k - 1)),
         Numbered(b, 128, 128 * Len(s))
  PROVE  \A k \in 1..Len(Append(s, b)) : Numbered(Append(s, b)[k], 128, 128 * (k - 1))
<1>1. /\ Len(Append(s, b)) = Len(s) + 1 /\ Len(s) \in Nat
      /\ \A k \in 1..Len(s) : Append(s, b)[k] = s[k]
      /\ Append(s, b)[Len(s) + 1] = b
  BY OneBlockMore
<1> DEFINE t == Append(s, b)
<1> HIDE DEF t
<1> SUFFICES ASSUME NEW k \in 1..(Len(s) + 1)
             PROVE  Numbered(t[k], 128, 128 * (k - 1))
  BY <1>1 DEF t
<1>2. CASE k \in 1..Len(s)
  BY <1>1, <1>2 DEF t
<1>3. CASE k = Len(s) + 1
  <2>1. t[k] = b /\ 128 * (k - 1) = 128 * Len(s)
    BY <1>1, <1>3 DEF t
  <2> QED BY <2>1
<1> QED BY <1>1, <1>2, <1>3

\* A sequence is a function on its positions.
LEMMA Whole ==
  ASSUME NEW s \in Seq(Int), NEW n \in Nat, Len(s) = n
  PROVE  s \in [1..n -> Int]
OBVIOUS

\* The first n bytes of the input.
LEMMA FrontOfInput ==
  ASSUME NEW s \in Seq(Int), NEW n \in 0..Len(s), NEW after \in Int,
         Numbered(s, Len(s), after)
  PROVE  SubSeq(s, 1, n) \in [1..n -> Int] /\ Numbered(SubSeq(s, 1, n), n, after)
<1> DEFINE b == SubSeq(s, 1, n)
<1>1. \A i \in 1..n : s[i] \in Int
  OBVIOUS
<1>2. b \in Seq(Int) /\ Len(b) = (IF 1 <= n THEN n - 1 + 1 ELSE 0)
  BY <1>1, SubSeqProperties, SMT
<1>3. \A i \in 1..(n - 1 + 1) : b[i] = s[1 + i - 1]
  BY <1>1, SubSeqProperties, SMT
<1> HIDE DEF b
<1>4. Len(b) = n
  BY <1>2
<1>5. b \in [1..n -> Int]
  BY <1>2, <1>4, Whole
<1>6. Numbered(b, n, after)
  BY <1>3 DEF Numbered
<1> QED BY <1>5, <1>6, Zenon DEF b

\* The input from byte m on.
LEMMA RestOfInput ==
  ASSUME NEW s \in Seq(Int), NEW m \in 0..Len(s), NEW after \in Int,
         Numbered(s, Len(s), after)
  PROVE  /\ SubSeq(s, m + 1, Len(s)) \in Seq(Int)
         /\ Len(SubSeq(s, m + 1, Len(s))) = Len(s) - m
         /\ Numbered(SubSeq(s, m + 1, Len(s)), Len(s) - m, after + m)
<1> DEFINE b == SubSeq(s, m + 1, Len(s))
<1>1. Len(s) \in Nat /\ \A i \in (m + 1)..Len(s) : s[i] \in Int
  OBVIOUS
<1>2. b \in Seq(Int) /\ Len(b) = Len(s) - m
  BY <1>1, SubSeqProperties
<1>3. \A i \in 1..(Len(s) - m) : b[i] = s[m + i]
  BY <1>1, SubSeqProperties
<1> HIDE DEF b
<1>4. Numbered(b, Len(s) - m, after + m)
  BY <1>1, <1>3 DEF Numbered
<1> QED BY <1>2, <1>4, Zenon DEF b

-----------------------------------------------------------------------------
\* sha512_init.
LEMMA InitKept ==
  ASSUME RealSizes, Init
  PROVE  Typed /\ Kept
<1>1. /\ buf = [i \in 1..128 |-> Stale] /\ curlen = 0 /\ length = 0 /\ state = <<>> /\ in = <<>>
      /\ fed = 0 /\ pieces = 0
  BY DEF Init, RealSizes
<1>2. buf \in Blocks
  BY <1>1 DEF Blocks, Stale
<1>3. state \in Seq(Blocks) /\ Len(state) = 0 /\ in \in Seq(Int) /\ Len(in) = 0
  BY <1>1
<1>4. Typed
  BY <1>1, <1>2, <1>3, StreamConstants DEF Typed
<1> QED BY <1>1, <1>3, <1>4 DEF Kept, Numbered

\* A new piece continues the message where the last one ended.
LEMMA UpdateKept ==
  ASSUME RealSizes, Typed, Kept, NEW n \in Pieces, Update(n)
  PROVE  Typed' /\ Kept'
<1>1. n \in Nat /\ MaxPieces \in Nat
  BY StreamConstants
<1>2. /\ in = <<>> /\ in' = [i \in 1..n |-> fed + i] /\ fed' = fed + n
      /\ pieces' = pieces + 1 /\ pieces < MaxPieces
      /\ buf' = buf /\ curlen' = curlen /\ length' = length /\ state' = state
  BY DEF Update
<1>3. Len(in) = 0 /\ Len(state) \in Nat /\ fed \in Nat /\ curlen \in Nat
  BY <1>2 DEF Typed
<1>4. in' \in Seq(Int) /\ Len(in') = n
  BY <1>1, <1>2, <1>3
<1>5. Typed'
  <2>1. pieces' \in 0..MaxPieces /\ fed' \in Nat
    BY <1>1, <1>2, <1>3 DEF Typed
  <2> QED BY <2>1, <1>2, <1>4 DEF Typed
<1>6. Kept'
  <2>1. fed = 128 * Len(state) + curlen
    BY <1>3 DEF Kept
  <2>2. Numbered(in', n, 128 * Len(state) + curlen)
    BY <2>1, <1>1, <1>2, <1>3 DEF Numbered
  <2>3. fed' = 128 * Len(state) + curlen + Len(in')
    BY <2>1, <1>1, <1>2, <1>3, <1>4
  <2>4. /\ length = 128 * Len(state) /\ Numbered(buf, curlen, 128 * Len(state))
        /\ \A k \in 1..Len(state) : Numbered(state[k], 128, 128 * (k - 1))
    BY DEF Kept
  <2> QED BY <2>2, <2>3, <2>4, <1>2, <1>4, Zenon DEF Kept
<1> QED BY <1>5, <1>6

\* A block of the input becomes the next block of the state.
LEMMA CompressInputKept ==
  ASSUME RealSizes, Typed, Kept, CompressInput
  PROVE  Typed' /\ Kept'
<1> DEFINE b == SubSeq(in, 1, 128)
           at == 128 * Len(state)
<1>1. /\ curlen = 0 /\ Len(in) >= 128
      /\ state' = Append(state, b) /\ length' = length + 128
      /\ in' = SubSeq(in, 128 + 1, Len(in))
      /\ buf' = buf /\ curlen' = curlen /\ fed' = fed /\ pieces' = pieces
  BY DEF CompressInput, RealSizes
<1>2. /\ in \in Seq(Int) /\ Len(in) \in Nat /\ state \in Seq(Blocks) /\ Len(state) \in Nat
      /\ length \in Nat /\ at \in Nat
  BY DEF Typed
<1>3. 128 \in 0..Len(in)
  BY <1>1, <1>2
<1>4. /\ Numbered(in, Len(in), at + curlen) /\ fed = at + curlen + Len(in) /\ length = at
      /\ \A k \in 1..Len(state) : Numbered(state[k], 128, 128 * (k - 1))
  BY DEF Kept
<1>5. at + curlen = at
  BY <1>1, <1>2
<1>6. Numbered(in, Len(in), at) /\ at \in Int
  BY <1>2, <1>4, <1>5
<1> HIDE DEF at
<1>7. b \in Blocks /\ Numbered(b, 128, at)
  BY <1>2, <1>3, <1>6, FrontOfInput DEF Blocks
<1>8. /\ in' \in Seq(Int) /\ Len(in') = Len(in) - 128
      /\ Numbered(in', Len(in) - 128, at + 128)
  <2>1. /\ SubSeq(in, 128 + 1, Len(in)) \in Seq(Int)
        /\ Len(SubSeq(in, 128 + 1, Len(in))) = Len(in) - 128
        /\ Numbered(SubSeq(in, 128 + 1, Len(in)), Len(in) - 128, at + 128)
    BY <1>2, <1>3, <1>6, RestOfInput, Zenon
  <2> QED BY <2>1, <1>1, Zenon
<1> USE DEF at
<1> HIDE DEF b
<1>9. /\ state' \in Seq(Blocks) /\ Len(state') = Len(state) + 1
      /\ \A k \in 1..Len(state') : Numbered(state'[k], 128, 128 * (k - 1))
  BY <1>1, <1>2, <1>4, <1>7, OneBlockMore, NextBlock, Zenon
<1>10. 128 * Len(state') = at + 128 /\ 128 * Len(state') + curlen' = at + 128
  BY <1>1, <1>2, <1>9
<1>11. Typed'
  <2>1. length' \in Nat
    BY <1>1, <1>2
  <2> QED BY <2>1, <1>1, <1>8, <1>9 DEF Typed
<1>12. Kept'
  <2>1. /\ curlen = 0 /\ curlen' = 0 /\ fed' = fed /\ length' = length + 128
        /\ Len(state') = Len(state) + 1 /\ Len(in') = Len(in) - 128
    BY <1>1, <1>8, <1>9
  <2>2. /\ Len(state) \in Nat /\ Len(in) \in Nat
        /\ fed = 128 * Len(state) + curlen + Len(in) /\ length = 128 * Len(state)
    BY <1>2, <1>4
  <2>3. fed' = 128 * Len(state') + curlen' + Len(in') /\ length' = 128 * Len(state')
    BY <2>1, <2>2
  <2>4. Numbered(buf', curlen', 128 * Len(state'))
    BY <1>1 DEF Numbered
  <2> QED BY <2>3, <2>4, <1>8, <1>9, <1>10, Zenon DEF Kept
<1> QED BY <1>11, <1>12

\* As much of the input as fits goes behind what the buffer holds.
LEMMA FilledNumbered ==
  ASSUME RealSizes, Typed, Kept, Room \in 1..Len(in), Room <= 128 - curlen
  PROVE  Filled \in Blocks /\ Numbered(Filled, curlen + Room, 128 * Len(state))
<1>1. /\ Len(in) \in Nat /\ Len(state) \in Nat /\ curlen \in 0..127
      /\ \A i \in 1..Len(in) : in[i] \in Int
  BY DEF Typed
<1>2. Filled = [i \in 1..128 |-> IF i \in (curlen + 1)..(curlen + Room)
                                   THEN in[i - curlen] ELSE buf[i]]
  BY DEF Filled, RealSizes
<1> DEFINE r == Room
<1>3. r \in 1..Len(in) /\ r <= 128 - curlen
  OBVIOUS
<1> HIDE DEF r
<1>4. \A i \in (curlen + 1)..(curlen + r) : i - curlen \in 1..Len(in)
  BY <1>1, <1>3
<1>5. \A i \in 1..128 : buf[i] \in Int
  BY DEF Typed, Blocks
<1>6. Filled \in Blocks
  BY <1>1, <1>2, <1>4, <1>5 DEF Blocks, r
<1>7. ASSUME NEW i \in 1..(curlen + r) PROVE Filled[i] = 128 * Len(state) + i
  <2>1. i \in 1..128
    BY <1>1, <1>3
  <2>2. CASE i \in (curlen + 1)..(curlen + r)
    <3>1. Filled[i] = in[i - curlen] /\ i - curlen \in 1..Len(in)
      BY <2>1, <2>2, <1>2, <1>4 DEF r
    <3>2. in[i - curlen] = 128 * Len(state) + curlen + (i - curlen)
      BY <3>1 DEF Kept, Numbered
    <3> QED BY <3>1, <3>2, <1>1
  <2>3. CASE i \in 1..curlen
    <3>1. Filled[i] = buf[i]
      BY <2>1, <2>3, <1>1, <1>2
    <3>2. buf[i] = 128 * Len(state) + i
      BY <2>3 DEF Kept, Numbered
    <3> QED BY <3>1, <3>2
  <2> QED BY <2>2, <2>3, <1>1, <1>3
<1> QED BY <1>6, <1>7 DEF Numbered, r

\* A buffer that is full becomes the next block of the state.
LEMMA FillKept ==
  ASSUME RealSizes, Typed, Kept, Fill
  PROVE  Typed' /\ Kept'
<1> DEFINE at == 128 * Len(state)
<1>1. /\ in \in Seq(Int) /\ Len(in) \in Nat \ {0} /\ Len(state) \in Nat /\ length \in Nat
      /\ curlen \in 0..127 /\ state \in Seq(Blocks) /\ at \in Nat
  BY DEF Typed, Fill, Move
<1>2. Room \in 1..Len(in) /\ Room <= 128 - curlen
  BY <1>1 DEF Room, RealSizes
<1>3. /\ in' = SubSeq(in, Room + 1, Len(in)) /\ buf' = Filled /\ fed' = fed /\ pieces' = pieces
      /\ curlen' = (curlen + Room) % 128
  BY DEF Fill, Move, RealSizes
<1>4. /\ curlen + Room = 128 => state' = Append(state, Filled) /\ length' = length + 128
      /\ curlen + Room # 128 => state' = state /\ length' = length
  BY DEF Fill, Move, RealSizes
<1>5. Filled \in Blocks /\ Numbered(Filled, curlen + Room, at)
  BY <1>2, FilledNumbered
<1>6. /\ Numbered(in, Len(in), at + curlen) /\ fed = at + curlen + Len(in) /\ length = at
      /\ \A k \in 1..Len(state) : Numbered(state[k], 128, 128 * (k - 1))
  BY DEF Kept
<1> DEFINE r == Room
<1>7. /\ in' \in Seq(Int) /\ Len(in') = Len(in) - r
      /\ Numbered(in', Len(in) - r, at + curlen + r)
  <2>1. Room \in 0..Len(in) /\ at + curlen \in Int
    BY <1>1, <1>2
  <2> QED BY <2>1, <1>1, <1>3, <1>6, RestOfInput, Zenon
<1>8. r \in 1..Len(in) /\ r <= 128 - curlen
  BY <1>2
<1>9. CASE curlen + r = 128
  <2>1. state' = Append(state, Filled) /\ length' = length + 128
    BY <1>4, <1>9
  <2>2. curlen' = 0
    <3>1. curlen' = 128 % 128
      BY <1>3, <1>9
    <3> QED BY <3>1
  <2>3. Numbered(Filled, 128, at)
    BY <1>5, <1>9
  <2>4. /\ state' \in Seq(Blocks) /\ Len(state') = Len(state) + 1
        /\ \A k \in 1..Len(state') : Numbered(state'[k], 128, 128 * (k - 1))
    BY <2>1, <2>3, <1>1, <1>5, <1>6, OneBlockMore, NextBlock, Zenon
  <2> HIDE DEF r
  <2>5. /\ Len(state') = Len(state) + 1 /\ Len(state) \in Nat /\ curlen' = 0
        /\ curlen \in Nat /\ r \in Nat /\ curlen + r = 128
    BY <2>2, <2>4, <1>1, <1>8, <1>9
  <2>6. /\ 128 * Len(state') = at + 128 /\ 128 * Len(state') + curlen' = at + 128
        /\ at + curlen + r = at + 128
    BY <2>5
  <2>7. Typed'
    <3>1. length' \in Nat /\ curlen' \in 0..127
      BY <2>1, <2>2, <1>1
    <3> QED BY <3>1, <2>4, <1>3, <1>5, <1>7 DEF Typed
  <2>8. Kept'
    <3>1. /\ fed' = fed /\ length' = length + 128 /\ Len(in') = Len(in) - r
          /\ fed = 128 * Len(state) + curlen + Len(in) /\ length = 128 * Len(state)
          /\ Len(in) \in Nat
      BY <2>1, <1>1, <1>3, <1>6, <1>7
    <3>2. fed' = 128 * Len(state') + curlen' + Len(in') /\ length' = 128 * Len(state')
      BY <2>5, <3>1
    <3>3. Numbered(buf', curlen', 128 * Len(state'))
      BY <2>2 DEF Numbered
    <3> QED BY <3>2, <3>3, <2>4, <2>6, <1>7, Zenon DEF Kept
  <2> QED BY <2>7, <2>8
<1>10. CASE curlen + r # 128
  <2>1. state' = state /\ length' = length
    BY <1>4, <1>10
  <2> HIDE DEF r
  <2>2. curlen + r \in 0..127 /\ (curlen + r) % 128 = curlen + r
    BY <1>1, <1>8, <1>10
  <2>3. curlen' = curlen + r /\ curlen' \in 0..127
    BY <2>2, <1>3, Zenon DEF r
  <2>4. Typed'
    BY <2>1, <2>3, <1>3, <1>5, <1>7 DEF Typed
  <2>5. Kept'
    <3>1. Numbered(buf', curlen', 128 * Len(state'))
      BY <2>1, <2>3, <1>3, <1>5, Zenon DEF r
    <3>2. 128 * Len(state') + curlen' = at + curlen + r
      BY <2>1, <2>3, <1>1, <1>8
    <3>3. /\ fed' = fed /\ length' = length /\ Len(in') = Len(in) - r
          /\ fed = 128 * Len(state) + curlen + Len(in) /\ length = 128 * Len(state)
          /\ Len(in) \in Nat /\ Len(state) \in Nat /\ curlen \in Nat /\ r \in Nat
          /\ Len(state') = Len(state) /\ curlen' = curlen + r
      BY <2>1, <2>3, <1>1, <1>3, <1>6, <1>7, <1>8
    <3>4. fed' = 128 * Len(state') + curlen' + Len(in') /\ length' = 128 * Len(state')
      BY <3>3
    <3> QED BY <3>1, <3>2, <3>4, <2>1, <1>6, <1>7, Zenon DEF Kept
  <2> QED BY <2>4, <2>5
<1> QED BY <1>9, <1>10

-----------------------------------------------------------------------------
\* Byte j of a message of n bytes, padded to `total` bytes.
Pad(j, n, total) ==
  IF j <= n THEN j ELSE IF j = n + 1 THEN One ELSE IF j = total THEN Length(n) ELSE Zero

\* b is block k of the padded message.
IsPad(b, k, n, total) == \A i \in 1..128 : b[i] = Pad(128 * (k - 1) + i, n, total)

AllPad(s, n, total) == \A k \in 1..Len(s) : IsPad(s[k], k, n, total)

\* DigestOfMessage with these sizes.
Padded ==
  /\ fed + 17 <= 128 * Len(state) /\ 128 * Len(state) < fed + 17 + 128
  /\ AllPad(state, fed, 128 * Len(state))

\* A block is one of the padded message when its bytes are.
LEMMA PadBytes ==
  ASSUME NEW b, NEW k, NEW n, NEW total, \A i \in 1..128 : b[i] = Pad(128 * (k - 1) + i, n, total)
  PROVE  IsPad(b, k, n, total)
BY Zenon DEF IsPad

\* Blocks of the message are blocks of the padded message.
LEMMA MessagePadded ==
  ASSUME NEW s \in Seq(Blocks), NEW n \in Nat, NEW total \in Int, 128 * Len(s) <= n,
         \A k \in 1..Len(s) : Numbered(s[k], 128, 128 * (k - 1))
  PROVE  AllPad(s, n, total)
<1> SUFFICES ASSUME NEW k \in 1..Len(s), NEW i \in 1..128
             PROVE  s[k][i] = Pad(128 * (k - 1) + i, n, total)
  BY Zenon DEF AllPad, IsPad
<1>1. Len(s) \in Nat
  OBVIOUS
<1>2. s[k][i] = 128 * (k - 1) + i
  BY DEF Numbered
<1>3. 128 * (k - 1) + i <= n
  BY <1>1
<1> QED BY <1>2, <1>3, Zenon DEF Pad

\* A state with the next block of the padded message behind it.
LEMMA NextPadded ==
  ASSUME NEW s \in Seq(Blocks), NEW b \in Blocks, NEW n, NEW total,
         AllPad(s, n, total), IsPad(b, Len(s) + 1, n, total)
  PROVE  AllPad(Append(s, b), n, total)
<1>1. /\ Len(Append(s, b)) = Len(s) + 1 /\ Len(s) \in Nat
      /\ \A k \in 1..Len(s) : Append(s, b)[k] = s[k]
      /\ Append(s, b)[Len(s) + 1] = b
  BY OneBlockMore
<1> DEFINE t == Append(s, b)
<1> HIDE DEF t
<1> SUFFICES ASSUME NEW k \in 1..(Len(s) + 1)
             PROVE  IsPad(t[k], k, n, total)
  BY <1>1, Zenon DEF t, AllPad
<1>2. CASE k \in 1..Len(s)
  BY <1>1, <1>2, Zenon DEF t, AllPad
<1>3. CASE k = Len(s) + 1
  BY <1>1, <1>3, Zenon DEF t
<1>4. k \in 1..Len(s) \/ k = Len(s) + 1
  BY <1>1
<1> QED BY <1>2, <1>3, <1>4

\* The end of the message, its mark and zeros.
LEMMA MarkPadded ==
  ASSUME NEW m, NEW at \in Nat, NEW c \in 0..127, NEW total \in Int,
         Numbered(m, c, at), m[c + 1] = One,
         NEW i \in 1..128, at + i # total
  PROVE  (IF i <= c + 1 THEN m[i] ELSE Zero) = Pad(at + i, at + c, total)
<1>1. CASE i \in 1..c
  <2>1. m[i] = at + i /\ i <= c + 1 /\ at + i <= at + c
    BY <1>1 DEF Numbered
  <2> QED BY <2>1, Zenon DEF Pad
<1>2. CASE i = c + 1
  <2>1. m[i] = One /\ i <= c + 1 /\ ~(at + i <= at + c) /\ at + i = at + c + 1
    BY <1>2
  <2> QED BY <2>1, Zenon DEF Pad
<1>3. CASE i > c + 1
  <2>1. ~(i <= c + 1) /\ ~(at + i <= at + c) /\ at + i # at + c + 1
    BY <1>3
  <2> QED BY <2>1, Zenon DEF Pad
<1> QED BY <1>1, <1>2, <1>3

\* sha512_final: one block more, or two when the length does not fit behind
\* the mark.
LEMMA FinalKept ==
  ASSUME RealSizes, Typed, Kept, Final
  PROVE  Typed' /\ Padded' /\ in' = <<>>
<1> DEFINE S == Len(state)
           at == 128 * S
           m == [buf EXCEPT ![curlen + 1] = One]
           over == curlen + 1 > 112
           zeros == ZerosFrom(m, IF over THEN 0 ELSE curlen + 1)
           last == [zeros EXCEPT ![128] = Length(length + curlen)]
           first == ZerosFrom(m, curlen + 1)
<1>1. /\ in = <<>> /\ in' = in /\ fed' = fed /\ pieces' = pieces
      /\ length' = length + curlen /\ curlen' = 120 /\ buf' = last
  BY DEF Final, RealSizes, Overflows
<1>2. /\ over => state' = Append(state, first) \o <<last>>
      /\ ~over => state' = state \o <<last>>
  <2>1. state' = (IF Overflows(curlen + 1) THEN Append(state, first) ELSE state) \o <<buf'>>
    BY Zenon DEF Final
  <2>2. Overflows(curlen + 1) <=> over
    BY DEF Overflows, RealSizes
  <2>3. buf' = last
    BY <1>1
  <2> HIDE DEF first, last
  <2> QED BY <2>1, <2>2, <2>3, Zenon
<1>3. /\ S \in Nat /\ at \in Nat /\ curlen \in 0..127 /\ buf \in Blocks /\ state \in Seq(Blocks)
      /\ Len(in) = 0
  BY <1>1 DEF Typed
<1>4. fed = at + curlen /\ length = at /\ Numbered(buf, curlen, at)
  BY <1>3 DEF Kept
<1>5. m \in Blocks /\ Numbered(m, curlen, at) /\ m[curlen + 1] = One
  <2>1. m \in Blocks
    <3>1. One \in Int /\ buf \in [1..128 -> Int]
      BY <1>3 DEF Blocks, One
    <3>2. [buf EXCEPT ![curlen + 1] = One] \in [1..128 -> Int]
      BY <3>1, Zenon
    <3> QED BY <3>2, Zenon DEF Blocks
  <2>2. \A i \in 1..curlen : m[i] = buf[i]
    BY <1>3 DEF Blocks
  <2>3. m[curlen + 1] = One
    BY <1>3 DEF Blocks
  <2> HIDE DEF m
  <2> QED BY <2>1, <2>2, <2>3, <1>4 DEF Numbered
<1> HIDE DEF m
<1>6. /\ first = [i \in 1..128 |-> IF i <= curlen + 1 THEN m[i] ELSE Zero]
      /\ over => zeros = [i \in 1..128 |-> IF i <= 0 THEN m[i] ELSE Zero]
      /\ ~over => zeros = first
  BY DEF ZerosFrom, RealSizes
<1> HIDE DEF first, zeros
<1>7. first \in Blocks /\ zeros \in Blocks
  <2>1. first \in Blocks
    BY <1>3, <1>5, <1>6 DEF Blocks, Zero
  <2>2. CASE over
    <3>1. zeros = [i \in 1..128 |-> IF i <= 0 THEN m[i] ELSE Zero]
      BY <2>2, <1>6, Zenon
    <3>2. zeros \in Blocks
      BY <3>1, <1>5 DEF Blocks, Zero
    <3> QED BY <2>1, <3>2
  <2>3. CASE ~over
    <3>1. zeros = first
      BY <2>3, <1>6, Zenon
    <3> QED BY <2>1, <3>1
  <2> QED BY <2>2, <2>3
<1>8. last \in Blocks
  <2>1. Length(length + curlen) \in Int
    BY <1>3, <1>4 DEF Length
  <2> QED BY <2>1, <1>7 DEF Blocks
<1>9. last[128] = Length(fed) /\ \A i \in 1..127 : last[i] = zeros[i]
  <2>1. length + curlen = fed
    BY <1>4
  <2> QED BY <2>1, <1>7 DEF Blocks
<1> HIDE DEF last
<1>10. \A total \in Int : 128 * S <= fed /\ fed \in Nat /\ AllPad(state, fed, total)
  <2>1. 128 * S <= fed /\ fed \in Nat
    BY <1>3, <1>4
  <2>2. \A k \in 1..Len(state) : Numbered(state[k], 128, 128 * (k - 1))
    BY DEF Kept
  <2> QED BY <2>1, <2>2, <1>3, MessagePadded, Zenon
<1>11. CASE over
  <2> DEFINE total == 128 * (S + 2)
             s == Append(state, first)
  <2>1. s \in Seq(Blocks) /\ Len(s) = S + 1
    BY <1>3, <1>7, OneBlockMore
  <2>2. state' = Append(s, last) /\ state' \in Seq(Blocks) /\ Len(state') = S + 2
    <3> HIDE DEF s
    <3>1. /\ s \o <<last>> = Append(s, last) /\ Append(s, last) \in Seq(Blocks)
          /\ Len(Append(s, last)) = S + 1 + 1
      BY <2>1, <1>8, OneBlockMore, Zenon
    <3>2. state' = s \o <<last>>
      BY <1>2, <1>11 DEF s
    <3> QED BY <3>1, <3>2, <1>3
  <2>3. IsPad(first, S + 1, fed, total)
    <3>1. ASSUME NEW i \in 1..128 PROVE first[i] = Pad(128 * ((S + 1) - 1) + i, fed, total)
      <4>1. 128 * ((S + 1) - 1) + i = at + i /\ at + i # total /\ total \in Int
        BY <1>3
      <4>2. first[i] = IF i <= curlen + 1 THEN m[i] ELSE Zero
        BY <1>6
      <4> HIDE DEF at, total
      <4>3. (IF i <= curlen + 1 THEN m[i] ELSE Zero) = Pad(at + i, at + curlen, total)
        BY <4>1, <1>3, <1>5, MarkPadded
      <4> QED BY <4>1, <4>2, <4>3, <1>4, Zenon
    <3> HIDE DEF total
    <3> QED BY <3>1, PadBytes
  <2>4. IsPad(last, S + 2, fed, total)
    <3>1. ASSUME NEW i \in 1..128 PROVE last[i] = Pad(128 * ((S + 2) - 1) + i, fed, total)
      <4> DEFINE j == 128 * ((S + 2) - 1) + i
      <4>1. ~(j <= fed) /\ j # fed + 1 /\ (j = total <=> i = 128)
        BY <1>3, <1>4
      <4>2. i # 128 => last[i] = Zero
        BY <1>6, <1>9, <1>11
      <4>3. i = 128 => last[i] = Length(fed)
        BY <1>9
      <4> HIDE DEF j
      <4> QED BY <4>1, <4>2, <4>3, Zenon DEF j, Pad
    <3> HIDE DEF total
    <3> QED BY <3>1, PadBytes
  <2>5. AllPad(s, fed, total)
    <3>1. total \in Int
      BY <1>3
    <3> HIDE DEF total
    <3> QED BY <3>1, <2>3, <1>3, <1>7, <1>10, NextPadded, Zenon
  <2>6. AllPad(state', fed', 128 * Len(state'))
    <3>1. IsPad(last, Len(s) + 1, fed, total)
      <4>1. Len(s) + 1 = S + 2
        BY <2>1, <1>3
      <4> QED BY <4>1, <2>4, Zenon
    <3>2. AllPad(Append(s, last), fed, total)
      <4> HIDE DEF s, total
      <4> QED BY <3>1, <2>1, <2>5, <1>8, NextPadded, Zenon
    <3>3. 128 * Len(state') = total
      BY <2>2
    <3> QED BY <3>2, <3>3, <2>2, <1>1, Zenon
  <2>7. fed' + 17 <= 128 * Len(state') /\ 128 * Len(state') < fed' + 17 + 128
    <3>1. Len(state') = S + 2 /\ S \in Nat /\ fed' = 128 * S + curlen /\ curlen > 111 /\ curlen \in 0..127
      BY <2>2, <1>1, <1>3, <1>4, <1>11
    <3> QED BY <3>1
  <2>8. Typed'
    <3>1. length' \in Nat /\ curlen' \in 0..127
      BY <1>1, <1>3, <1>4
    <3> QED BY <3>1, <2>2, <1>1, <1>8 DEF Typed
  <2> QED BY <2>6, <2>7, <2>8, <1>1 DEF Padded
<1>12. CASE ~over
  <2> DEFINE total == 128 * (S + 1)
  <2>1. state' = Append(state, last) /\ state' \in Seq(Blocks) /\ Len(state') = S + 1
    <3>1. /\ state \o <<last>> = Append(state, last) /\ Append(state, last) \in Seq(Blocks)
          /\ Len(Append(state, last)) = S + 1
      BY <1>3, <1>8, OneBlockMore, Zenon
    <3> QED BY <3>1, <1>2, <1>12, Zenon
  <2>2. IsPad(last, S + 1, fed, total)
    <3>1. ASSUME NEW i \in 1..128 PROVE last[i] = Pad(128 * ((S + 1) - 1) + i, fed, total)
      <4>1. 128 * ((S + 1) - 1) + i = at + i /\ total \in Int /\ (at + i = total <=> i = 128)
        BY <1>3
      <4>2. CASE i = 128
        <5>1. ~(at + i <= fed) /\ at + i # fed + 1
          BY <4>2, <1>3, <1>4, <1>12
        <5>2. last[i] = Length(fed)
          BY <4>2, <1>9, Zenon
        <5> HIDE DEF at, total
        <5> QED BY <5>2, <5>1, <4>1, <4>2, Zenon DEF Pad
      <4>3. CASE i # 128
        <5>1. last[i] = IF i <= curlen + 1 THEN m[i] ELSE Zero
          BY <4>3, <1>6, <1>9, <1>12
        <5> HIDE DEF at, total
        <5>2. (IF i <= curlen + 1 THEN m[i] ELSE Zero) = Pad(at + i, at + curlen, total)
          BY <4>1, <4>3, <1>3, <1>5, MarkPadded
        <5> QED BY <5>1, <5>2, <4>1, <1>4, Zenon
      <4> QED BY <4>2, <4>3
    <3> HIDE DEF total
    <3> QED BY <3>1, PadBytes
  <2>3. AllPad(state', fed', 128 * Len(state'))
    <3>1. total \in Int /\ 128 * Len(state') = total
      BY <2>1, <1>3
    <3>2. AllPad(Append(state, last), fed, total)
      <4> HIDE DEF total
      <4> QED BY <3>1, <2>2, <1>3, <1>8, <1>10, NextPadded, Zenon
    <3> QED BY <3>1, <3>2, <2>1, <1>1, Zenon
  <2>4. fed' + 17 <= 128 * Len(state') /\ 128 * Len(state') < fed' + 17 + 128
    <3>1. /\ Len(state') = S + 1 /\ S \in Nat /\ fed' = 128 * S + curlen /\ curlen <= 111
          /\ curlen \in 0..127
      BY <2>1, <1>1, <1>3, <1>4, <1>12
    <3> QED BY <3>1
  <2>5. Typed'
    <3>1. length' \in Nat /\ curlen' \in 0..127
      BY <1>1, <1>3, <1>4
    <3> QED BY <3>1, <2>1, <1>1, <1>8 DEF Typed
  <2> QED BY <2>3, <2>4, <2>5, <1>1 DEF Padded
<1> QED BY <1>11, <1>12

-----------------------------------------------------------------------------
\* What every step keeps: until the end the stream, and after it the digest,
\* with nothing left to compress.
IInv ==
  /\ Typed /\ done \in BOOLEAN
  /\ ~done => Kept
  /\ done => Padded /\ in = <<>>

\* What the fields of Kept and Padded are built from is unchanged.
LEMMA StutterIInv ==
  ASSUME IInv, UNCHANGED vars
  PROVE  IInv'
BY DEF IInv, Typed, Kept, Padded, vars

\* Every step keeps the invariant: those of sha512_update the stream, and
\* sha512_final makes it the digest.
LEMMA NextIInv ==
  ASSUME RealSizes, IInv, [Next]_vars
  PROVE  IInv'
<1>1. ASSUME NEW n \in Pieces, Update(n) PROVE IInv'
  <2>1. ~done /\ done' = done
    BY <1>1 DEF Update
  <2>2. Typed' /\ Kept'
    BY <1>1, <2>1, UpdateKept, Zenon DEF IInv
  <2> QED BY <2>1, <2>2, Zenon DEF IInv
<1>2. CASE CompressInput
  <2>1. ~done /\ done' = done
    <3>1. in # <<>> /\ done' = done
      BY <1>2, StreamConstants DEF CompressInput, RealSizes
    <3> QED BY <3>1, Zenon DEF IInv
  <2>2. Typed' /\ Kept'
    BY <1>2, <2>1, CompressInputKept, Zenon DEF IInv
  <2> QED BY <2>1, <2>2, Zenon DEF IInv
<1>3. CASE Fill
  <2>1. ~done /\ done' = done
    BY <1>3, Zenon DEF Fill, Move, IInv
  <2>2. Typed' /\ Kept'
    BY <1>3, <2>1, FillKept, Zenon DEF IInv
  <2> QED BY <2>1, <2>2, Zenon DEF IInv
<1>4. CASE Final
  <2>1. ~done /\ done' = TRUE
    BY <1>4 DEF Final
  <2>2. Typed' /\ Padded' /\ in' = <<>>
    BY <1>4, <2>1, FinalKept, Zenon DEF IInv
  <2> QED BY <2>1, <2>2, Zenon DEF IInv
<1>5. CASE UNCHANGED vars
  BY <1>5, StutterIInv, Zenon
<1> QED BY <1>1, <1>2, <1>3, <1>4, <1>5, Zenon DEF Next

\* sha512_init establishes the invariant and every step keeps it.
LEMMA Invariance ==
  ASSUME RealSizes
  PROVE  Spec => []IInv
<1>1. ASSUME Init PROVE IInv
  <2>1. Typed /\ Kept
    BY <1>1, InitKept
  <2>2. done = FALSE
    BY <1>1 DEF Init
  <2> QED BY <2>1, <2>2, Zenon DEF IInv
<1>2. ASSUME IInv, [Next]_vars PROVE IInv'
  BY <1>2, NextIInv
<1> QED BY <1>1, <1>2, PTL DEF Spec

\* Every variable keeps its type; curlen stays below a block, so the buffer is
\* never written behind its end.
THEOREM StreamTypeOK ==
  ASSUME RealSizes
  PROVE  Spec => []TypeOK
<1>1. ASSUME IInv PROVE TypeOK
  <2>1. [1..Block -> Byte] = Blocks /\ Byte = Int /\ 0..(Block - 1) = 0..127
    BY DEF RealSizes, Blocks, Byte
  <2> QED BY <1>1, <2>1, Zenon DEF IInv, Typed, TypeOK
<1> QED BY <1>1, Invariance, PTL

\* However a message is cut into pieces, sha512_update compresses its bytes once
\* each, in their order, and keeps the rest in the buffer.
THEOREM StreamKept ==
  ASSUME RealSizes
  PROVE  Spec => []NothingLost
<1>1. ASSUME IInv PROVE NothingLost
  <2> SUFFICES ASSUME ~done PROVE NothingLost
    BY Zenon DEF NothingLost
  <2>1. Kept
    BY <1>1, Zenon DEF IInv
  <2>2. Block = 128
    BY DEF RealSizes
  <2> QED BY <2>1, <2>2, Zenon DEF Kept, Numbered, NothingLost
<1> QED BY <1>1, Invariance, PTL

\* What sha512_final leaves compressed is the message, one mark, zeros and the
\* length, in as few blocks as hold them.
THEOREM DigestIsOfMessage ==
  ASSUME RealSizes
  PROVE  Spec => []DigestOfMessage
<1>1. ASSUME IInv PROVE DigestOfMessage
  <2> SUFFICES ASSUME done PROVE DigestOfMessage
    BY Zenon DEF DigestOfMessage
  <2>1. Padded /\ fed \in Nat
    BY <1>1, Zenon DEF IInv, Typed
  <2>2. Block = 128 /\ LenField = 16
    BY DEF RealSizes
  <2>3. fed + 1 + 16 = fed + 17
    BY <2>1
  <2>4. ASSUME NEW k \in 1..Len(state), NEW i \in 1..128
        PROVE  state[k][i] = PaddedByte(128 * (k - 1) + i)
    BY <2>1, <2>2, <2>4, Zenon DEF Padded, AllPad, IsPad, Pad, PaddedByte
  <2> QED BY <2>1, <2>2, <2>3, <2>4, Zenon DEF Padded, DigestOfMessage
<1> QED BY <1>1, Invariance, PTL
=============================================================================
