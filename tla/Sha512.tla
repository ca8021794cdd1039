------------------------------- MODULE Sha512 -------------------------------
(***************************************************************************)
(* sha512.c as a stream: how sha512_update and sha512_final cut a message  *)
(* that arrives in pieces into blocks for sha512_compress. The message is  *)
(* 1, 2, 3, ..: each byte is its position. Compression is not modelled:    *)
(* the state of the hash is the sequence of blocks compressed into it.     *)
(***************************************************************************)
EXTENDS Integers, Sequences

CONSTANTS
  Block,     \* 128: bytes of a block
  LenField,  \* 16: bytes of the length at its end; only the last is modelled
  Pieces,    \* lengths of the pieces callers pass
  MaxPieces  \* bound on their number

ASSUME StreamConstants ==
  /\ Block \in Nat /\ LenField \in 1..(Block - 1) /\ LenField % 2 = 0
  /\ Pieces \subseteq Nat
  /\ MaxPieces \in Nat

VARIABLES
  buf,      \* md->buf: Block bytes, of which the first curlen count
  curlen,   \* md->curlen
  length,   \* md->length, in bytes
  state,    \* md->state: the blocks compressed so far
  in,       \* sha512_update: the rest of the piece, or <<>>
  fed,      \* history: bytes passed to sha512_update
  pieces,   \* pieces passed
  done      \* sha512_final has returned

vars == <<buf, curlen, length, state, in, fed, pieces, done>>

\* Bytes that padding writes; the length, in the last byte of the last block;
\* what a buffer holds that was never written.
Zero == 0
One == -1
Stale == -2
Length(n) == -3 - n

\* sha512_init does not write buf.
Init ==
  /\ buf = [i \in 1..Block |-> Stale]
  /\ curlen = 0
  /\ length = 0
  /\ state = <<>>
  /\ in = <<>>
  /\ fed = 0
  /\ pieces = 0
  /\ done = FALSE

\* The caller passes the next n bytes of the message.
Update(n) ==
  /\ ~done /\ in = <<>> /\ pieces < MaxPieces
  /\ in' = [i \in 1..n |-> fed + i]
  /\ fed' = fed + n
  /\ pieces' = pieces + 1
  /\ UNCHANGED <<buf, curlen, length, state, done>>

\* A whole block of the piece, with nothing in the buffer in front of it.
CompressInput ==
  /\ curlen = 0 /\ Len(in) >= Block
  /\ state' = Append(state, SubSeq(in, 1, Block))
  /\ length' = length + Block
  /\ in' = SubSeq(in, Block + 1, Len(in))
  /\ UNCHANGED <<buf, curlen, fed, pieces, done>>

\* How much of the piece fits into the buffer.
Room == IF Len(in) < Block - curlen THEN Len(in) ELSE Block - curlen

\* The buffer with that much behind its first curlen bytes.
Filled ==
  [i \in 1..Block |-> IF i \in (curlen + 1)..(curlen + Room) THEN in[i - curlen] ELSE buf[i]]

\* Input moves to the buffer, and, if that is full, compressed is compressed.
Move(compressed, next) ==
  /\ in # <<>>
  /\ curlen # 0 \/ Len(in) < Block
  /\ buf' = Filled
  /\ in' = SubSeq(in, Room + 1, Len(in))
  /\ curlen' = next
  /\ IF curlen + Room = Block
       THEN state' = Append(state, compressed) /\ length' = length + Block
       ELSE UNCHANGED <<state, length>>
  /\ UNCHANGED <<fed, pieces, done>>

\* Mutants of Fill: the block is compressed before it is filled; curlen is not
\* reset.
FillLate == Move(buf, (curlen + Room) % Block)
FillNoReset == Move(Filled, curlen + Room)

\* Otherwise as much of the piece as fits goes to the buffer; a full one is
\* compressed and starts anew.
Fill == Move(Filled, (curlen + Room) % Block)

\* b with zeros behind its first n bytes.
ZerosFrom(b, n) == [i \in 1..Block |-> IF i <= n THEN b[i] ELSE Zero]

\* Mutant of Overflows: the length field is taken for 8 bytes.
OverflowsLate(n) == n > Block - LenField \div 2

\* There is no room for the length behind n bytes of message and mark.
Overflows(n) == n > Block - LenField

\* sha512_final.
Final ==
  LET len == length + curlen
      marked == [buf EXCEPT ![curlen + 1] = One]
      over == Overflows(curlen + 1)
      last == [ZerosFrom(marked, IF over THEN 0 ELSE curlen + 1)
                 EXCEPT ![Block] = Length(len)] IN
  /\ ~done /\ in = <<>>
  /\ length' = len
  /\ state' = (IF over THEN Append(state, ZerosFrom(marked, curlen + 1)) ELSE state)
                 \o <<last>>
  /\ buf' = last
  /\ curlen' = Block - LenField \div 2
  /\ done' = TRUE
  /\ UNCHANGED <<in, fed, pieces>>

Next == (\E n \in Pieces : Update(n)) \/ CompressInput \/ Fill \/ Final

Spec == Init /\ [][Next]_vars

-----------------------------------------------------------------------------
Byte == Int

TypeOK ==
  /\ buf \in [1..Block -> Byte]
  /\ curlen \in 0..(Block - 1)
  /\ length \in Nat
  /\ state \in Seq([1..Block -> Byte])
  /\ in \in Seq(Byte)
  /\ fed \in Nat
  /\ pieces \in 0..MaxPieces
  /\ done \in BOOLEAN

\* Whatever the pieces: what was compressed, what waits in the buffer and what
\* is left of the piece are the message so far, in its order.
NothingLost ==
  ~done =>
    /\ fed = Block * Len(state) + curlen + Len(in)
    /\ length = Block * Len(state)
    /\ \A k \in 1..Len(state), i \in 1..Block : state[k][i] = Block * (k - 1) + i
    /\ \A i \in 1..curlen : buf[i] = Block * Len(state) + i
    /\ \A i \in 1..Len(in) : in[i] = Block * Len(state) + curlen + i

\* Byte j of the padded message: the message, a mark, zeros, and the length at
\* the end of the first block with room for it.
PaddedByte(j) ==
  IF j <= fed THEN j
  ELSE IF j = fed + 1 THEN One
  ELSE IF j = Block * Len(state) THEN Length(fed)
  ELSE Zero

\* What was compressed in the end is the padded message and nothing more.
DigestOfMessage ==
  done =>
    /\ fed + 1 + LenField <= Block * Len(state)
    /\ Block * Len(state) < fed + 1 + LenField + Block
    /\ \A k \in 1..Len(state), i \in 1..Block :
         state[k][i] = PaddedByte(Block * (k - 1) + i)
=============================================================================
