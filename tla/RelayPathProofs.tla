--------------------------- MODULE RelayPathProofs ---------------------------
(***************************************************************************)
(* Theorems about RelayPath for every size of the path_len fields, of the  *)
(* path array and of the payload.                                          *)
(***************************************************************************)
EXTENDS RelayPath, TLAPS

\* Division by a positive number: quotient, remainder and their uniqueness.
LEMMA DivMod ==
  ASSUME NEW a \in Nat, NEW b \in Nat \ {0}
  PROVE  /\ a = b * (a \div b) + (a % b)
         /\ a % b \in 0..(b - 1)
         /\ a \div b \in Nat
BY Z3

\* The fields of a byte put together from two.
LEMMA DivModUnique ==
  ASSUME NEW b \in Nat \ {0}, NEW q \in Nat, NEW r \in 0..(b - 1)
  PROVE  (b * q + r) \div b = q /\ (b * q + r) % b = r
BY Z3

\* The two fields of a path_len that read_from accepts, and what its validity
\* says of them.
LEMMA ValidFields ==
  ASSUME NEW pl \in 0..(ByteMod - 1), IsValidPathLen(pl)
  PROVE  /\ GetPathHashSize(pl) \in 1..3
         /\ GetPathHashCount(pl) \in 0..(PathCountMod - 1)
         /\ pl = PathCountMod * (GetPathHashSize(pl) - 1) + GetPathHashCount(pl)
         /\ GetPathHashCount(pl) = PathCountMod - 1 => GetPathHashSize(pl) = 1
<1> DEFINE P == PathCountMod
           q == pl \div P
           c == pl % P
<1>1. P \in Nat \ {0, 1} /\ ByteMod = 4 * P /\ pl \in Nat
  BY PacketConstants DEF ByteMod
<1>2. pl = P * q + c /\ c \in 0..(P - 1) /\ q \in Nat
  BY <1>1, DivMod
<1>3. q < 4
  <2> SUFFICES ASSUME q >= 4 PROVE FALSE
    BY <1>2
  <2>1. P * q >= P * 4
    BY <1>1, <1>2, Z3
  <2> QED BY <2>1, <1>1, <1>2
<1>4. q + 1 # 4
  BY DEF IsValidPathLen, GetPathHashSize
<1>5. q \in 0..2
  BY <1>2, <1>3, <1>4
<1>6. c = P - 1 => q = 0
  <2> SUFFICES ASSUME c = P - 1, q # 0 PROVE FALSE
    OBVIOUS
  <2>1. c * (q + 1) <= MAX_PATH_SIZE
    BY DEF IsValidPathLen, GetPathHashSize, GetPathHashCount
  <2>2. c * (q + 1) = c * 2 \/ c * (q + 1) = c * 3
    BY <1>5
  <2> QED BY <2>1, <2>2, <1>1, <1>2, PacketConstants
<1> QED BY <1>1, <1>2, <1>5, <1>6 DEF GetPathHashSize, GetPathHashCount

\* Advancing the count by one adds one to path_len, also where the count
\* overflows into the hash size.
LEMMA NextPathLen ==
  ASSUME NEW pl \in 0..(ByteMod - 1), IsValidPathLen(pl)
  PROVE  SetPathHashCount(pl, GetPathHashCount(pl) + 1) = pl + 1
<1> DEFINE P == PathCountMod
           s == GetPathHashSize(pl)
           c == GetPathHashCount(pl)
<1>1. P \in Nat \ {0, 1} /\ pl \in Nat
  BY PacketConstants DEF ByteMod
<1>2. s \in 1..3 /\ c \in 0..(P - 1) /\ pl = P * (s - 1) + c
  BY ValidFields
<1>3. c = P - 1 => s = 1
  BY ValidFields
<1>4. CASE c + 1 < P
  BY <1>4, <1>1, <1>2 DEF SetPathHashCount
<1>5. CASE ~(c + 1 < P)
  <2>1. c = P - 1 /\ s = 1
    BY <1>5, <1>1, <1>2, <1>3
  <2>2. pl - c = 0
    BY <2>1, <1>1, <1>2
  <2>3. ((pl - c) \div P) % 2 = 0
    <3>1. (P * 0 + 0) \div P = 0
      BY <1>1, DivModUnique
    <3>2. 0 \div P = 0
      BY <3>1, <1>1
    <3> QED BY <2>2, <3>2
  <2> QED BY <1>5, <2>1, <2>2, <2>3, <1>1 DEF SetPathHashCount
<1> QED BY <1>4, <1>5

-----------------------------------------------------------------------------
\* getPathByteLen returns a byte.
LEMMA ByteLenType ==
  ASSUME NEW pl \in 0..(ByteMod - 1)
  PROVE  GetPathByteLen(pl) \in 0..(ByteMod - 1)
<1>1. PathCountMod \in Nat \ {0} /\ ByteMod \in Nat \ {0} /\ pl \in Nat
  BY PacketConstants DEF ByteMod
<1>2. GetPathHashCount(pl) \in Nat /\ GetPathHashSize(pl) \in Nat
  BY <1>1, DivMod DEF GetPathHashCount, GetPathHashSize
<1>3. GetPathHashCount(pl) * GetPathHashSize(pl) \in Nat
  BY <1>2, SMT
<1> QED BY <1>1, <1>3, DivMod DEF GetPathByteLen

\* What write_to writes of a packet is a frame.
LEMMA WriteToType ==
  ASSUME NEW pkt \in PacketType
  PROVE  /\ WriteTo(pkt) \in [pkt : PacketType, len : 0..(ByteMod - 1)]
         /\ WriteTo(pkt).pkt = pkt
         /\ GetPathByteLen(pkt.path_len) \in 0..(ByteMod - 1)
<1>1. ByteMod \in Nat \ {0}
  BY PacketConstants DEF ByteMod
<1>2. GetPathByteLen(pkt.path_len) \in 0..(ByteMod - 1)
  BY ByteLenType DEF PacketType
<1>3. GetRawLength(pkt) \in Nat
  BY <1>1, <1>2 DEF GetRawLength, PrefixLen, PacketType
<1>4. GetRawLength(pkt) % ByteMod \in 0..(ByteMod - 1)
  BY <1>1, <1>3, DivMod
<1> QED BY <1>2, <1>4 DEF WriteTo

\* The packet read_from makes of an accepted frame.
LEMMA ReadFromType ==
  ASSUME NEW fr \in [pkt : PacketType, len : 0..(ByteMod - 1)], ReadFromOk(fr)
  PROVE  /\ ReadFrom(fr) \in PacketType
         /\ ReadFrom(fr).path_len = fr.pkt.path_len
         /\ ReadFrom(fr).transport = fr.pkt.transport
         /\ ReadFrom(fr).payload_len =
              fr.len - PrefixLen(fr.pkt) - GetPathByteLen(fr.pkt.path_len)
<1>1. fr.pkt \in PacketType /\ fr.len \in Nat /\ PrefixLen(fr.pkt) \in {2, 6}
  BY PacketConstants DEF ByteMod, PrefixLen
<1>2. GetPathByteLen(fr.pkt.path_len) \in Nat
  BY <1>1, WriteToType, PacketConstants DEF ByteMod
<1>3. fr.len - PrefixLen(fr.pkt) - GetPathByteLen(fr.pkt.path_len) \in Nat
  BY <1>1, <1>2 DEF ReadFromOk
<1> QED BY <1>1, <1>3 DEF ReadFrom, PacketType

\* The packet maybe_relay_ transmits instead of one it could read.
LEMMA AppendHashType ==
  ASSUME NEW pkt \in PacketType, IsValidPathLen(pkt.path_len), NEW h \in Int
  PROVE  /\ AppendHash(pkt, h) \in PacketType
         /\ AppendHash(pkt, h).path_len = pkt.path_len + 1
         /\ AppendHash(pkt, h).transport = pkt.transport
         /\ AppendHash(pkt, h).payload_len = pkt.payload_len
<1> DEFINE pl == pkt.path_len
           len == SetPathHashCount(pl, GetPathHashCount(pl) + 1)
           path == PathBytes(Append(pkt.path, h), GetPathByteLen(len))
<1>1. pl \in 0..(ByteMod - 1)
  BY DEF PacketType
<1>2. len = pl + 1
  BY <1>1, NextPathLen
<1>3. len \in 0..(ByteMod - 1)
  <2>1. /\ GetPathHashSize(pl) \in 1..3
        /\ GetPathHashCount(pl) \in 0..(PathCountMod - 1)
        /\ pl = PathCountMod * (GetPathHashSize(pl) - 1) + GetPathHashCount(pl)
    BY <1>1, ValidFields
  <2> QED BY <2>1, <1>1, <1>2, PacketConstants DEF ByteMod
<1>4. GetPathByteLen(len) \in Nat
  BY <1>3, ByteLenType, PacketConstants DEF ByteMod
<1>5. path \in Seq(Int)
  <2>1. Append(pkt.path, h) \in Seq(Int)
    BY DEF PacketType
  <2>2. \A i \in 1..GetPathByteLen(len) :
          (IF i <= Len(Append(pkt.path, h)) THEN Append(pkt.path, h)[i]
           ELSE IF i <= MAX_PATH_SIZE THEN 0 ELSE PayloadByte) \in Int
    BY <2>1, <1>4, PacketConstants DEF PayloadByte
  <2> QED BY <2>2, <1>4 DEF PathBytes
<1>6. AppendHash(pkt, h) = [pkt EXCEPT !.path_len = len, !.path = path]
  BY DEF AppendHash
<1> HIDE DEF len, path
<1> QED BY <1>2, <1>3, <1>5, <1>6 DEF PacketType

-----------------------------------------------------------------------------
\* The inductive invariant. The frame is what write_to made of its packet, and
\* that packet is the originator's but for its path.
IInv ==
  /\ TypeOK
  /\ frame = WriteTo(frame.pkt)
  /\ PathLenCountsHops
  /\ frame.pkt.payload_len = origin.payload_len
  /\ frame.pkt.transport = origin.transport

\* What originates is a packet of bytes.
LEMMA OriginType ==
  ASSUME NEW o \in Originated
  PROVE  /\ o \in PacketType
         /\ o.payload_len \in 0..MAX_PACKET_PAYLOAD
         /\ o.path_len \in Nat
<1>1. PICK size \in HashSizes : o.path_len = (size - 1) * PathCountMod
  BY DEF Originated
<1>2. size \in 1..3
  BY <1>1, Originators
<1>3. o.path_len \in 0..(ByteMod - 1)
  BY <1>1, <1>2, PacketConstants DEF ByteMod
<1>4. o.payload_len \in 0..MAX_PACKET_PAYLOAD /\ o.transport \in BOOLEAN /\ o.path = <<>>
  BY Originators DEF Originated
<1>5. <<>> \in Seq(Int)
  OBVIOUS
<1>6. o \in [transport : BOOLEAN, path_len : 0..(ByteMod - 1), path : Seq(Int),
             payload_len : Nat]
  <2>1. o = [transport |-> o.transport, path_len |-> o.path_len, path |-> o.path,
             payload_len |-> o.payload_len]
    BY DEF Originated
  <2>2. o.payload_len \in Nat
    BY <1>4, PacketConstants DEF ByteMod
  <2> QED BY <2>1, <2>2, <1>3, <1>4, <1>5
<1> QED BY <1>3, <1>4, <1>6, PacketConstants DEF PacketType, ByteMod

\* The byte length of a path that read_from accepts does not wrap.
LEMMA ByteLenExact ==
  ASSUME NEW pl \in 0..(ByteMod - 1), IsValidPathLen(pl)
  PROVE  /\ GetPathByteLen(pl) = GetPathHashCount(pl) * GetPathHashSize(pl)
         /\ GetPathByteLen(pl) \in Nat
         /\ GetPathByteLen(pl) <= MAX_PATH_SIZE
<1> DEFINE bytes == GetPathHashCount(pl) * GetPathHashSize(pl)
<1>1. /\ ByteMod \in Nat \ {0} /\ PathCountMod \in Nat \ {0, 1}
      /\ ByteMod = 4 * PathCountMod
      /\ MAX_PATH_SIZE \in Nat /\ MAX_PATH_SIZE < 2 * (PathCountMod - 1)
  BY PacketConstants DEF ByteMod
<1>2. GetPathHashSize(pl) \in Nat /\ GetPathHashCount(pl) \in Nat
  BY <1>1, ValidFields
<1>3. bytes \in Nat /\ bytes <= MAX_PATH_SIZE
  BY <1>2, SMT DEF IsValidPathLen
<1>4. (ByteMod * 0 + bytes) % ByteMod = bytes
  BY <1>3, <1>1, DivModUnique
<1> QED BY <1>1, <1>3, <1>4 DEF GetPathByteLen

\* A frame that read_from accepts was not cut by the wrap of its length, so the
\* bytes behind the path are the payload that was written.
LEMMA KeptPayload ==
  ASSUME NEW fr \in [pkt : PacketType, len : 0..(ByteMod - 1)],
         NEW o \in Originated, fr.pkt.payload_len = o.payload_len,
         fr = WriteTo(fr.pkt), ReadFromOk(fr)
  PROVE  fr.len - PrefixLen(fr.pkt) - GetPathByteLen(fr.pkt.path_len)
           = fr.pkt.payload_len
<1> DEFINE start == PrefixLen(fr.pkt) + GetPathByteLen(fr.pkt.path_len)
           size == fr.pkt.payload_len
           B == ByteMod
<1>1. /\ B \in Nat \ {0} /\ PathCountMod \in Nat \ {0, 1} /\ B = 4 * PathCountMod
      /\ MAX_PATH_SIZE \in Nat /\ MAX_PATH_SIZE < 2 * (PathCountMod - 1)
  BY PacketConstants DEF ByteMod
<1>2. size \in 0..(B - 1)
  BY OriginType, PacketConstants, <1>1
<1>3. start \in Nat /\ start <= B
  <2>1. IsValidPathLen(fr.pkt.path_len) /\ fr.pkt.path_len \in 0..(B - 1)
    BY DEF ReadFromOk, PacketType
  <2>2. /\ GetPathByteLen(fr.pkt.path_len) \in Nat
        /\ GetPathByteLen(fr.pkt.path_len) <= MAX_PATH_SIZE
    BY <2>1, ByteLenExact
  <2>3. PrefixLen(fr.pkt) \in {2, 6}
    BY DEF PrefixLen
  <2> QED BY <2>2, <2>3, <1>1
<1>4. fr.len = (start + size) % B
  BY DEF WriteTo, GetRawLength
<1>5. start < fr.len
  BY DEF ReadFromOk
<1>6. CASE start + size < B
  <2>1. start + size \in 0..(B - 1)
    BY <1>6, <1>1, <1>2, <1>3
  <2> HIDE DEF start, size
  <2>2. (B * 0 + (start + size)) % B = start + size
    BY <2>1, <1>1, DivModUnique
  <2>3. fr.len = start + size
    BY <2>1, <2>2, <1>4, <1>1
  <2>4. PrefixLen(fr.pkt) \in Int /\ GetPathByteLen(fr.pkt.path_len) \in Int
    BY WriteToType, PacketConstants DEF PrefixLen, ByteMod
  <2> QED BY <2>3, <2>4, <1>2 DEF start, size
<1>7. CASE start + size >= B
  <2>1. start + size - B \in 0..(B - 1)
    BY <1>7, <1>1, <1>2, <1>3
  <2>2. (B * 1 + (start + size - B)) % B = start + size - B
    BY <2>1, <1>1, DivModUnique
  <2>3. fr.len = start + size - B
    BY <2>2, <1>4, <1>1, <1>2, <1>3
  <2> QED BY <2>3, <1>1, <1>2, <1>3, <1>5
<1> QED BY <1>1, <1>2, <1>3, <1>6, <1>7

\* The invariant holds of a packet on its way to the first hop.
LEMMA InitIInv == Init => IInv
<1> SUFFICES ASSUME Init PROVE IInv
  OBVIOUS
<1>1. origin \in PacketType /\ origin.path_len \in Nat
  BY OriginType DEF Init
<1>2. /\ WriteTo(origin) \in [pkt : PacketType, len : 0..(ByteMod - 1)]
      /\ WriteTo(origin).pkt = origin
  BY <1>1, WriteToType
<1> QED BY <1>1, <1>2 DEF Init, IInv, TypeOK, PathLenCountsHops

\* A relay and a refused packet both keep it.
LEMMA NextIInv == IInv /\ [Next]_vars => IInv'
<1> SUFFICES ASSUME IInv, [Next]_vars PROVE IInv'
  OBVIOUS
<1>1. CASE Relay
  <2> DEFINE got == ReadFrom(frame)
             pkt == AppendHash(got, hops + 1)
  <2>1. /\ frame \in [pkt : PacketType, len : 0..(ByteMod - 1)]
        /\ ReadFromOk(frame) /\ hops \in Nat /\ origin \in Originated
        /\ fate \in {"flying", "full", "bad", "crashed"}
    BY <1>1 DEF Relay, IInv, TypeOK
  <2>2. /\ got \in PacketType
        /\ got.path_len = frame.pkt.path_len /\ got.transport = frame.pkt.transport
        /\ got.payload_len =
             frame.len - PrefixLen(frame.pkt) - GetPathByteLen(frame.pkt.path_len)
    BY <2>1, ReadFromType
  <2>3. got.payload_len = frame.pkt.payload_len
    BY <2>1, <2>2, KeptPayload DEF IInv
  <2>4. IsValidPathLen(got.path_len)
    BY <2>1, <2>2 DEF ReadFromOk
  <2>5. /\ pkt \in PacketType
        /\ pkt.path_len = got.path_len + 1
        /\ pkt.transport = got.transport
        /\ pkt.payload_len = got.payload_len
    BY <2>1, <2>2, <2>4, AppendHashType
  <2>6. /\ WriteTo(pkt) \in [pkt : PacketType, len : 0..(ByteMod - 1)]
        /\ WriteTo(pkt).pkt = pkt
    BY <2>5, WriteToType
  <2>7. frame' = WriteTo(pkt) /\ hops' = hops + 1 /\ fate' = fate /\ origin' = origin
    BY <1>1 DEF Relay, Relayed
  <2>8. frame'.pkt.path_len = origin'.path_len + hops'
    <3>1. frame.pkt.path_len = origin.path_len + hops /\ origin.path_len \in Nat
      BY <2>1, OriginType DEF IInv, PathLenCountsHops
    <3> QED BY <3>1, <2>1, <2>2, <2>5, <2>6, <2>7
  <2> HIDE DEF got, pkt
  <2>9. frame' = WriteTo(frame'.pkt)
    BY <2>6, <2>7
  <2>10. TypeOK'
    BY <2>1, <2>6, <2>7 DEF TypeOK, Originated
  <2>11. /\ frame'.pkt.payload_len = origin'.payload_len
         /\ frame'.pkt.transport = origin'.transport
    BY <2>2, <2>3, <2>5, <2>6, <2>7 DEF IInv
  <2> QED BY <2>8, <2>9, <2>10, <2>11 DEF IInv, PathLenCountsHops
<1>2. CASE DropBad
  BY <1>2 DEF DropBad, IInv, TypeOK, PathLenCountsHops
<1>3. CASE DropFull
  BY <1>3 DEF DropFull, IInv, TypeOK, PathLenCountsHops
<1>4. CASE Overrun
  BY <1>4 DEF Overrun, IInv, TypeOK, PathLenCountsHops
<1>5. CASE UNCHANGED vars
  BY <1>5 DEF vars, IInv, TypeOK, PathLenCountsHops
<1> QED BY <1>1, <1>2, <1>3, <1>4, <1>5 DEF Next

-----------------------------------------------------------------------------
\* Every state is a state of the types the code gives its variables: no field
\* of a frame leaves its byte, whatever the originator sent.
THEOREM RelayTypeOK == Spec => []TypeOK
<1>1. IInv => TypeOK
  BY DEF IInv
<1> QED BY InitIInv, NextIInv, <1>1, PTL DEF Spec

\* For all widths of its fields, path_len grows by one per relay: the carry
\* from the count into the hash size is the only thing that ends a flood.
THEOREM PathLenCounts == Spec => []PathLenCountsHops
<1>1. IInv => PathLenCountsHops
  BY DEF IInv
<1> QED BY InitIInv, NextIInv, <1>1, PTL DEF Spec

\* No wrap of a frame's length makes a repeater take other bytes for the
\* payload: a frame it can read holds the payload its originator sent.
THEOREM PayloadKept == Spec => []RelayKeepsPayload
<1>1. IInv => RelayKeepsPayload
  <2> SUFFICES ASSUME IInv, ReadFromOk(frame)
               PROVE  ReadFrom(frame).payload_len = origin.payload_len
    BY DEF RelayKeepsPayload
  <2>1. frame \in [pkt : PacketType, len : 0..(ByteMod - 1)]
    BY DEF IInv, TypeOK
  <2> QED BY <2>1, ReadFromType, KeptPayload DEF IInv, TypeOK
<1> QED BY InitIInv, NextIInv, <1>1, PTL DEF Spec

-----------------------------------------------------------------------------
\* The fields of the path_len that maybe_relay_ transmits: one hash more, or,
\* where the count overflows, none of a larger size.
LEMMA NextFields ==
  ASSUME NEW pl \in 0..(ByteMod - 1), IsValidPathLen(pl)
  PROVE  \/ /\ GetPathHashSize(pl + 1) = GetPathHashSize(pl)
            /\ GetPathHashCount(pl + 1) = GetPathHashCount(pl) + 1
            /\ GetPathByteLen(pl + 1) =
                 (GetPathHashCount(pl) + 1) * GetPathHashSize(pl)
         \/ GetPathHashCount(pl + 1) = 0 /\ GetPathByteLen(pl + 1) = 0
<1> DEFINE P == PathCountMod
           s == GetPathHashSize(pl)
           c == GetPathHashCount(pl)
<1>1. /\ P \in Nat \ {0, 1} /\ ByteMod = 4 * P /\ ByteMod \in Nat \ {0}
      /\ pl \in Nat /\ MAX_PATH_SIZE < 2 * (P - 1) /\ MAX_PATH_SIZE \in Nat
  BY PacketConstants DEF ByteMod
<1>2. s \in 1..3 /\ c \in 0..(P - 1) /\ pl = P * (s - 1) + c
  BY ValidFields
<1>3. c * s <= MAX_PATH_SIZE
  BY DEF IsValidPathLen
<1> HIDE DEF s, c
<1>4. CASE c + 1 < P
  <2>1. pl + 1 = P * (s - 1) + (c + 1)
    BY <1>1, <1>2, SMT
  <2>2. s - 1 \in Nat /\ c + 1 \in 0..(P - 1)
    BY <1>1, <1>2, <1>4
  <2>3. (pl + 1) \div P = s - 1 /\ (pl + 1) % P = c + 1
    BY <2>1, <2>2, <1>1, DivModUnique
  <2>4. GetPathHashSize(pl + 1) = s /\ GetPathHashCount(pl + 1) = c + 1
    BY <2>3, <1>2 DEF GetPathHashSize, GetPathHashCount
  <2>5. (c + 1) * s \in 0..(ByteMod - 1)
    <3>1. s = 1 \/ s = 2 \/ s = 3
      BY <1>2
    <3> QED BY <3>1, <1>1, <1>2, <1>3
  <2>6. (ByteMod * 0 + (c + 1) * s) % ByteMod = (c + 1) * s
    BY <2>5, <1>1, DivModUnique
  <2>7. GetPathByteLen(pl + 1) = (c + 1) * s
    <3> DEFINE bytes == (c + 1) * s
    <3>1. bytes % ByteMod = bytes
      <4> HIDE DEF bytes
      <4> QED BY <2>5, <2>6, <1>1 DEF bytes
    <3> QED BY <3>1, <2>4 DEF GetPathByteLen
  <2> QED BY <2>4, <2>7 DEF s, c
<1>5. CASE ~(c + 1 < P)
  <2>1. pl + 1 = P * s + 0
    <3>1. c + 1 = P
      BY <1>1, <1>2, <1>5
    <3>2. s = 1 \/ s = 2 \/ s = 3
      BY <1>2
    <3> QED BY <3>1, <3>2, <1>1, <1>2
  <2>2. (pl + 1) \div P = s /\ (pl + 1) % P = 0
    BY <2>1, <1>1, <1>2, DivModUnique
  <2>3. GetPathHashCount(pl + 1) = 0 /\ GetPathHashSize(pl + 1) = s + 1
    BY <2>2 DEF GetPathHashSize, GetPathHashCount
  <2>4. 0 * (s + 1) = 0 /\ (ByteMod * 0 + 0) % ByteMod = 0
    BY <1>1, <1>2, DivModUnique
  <2>5. GetPathByteLen(pl + 1) = 0
    BY <2>3, <2>4, <1>1 DEF GetPathByteLen
  <2> QED BY <2>3, <2>5
<1> QED BY <1>4, <1>5

\* What the path says of the hops: it is as long as path_len says, and its
\* entries are the latest repeaters in their order.
PathInv ==
  LET pl    == frame.pkt.path_len
      size  == GetPathHashSize(pl)
      count == GetPathHashCount(pl)
  IN  /\ Len(frame.pkt.path) = GetPathByteLen(pl)
      /\ \A i \in 1..count : frame.pkt.path[(i - 1) * size + 1] = hops - count + i

\* The originator's path is empty, and path_len says so.
LEMMA InitPathInv == Init => PathInv
<1> SUFFICES ASSUME Init PROVE PathInv
  OBVIOUS
<1>1. frame.pkt = origin /\ origin.path = <<>>
  BY DEF Init, WriteTo, Originated
<1>2. PICK size \in HashSizes : origin.path_len = (size - 1) * PathCountMod
  BY DEF Init, Originated
<1>3. size \in 1..3 /\ PathCountMod \in Nat \ {0} /\ ByteMod \in Nat \ {0}
  BY Originators, PacketConstants DEF ByteMod
<1>4. origin.path_len = PathCountMod * (size - 1) + 0
  BY <1>2, <1>3, SMT
<1>5. origin.path_len % PathCountMod = 0 /\ origin.path_len \div PathCountMod = size - 1
  BY <1>3, <1>4, DivModUnique
<1>6. GetPathHashCount(origin.path_len) = 0 /\ GetPathHashSize(origin.path_len) = size
  BY <1>3, <1>5 DEF GetPathHashCount, GetPathHashSize
<1>7. 0 * size = 0 /\ (ByteMod * 0 + 0) % ByteMod = 0
  BY <1>3, DivModUnique
<1>8. GetPathByteLen(origin.path_len) = 0
  BY <1>3, <1>6, <1>7 DEF GetPathByteLen
<1> QED BY <1>1, <1>6, <1>8 DEF PathInv

\* A relay puts its entry behind those that are there, and moves none of them.
LEMMA RelayPathInv == IInv /\ PathInv /\ Relay => PathInv'
<1> SUFFICES ASSUME IInv, PathInv, Relay PROVE PathInv'
  OBVIOUS
<1> DEFINE pl   == frame.pkt.path_len
           s    == GetPathHashSize(pl)
           c    == GetPathHashCount(pl)
           path == frame.pkt.path
           h    == hops + 1
           more == Append(path, h)
<1>1. /\ frame \in [pkt : PacketType, len : 0..(ByteMod - 1)]
      /\ ReadFromOk(frame) /\ hops \in Nat
  BY DEF Relay, IInv, TypeOK
<1>2. pl \in 0..(ByteMod - 1) /\ path \in Seq(Int) /\ IsValidPathLen(pl)
  BY <1>1 DEF PacketType, ReadFromOk
<1>3. s \in 1..3 /\ c \in Nat
  BY <1>2, ValidFields
<1>4. Len(path) = c * s
  BY <1>2, ByteLenExact DEF PathInv
<1>5. \A i \in 1..c : path[(i - 1) * s + 1] = hops - c + i
  BY DEF PathInv
<1>6. /\ hops' = h
      /\ frame'.pkt.path_len = pl + 1
      /\ frame'.pkt.path = PathBytes(more, GetPathByteLen(pl + 1))
  <2>1. frame' = WriteTo(AppendHash(ReadFrom(frame), h)) /\ hops' = h
    BY DEF Relay, Relayed
  <2>2. SetPathHashCount(pl, c + 1) = pl + 1
    BY <1>2, NextPathLen
  <2>3. /\ ReadFrom(frame) \in PacketType
        /\ ReadFrom(frame).path_len = pl /\ ReadFrom(frame).path = path
    BY <1>1, ReadFromType DEF ReadFrom
  <2>4. /\ AppendHash(ReadFrom(frame), h).path_len = pl + 1
        /\ AppendHash(ReadFrom(frame), h).path =
             PathBytes(more, GetPathByteLen(pl + 1))
    BY <2>2, <2>3 DEF AppendHash, PacketType
  <2> QED BY <2>1, <2>4 DEF WriteTo
<1>7. CASE GetPathHashCount(pl + 1) = 0 /\ GetPathByteLen(pl + 1) = 0
  <2>1. Len(frame'.pkt.path) = 0
    BY <1>6, <1>7 DEF PathBytes
  <2> QED BY <2>1, <1>6, <1>7 DEF PathInv
<1>8. CASE /\ GetPathHashSize(pl + 1) = s
           /\ GetPathHashCount(pl + 1) = c + 1
           /\ GetPathByteLen(pl + 1) = (c + 1) * s
  <2> HIDE DEF pl, s, c, path
  <2>1. /\ more \in Seq(Int) /\ Len(more) = c * s + 1
        /\ \A k \in 1..(c * s) : more[k] = path[k]
        /\ more[c * s + 1] = h
    BY <1>1, <1>2, <1>3, <1>4
  <2>2. s = 1 \/ s = 2 \/ s = 3
    BY <1>3
  <2>3. (c + 1) * s \in Nat /\ c * s \in Nat /\ c * s + 1 <= (c + 1) * s
    BY <2>2, <1>3
  <2>4. /\ Len(frame'.pkt.path) = (c + 1) * s
        /\ \A k \in 1..(c * s + 1) : frame'.pkt.path[k] = more[k]
    BY <2>1, <2>3, <1>6, <1>8 DEF PathBytes
  <2>5. ASSUME NEW i \in 1..(c + 1)
        PROVE  frame'.pkt.path[(i - 1) * s + 1] = h - (c + 1) + i
    <3>1. CASE i = c + 1
      <4>1. (i - 1) * s + 1 = c * s + 1
        BY <3>1, <1>3
      <4>2. frame'.pkt.path[c * s + 1] = h
        BY <2>1, <2>3, <2>4
      <4> QED BY <3>1, <4>1, <4>2, <1>1, <1>3
    <3>2. CASE i \in 1..c
      <4>1. (i - 1) * s + 1 \in 1..(c * s)
        BY <3>2, <2>2, <1>3
      <4>2. frame'.pkt.path[(i - 1) * s + 1] = path[(i - 1) * s + 1]
        <5> DEFINE k == (i - 1) * s + 1
        <5>1. k \in 1..(c * s)
          BY <4>1
        <5> HIDE DEF k
        <5>2. k \in 1..(c * s + 1)
          BY <5>1, <2>3
        <5>3. frame'.pkt.path[k] = more[k] /\ more[k] = path[k]
          BY <5>1, <5>2, <2>1, <2>4
        <5> QED BY <5>3 DEF k
      <4>3. path[(i - 1) * s + 1] = hops - c + i
        BY <3>2, <1>5
      <4> QED BY <4>2, <4>3, <3>2, <1>1, <1>3
    <3> QED BY <3>1, <3>2, <1>3
  <2>6. Len(frame'.pkt.path) = GetPathByteLen(frame'.pkt.path_len)
    BY <2>4, <1>6, <1>8
  <2> QED BY <2>5, <2>6, <1>6, <1>8 DEF PathInv
<1> QED BY <1>2, <1>7, <1>8, NextFields

\* A repeater that drops the packet leaves the frame as it was.
LEMMA NextPathInv == IInv /\ PathInv /\ [Next]_vars => PathInv'
<1> SUFFICES ASSUME IInv, PathInv, [Next]_vars PROVE PathInv'
  OBVIOUS
<1>1. CASE Relay
  BY <1>1, RelayPathInv
<1>2. CASE DropBad
  BY <1>2 DEF DropBad, PathInv
<1>3. CASE DropFull
  BY <1>3 DEF DropFull, PathInv
<1>4. CASE Overrun
  BY <1>4 DEF Overrun, PathInv
<1>5. CASE UNCHANGED vars
  BY <1>5 DEF vars, PathInv
<1> QED BY <1>1, <1>2, <1>3, <1>4, <1>5 DEF Next

\* For all widths of the fields and all hash sizes, the entries of a path are
\* the latest repeaters that relayed it, in order: the one byte a repeater
\* appends lands at the front of the entry that the new count adds, also after
\* the count has overflowed and the entries have become wider.
THEOREM EntriesAreLatestHops == Spec => []PathEntriesAreLatestHops
<1>1. Init => IInv /\ PathInv
  BY InitIInv, InitPathInv
<1>2. IInv /\ PathInv /\ [Next]_vars => IInv' /\ PathInv'
  BY NextIInv, NextPathInv
<1>3. PathInv => PathEntriesAreLatestHops
  BY DEF PathInv, PathEntriesAreLatestHops
<1> QED BY <1>1, <1>2, <1>3, PTL DEF Spec
-----------------------------------------------------------------------------
\* A path whose hashes divide the path array ends within it if there is room
\* for a byte behind one hash less, and any other within two bytes of it.
LEMMA LongestPath ==
  ASSUME NEW M \in Nat, NEW s \in 1..3, NEW c \in Nat, c * s + 1 <= M
  PROVE  /\ (c + 1) * s <= M + 2
         /\ M % s = 0 => (c + 1) * s <= M
<1>1. s = 1 \/ s = 2 \/ s = 3
  OBVIOUS
<1>2. (c + 1) * s <= M + 2
  BY <1>1
<1>3. ASSUME M % s = 0 PROVE (c + 1) * s <= M
  <2>1. M = s * (M \div s) + (M % s) /\ M \div s \in Nat
    BY DivMod
  <2> DEFINE q == M \div s
  <2>2. M = s * q /\ q \in Nat
    BY <2>1, <1>3
  <2> HIDE DEF q
  <2>3. c < q
    BY <2>2, <1>1
  <2> QED BY <2>2, <2>3, <1>1
<1> QED BY <1>2, <1>3

\* What maybe_relay_ makes of a packet that it has read and found room in.
LEMMA RelayedLength ==
  ASSUME NEW pl \in 0..(ByteMod - 1), IsValidPathLen(pl),
         GetPathByteLen(pl) + PATH_HASH_SIZE <= MAX_PATH_SIZE
  PROVE  /\ GetPathByteLen(pl + 1) \in Nat
         /\ GetPathByteLen(pl + 1) <= MAX_PATH_SIZE + 2
         /\ MAX_PATH_SIZE % GetPathHashSize(pl) = 0 =>
              GetPathByteLen(pl + 1) <= MAX_PATH_SIZE
         /\ MAX_PATH_SIZE % GetPathHashSize(pl + 1) = 0 => IsValidPathLen(pl + 1)
<1> DEFINE s == GetPathHashSize(pl)
           c == GetPathHashCount(pl)
<1>1. s \in 1..3 /\ c \in Nat /\ MAX_PATH_SIZE \in Nat
  BY ValidFields, PacketConstants
<1>2. c * s + 1 <= MAX_PATH_SIZE
  BY ByteLenExact DEF PATH_HASH_SIZE
<1>3. CASE /\ GetPathHashSize(pl + 1) = s
           /\ GetPathHashCount(pl + 1) = c + 1
           /\ GetPathByteLen(pl + 1) = (c + 1) * s
  <2> HIDE DEF s, c
  <2>1. /\ (c + 1) * s <= MAX_PATH_SIZE + 2
        /\ MAX_PATH_SIZE % s = 0 => (c + 1) * s <= MAX_PATH_SIZE
    BY <1>1, <1>2, LongestPath
  <2>2. (c + 1) * s \in Nat
    BY <1>1
  <2>3. s # 4
    BY <1>1
  <2> QED BY <2>1, <2>2, <2>3, <1>3 DEF IsValidPathLen, s
<1>4. CASE GetPathHashCount(pl + 1) = 0 /\ GetPathByteLen(pl + 1) = 0
  <2>1. c = PathCountMod - 1 /\ s = 1
    <3>1. pl = PathCountMod * (s - 1) + c /\ c \in 0..(PathCountMod - 1)
          /\ (c = PathCountMod - 1 => s = 1)
      BY ValidFields
    <3>2. PathCountMod \in Nat \ {0, 1}
      BY PacketConstants
    <3> HIDE DEF s, c
    <3>3. SUFFICES ASSUME c + 1 <= PathCountMod - 1 PROVE FALSE
      BY <3>1, <3>2
    <3>4. s - 1 \in Nat /\ c + 1 \in 0..(PathCountMod - 1)
      BY <1>1, <3>1, <3>2, <3>3
    <3>5. pl + 1 = PathCountMod * (s - 1) + (c + 1)
      <4>1. s = 1 \/ s = 2 \/ s = 3
        BY <1>1
      <4> QED BY <4>1, <3>1, <3>2
    <3>6. (pl + 1) % PathCountMod = c + 1
      BY <3>4, <3>5, <3>2, DivModUnique
    <3> QED BY <3>6, <1>4, <1>1 DEF GetPathHashCount
  <2>2. pl + 1 = PathCountMod * 1 + 0 /\ PathCountMod \in Nat \ {0, 1}
    BY <2>1, ValidFields, PacketConstants
  <2>3. (pl + 1) \div PathCountMod = 1
    BY <2>2, DivModUnique
  <2>4. GetPathHashSize(pl + 1) = 2
    BY <2>3 DEF GetPathHashSize
  <2> QED BY <2>4, <1>1, <1>4 DEF IsValidPathLen
<1> QED BY <1>3, <1>4, NextFields

\* read_from accepts what write_to writes of a packet that has a valid path and
\* a payload: nothing wraps.
LEMMA ReadsBack ==
  ASSUME NEW pkt \in PacketType, IsValidPathLen(pkt.path_len),
         pkt.payload_len \in 1..MAX_PACKET_PAYLOAD
  PROVE  ReadFromOk(WriteTo(pkt))
<1> DEFINE raw == GetRawLength(pkt)
<1>1. /\ ByteMod \in Nat \ {0} /\ MAX_PATH_SIZE \in Nat /\ MAX_PACKET_PAYLOAD \in Nat
      /\ MAX_PATH_SIZE + MAX_PACKET_PAYLOAD + 6 < ByteMod
  BY PacketConstants DEF ByteMod
<1>2. /\ GetPathByteLen(pkt.path_len) \in Nat
      /\ GetPathByteLen(pkt.path_len) <= MAX_PATH_SIZE
  BY ByteLenExact DEF PacketType
<1>3. PrefixLen(pkt) \in {2, 6}
  BY DEF PrefixLen
<1>4. raw = PrefixLen(pkt) + GetPathByteLen(pkt.path_len) + pkt.payload_len
  BY DEF GetRawLength
<1>5. raw \in 0..(ByteMod - 1)
  BY <1>1, <1>2, <1>3, <1>4
<1> HIDE DEF raw
<1>6. raw % ByteMod = raw
  <2>1. (ByteMod * 0 + raw) % ByteMod = raw
    BY <1>1, <1>5, DivModUnique
  <2> QED BY <2>1, <1>1, <1>5
<1>7. WriteTo(pkt).pkt = pkt /\ WriteTo(pkt).len = raw
  BY <1>6 DEF WriteTo, raw
<1> QED BY <1>2, <1>3, <1>4, <1>7 DEF ReadFromOk

\* What OnlyOddHashesOutgrow needs to be inductive: a packet that has a payload
\* is readable as long as its hashes divide the path array.
OutgrowInv ==
  /\ \/ origin.payload_len = 0
     \/ MAX_PATH_SIZE % GetPathHashSize(frame.pkt.path_len) # 0
     \/ ReadFromOk(frame)
  /\ OnlyOddHashesOutgrow

\* An originated packet has a valid path: it is empty.
LEMMA InitOutgrowInv == Init => OutgrowInv
<1> SUFFICES ASSUME Init, origin.payload_len # 0 PROVE ReadFromOk(frame)
  BY DEF Init, OutgrowInv, OnlyOddHashesOutgrow
<1>1. /\ origin \in PacketType /\ origin.payload_len \in 1..MAX_PACKET_PAYLOAD
  BY OriginType, PacketConstants DEF Init
<1>2. PICK size \in HashSizes : origin.path_len = (size - 1) * PathCountMod
  BY DEF Init, Originated
<1>3. size \in 1..3 /\ PathCountMod \in Nat \ {0} /\ MAX_PATH_SIZE \in Nat
  BY <1>2, Originators, PacketConstants
<1>4. origin.path_len = PathCountMod * (size - 1) + 0
  BY <1>2, <1>3, SMT
<1>5. origin.path_len % PathCountMod = 0 /\ origin.path_len \div PathCountMod = size - 1
  BY <1>3, <1>4, DivModUnique
<1>6. IsValidPathLen(origin.path_len)
  BY <1>3, <1>5 DEF IsValidPathLen, GetPathHashSize, GetPathHashCount
<1> QED BY <1>1, <1>6, ReadsBack DEF Init

\* The relays keep it: where they append a hash that makes the path too long,
\* the hashes do not divide the path array.
LEMMA NextOutgrowInv == IInv /\ OutgrowInv /\ [Next]_vars => OutgrowInv'
<1> SUFFICES ASSUME IInv, OutgrowInv, [Next]_vars PROVE OutgrowInv'
  OBVIOUS
<1> DEFINE pl == frame.pkt.path_len
<1>1. ASSUME fate = "flying", ReadFromOk(frame), ~PathFull(ReadFrom(frame))
      PROVE  /\ Relayed \in PacketType
             /\ Relayed.path_len = pl + 1
             /\ Relayed.transport = origin.transport
             /\ Relayed.payload_len = origin.payload_len
             /\ GetPathByteLen(pl + 1) \in Nat
             /\ GetPathByteLen(pl + 1) <= MAX_PATH_SIZE + 2
             /\ MAX_PATH_SIZE % GetPathHashSize(pl) = 0 =>
                  GetPathByteLen(pl + 1) <= MAX_PATH_SIZE
             /\ MAX_PATH_SIZE % GetPathHashSize(pl + 1) = 0 => IsValidPathLen(pl + 1)
  <2>1. frame \in [pkt : PacketType, len : 0..(ByteMod - 1)] /\ hops + 1 \in Int
    BY DEF IInv, TypeOK
  <2>2. pl \in 0..(ByteMod - 1) /\ IsValidPathLen(pl)
    BY <2>1, <1>1 DEF PacketType, ReadFromOk
  <2>3. /\ ReadFrom(frame) \in PacketType
        /\ ReadFrom(frame).path_len = pl
        /\ ReadFrom(frame).transport = origin.transport
        /\ ReadFrom(frame).payload_len = origin.payload_len
    BY <2>1, <1>1, ReadFromType, KeptPayload DEF IInv, TypeOK
  <2>4. GetPathByteLen(pl) + PATH_HASH_SIZE <= MAX_PATH_SIZE
    BY <2>2, <2>3, <1>1, ByteLenExact, PacketConstants DEF PathFull, PATH_HASH_SIZE
  <2>5. /\ Relayed \in PacketType
        /\ Relayed.path_len = pl + 1
        /\ Relayed.transport = origin.transport
        /\ Relayed.payload_len = origin.payload_len
    BY <2>1, <2>2, <2>3, AppendHashType DEF Relayed
  <2> HIDE DEF pl
  <2> QED BY <2>2, <2>4, <2>5, RelayedLength
<1>2. origin.payload_len \in 0..MAX_PACKET_PAYLOAD
  BY OriginType DEF IInv, TypeOK
<1>3. CASE Relay
  <2>1. /\ frame' = WriteTo(Relayed) /\ fate' = "flying" /\ origin' = origin
    BY <1>3 DEF Relay
  <2>2. frame'.pkt = Relayed
    BY <2>1 DEF WriteTo
  <2>3. ASSUME origin.payload_len # 0, MAX_PATH_SIZE % GetPathHashSize(pl + 1) = 0
        PROVE  ReadFromOk(frame')
    <3>1. IsValidPathLen(Relayed.path_len) /\ Relayed \in PacketType
          /\ Relayed.payload_len \in 1..MAX_PACKET_PAYLOAD
      BY <1>1, <1>2, <1>3, <2>3, PacketConstants DEF Relay
    <3> QED BY <3>1, <2>1, ReadsBack
  <2> QED BY <1>1, <1>3, <2>1, <2>2, <2>3 DEF OutgrowInv, OnlyOddHashesOutgrow, Relay
<1>4. CASE Overrun
  <2>1. /\ fate = "flying" /\ ReadFromOk(frame) /\ ~PathFull(ReadFrom(frame))
        /\ OverrunsBuffer(Relayed)
        /\ frame' = frame /\ origin' = origin /\ fate' = "crashed"
    BY <1>4 DEF Overrun
  <2>2. PrefixLen(Relayed) = IF origin.transport THEN 6 ELSE 2
    BY <2>1, <1>1 DEF PrefixLen
  <2>3. PrefixLen(Relayed) + GetPathByteLen(pl + 1) + origin.payload_len
          > 2 + MAX_PATH_SIZE + MAX_PACKET_PAYLOAD + 4
    BY <2>1, <1>1 DEF OverrunsBuffer, GetRawLength
  <2> HIDE DEF pl
  <2>4. MAX_PATH_SIZE % GetPathHashSize(pl) # 0
    BY <2>1, <2>2, <2>3, <1>1, <1>2, PacketConstants
  <2>5. origin.transport /\ origin.payload_len > MAX_PACKET_PAYLOAD - 2
    BY <2>1, <2>2, <2>3, <1>1, <1>2, PacketConstants
  <2> QED BY <2>1, <2>4, <2>5 DEF OutgrowInv, OnlyOddHashesOutgrow, pl
<1>5. CASE DropBad
  BY <1>5 DEF DropBad, OutgrowInv, OnlyOddHashesOutgrow
<1>6. CASE DropFull
  BY <1>6 DEF DropFull, OutgrowInv, OnlyOddHashesOutgrow
<1>7. CASE UNCHANGED vars
  BY <1>7 DEF vars, OutgrowInv, OnlyOddHashesOutgrow
<1> QED BY <1>3, <1>4, <1>5, <1>6, <1>7 DEF Next

\* For all widths, sizes of the arrays and originators: relays break nothing but
\* packets whose hashes do not divide the path array, and transmit_'s buffer
\* only if these carry transport codes and a payload within two bytes of the
\* longest.
THEOREM OddHashesOutgrow == Spec => []OnlyOddHashesOutgrow
<1>1. Init => IInv /\ OutgrowInv
  BY InitIInv, InitOutgrowInv
<1>2. IInv /\ OutgrowInv /\ [Next]_vars => IInv' /\ OutgrowInv'
  BY NextIInv, NextOutgrowInv
<1>3. OutgrowInv => OnlyOddHashesOutgrow
  BY DEF OutgrowInv
<1> QED BY <1>1, <1>2, <1>3, PTL DEF Spec
=============================================================================
