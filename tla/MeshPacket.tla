----------------------------- MODULE MeshPacket -----------------------------
(***************************************************************************)
(* The V1 wire format of mc_packet.h: how the path_len byte packs a hash   *)
(* count and a hash size, which path lengths read_from accepts, what       *)
(* write_to puts on the air, and the path edit maybe_relay_ makes.         *)
(*                                                                         *)
(* A packet is a record with at least                                      *)
(*   transport    the header's route type carries transport codes          *)
(*   path_len     the packed path_len field                                *)
(*   path         the path bytes in use (get_path_byte_len of them)        *)
(*   payload_len  the number of payload bytes                              *)
(* Byte contents of the payload are not modelled here.                     *)
(***************************************************************************)
EXTENDS Integers, Sequences

CONSTANTS
  PathCountMod,       \* 2^6: path_len keeps the hash count in its low 6 bits
  MAX_PATH_SIZE,      \* 64: bytes in Packet::path
  MAX_PACKET_PAYLOAD  \* 184: bytes in Packet::payload

\* The range of a uint8_t: a 2-bit hash size field above the count field.
ByteMod == 4 * PathCountMod

\* A full count of 2-byte hashes does not fit in the path array (126 > 64 in
\* the code), and the size of transmit_'s buffer in a byte (254).
ASSUME PacketConstants ==
  /\ PathCountMod \in Nat \ {0, 1}
  /\ MAX_PATH_SIZE \in Nat
  /\ MAX_PATH_SIZE < 2 * (PathCountMod - 1)
  /\ MAX_PACKET_PAYLOAD \in Nat
  /\ MAX_PATH_SIZE + MAX_PACKET_PAYLOAD + 6 < ByteMod

PATH_HASH_SIZE == 1

\* What write_to reads past the end of Packet::path: the bytes of the payload
\* that follows it in the object.
PayloadByte == -1

-----------------------------------------------------------------------------
GetPathHashSize(path_len) == (path_len \div PathCountMod) + 1

GetPathHashCount(path_len) == path_len % PathCountMod

GetPathByteLen(path_len) ==
  (GetPathHashCount(path_len) * GetPathHashSize(path_len)) % ByteMod

\* Mutant of SetPathHashCount: the count wraps around within its field.
SetPathHashCountWrap(path_len, n) ==
  path_len - GetPathHashCount(path_len) + (n % PathCountMod)

\* path_len &= ~63; path_len |= n, for the counts n <= 64 that can be asked
\* for. A count of 64 does not fit its field: the OR sets the low bit of the
\* hash size instead.
SetPathHashCount(path_len, n) ==
  LET high == path_len - GetPathHashCount(path_len)
  IN  IF n < PathCountMod THEN high + n
      ELSE IF (high \div PathCountMod) % 2 = 0 THEN high + PathCountMod
      ELSE high

IsValidPathLen(path_len) ==
  /\ GetPathHashSize(path_len) # 4
  /\ GetPathHashCount(path_len) * GetPathHashSize(path_len) <= MAX_PATH_SIZE

-----------------------------------------------------------------------------
\* The bytes of a frame in front of the path: header, transport codes, path_len.
PrefixLen(pkt) == IF pkt.transport THEN 6 ELSE 2

\* The first n bytes of the object that starts with the array `path`, of which
\* only `bytes` were ever written: the rest is zero-initialised.
PathBytes(bytes, n) ==
  [i \in 1..n |-> IF i <= Len(bytes) THEN bytes[i]
                  ELSE IF i <= MAX_PATH_SIZE THEN 0 ELSE PayloadByte]

\* get_raw_length, an int: how many bytes write_to writes.
GetRawLength(pkt) ==
  PrefixLen(pkt) + GetPathByteLen(pkt.path_len) + pkt.payload_len

\* Mutant of WriteTo: the length is not cut to a byte.
WriteToWide(pkt) == [pkt |-> pkt, len |-> GetRawLength(pkt)]

\* write_to followed by the copy of its first len bytes in transmit_. The
\* returned length is a uint8_t.
WriteTo(pkt) == [pkt |-> pkt, len |-> GetRawLength(pkt) % ByteMod]

\* write_to writes past the end of the array `buf` of transmit_.
OverrunsBuffer(pkt) ==
  GetRawLength(pkt) > 2 + MAX_PATH_SIZE + MAX_PACKET_PAYLOAD + 4

\* read_from accepts the frame.
ReadFromOk(frame) ==
  LET start == PrefixLen(frame.pkt) + GetPathByteLen(frame.pkt.path_len)
  IN  /\ IsValidPathLen(frame.pkt.path_len)
      /\ start < frame.len
      /\ frame.len - start <= MAX_PACKET_PAYLOAD

\* Mutant of ReadFrom: transport codes are taken for payload.
ReadFromNoCodes(frame) ==
  [frame.pkt EXCEPT !.payload_len =
     frame.len - 2 - GetPathByteLen(frame.pkt.path_len)]

\* The packet read_from fills in from an accepted frame.
ReadFrom(frame) ==
  [frame.pkt EXCEPT !.payload_len =
     frame.len - PrefixLen(frame.pkt) - GetPathByteLen(frame.pkt.path_len)]

-----------------------------------------------------------------------------
\* Mutant of PathFull: a path that fills its array has room for one byte more.
PathFullLate(pkt) == GetPathByteLen(pkt.path_len) > MAX_PATH_SIZE

\* The early return of maybe_relay_: no room for one more hash byte.
PathFull(pkt) ==
  GetPathByteLen(pkt.path_len) + PATH_HASH_SIZE > MAX_PATH_SIZE

\* Mutant of AppendHash: the path is not extended.
AppendHashLater(pkt, h) ==
  LET len == SetPathHashCount(pkt.path_len, GetPathHashCount(pkt.path_len) + 1)
  IN  [pkt EXCEPT !.path_len = len,
                  !.path = PathBytes(Append(pkt.path, 0), GetPathByteLen(len))]

\* maybe_relay_ appends one hash byte behind the path and advances the count by
\* one, whatever the hash size.
AppendHash(pkt, h) ==
  LET len == SetPathHashCount(pkt.path_len, GetPathHashCount(pkt.path_len) + 1)
  IN  [pkt EXCEPT !.path_len = len,
                  !.path = PathBytes(Append(pkt.path, h), GetPathByteLen(len))]
=============================================================================
