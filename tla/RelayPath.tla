------------------------------ MODULE RelayPath ------------------------------
(***************************************************************************)
(* One flood packet on a line of repeaters. Repeater 1 hears the           *)
(* originator, repeater k + 1 hears repeater k, and each runs on_packet,   *)
(* read_from, maybe_relay_ and write_to on what the one before it          *)
(* transmitted. The line is longer than any path the format can hold, so   *)
(* the packet meets every boundary of path_len. The dedup cache plays no   *)
(* part: no repeater hears the packet twice.                               *)
(***************************************************************************)
EXTENDS MeshPacket

CONSTANTS
  HashSizes,    \* hash sizes originators use (1 is what this component sends)
  PayloadLens   \* payload lengths originators use

ASSUME Originators ==
  HashSizes \subseteq 1..3 /\ PayloadLens \subseteq 0..MAX_PACKET_PAYLOAD

VARIABLES
  frame,   \* the frame on the air
  hops,    \* how many repeaters have relayed the packet
  fate,    \* "flying", "full" (maybe_relay_ gave up), "bad" (read_from did), or
           \* "crashed" (write_to wrote past its buffer)
  origin   \* the packet as its originator built it

vars == <<frame, hops, fate, origin>>

\* What an originator sends: an empty path of its hash size.
Originated ==
  [transport : BOOLEAN, payload_len : PayloadLens, path : {<<>>},
   path_len : {(size - 1) * PathCountMod : size \in HashSizes}]

Init ==
  /\ origin \in Originated
  /\ frame = WriteTo(origin)
  /\ hops = 0
  /\ fate = "flying"

\* What repeater hops + 1, whose hash byte is hops + 1, makes of the packet.
Relayed == AppendHash(ReadFrom(frame), hops + 1)

\* The repeater relays what it hears.
Relay ==
  /\ fate = "flying"
  /\ ReadFromOk(frame)
  /\ ~PathFull(ReadFrom(frame))
  /\ frame' = WriteTo(Relayed)
  /\ hops' = hops + 1
  /\ UNCHANGED <<fate, origin>>

\* write_to writes past the end of transmit_'s buffer and over what lies behind
\* it on the stack. The frame may go out all the same (Relay), or the program
\* may stop.
Overrun ==
  /\ fate = "flying"
  /\ ReadFromOk(frame)
  /\ ~PathFull(ReadFrom(frame))
  /\ OverrunsBuffer(Relayed)
  /\ fate' = "crashed"
  /\ UNCHANGED <<frame, hops, origin>>

\* on_packet returns: read_from rejects the frame.
DropBad ==
  /\ fate = "flying"
  /\ ~ReadFromOk(frame)
  /\ fate' = "bad"
  /\ UNCHANGED <<frame, hops, origin>>

\* maybe_relay_ returns: the path is full.
DropFull ==
  /\ fate = "flying"
  /\ ReadFromOk(frame)
  /\ PathFull(ReadFrom(frame))
  /\ fate' = "full"
  /\ UNCHANGED <<frame, hops, origin>>

Next == Relay \/ Overrun \/ DropBad \/ DropFull

Spec == Init /\ [][Next]_vars

-----------------------------------------------------------------------------
PacketType ==
  [transport : BOOLEAN, path_len : 0..(ByteMod - 1), path : Seq(Int),
   payload_len : Nat]

TypeOK ==
  /\ origin \in Originated
  /\ frame \in [pkt : PacketType, len : 0..(ByteMod - 1)]
  /\ hops \in Nat
  /\ fate \in {"flying", "full", "bad", "crashed"}

\* The packed path_len grows by exactly one with every relay, also where the
\* count overflows into the hash size, so no packet can be relayed more often
\* than a byte counts: this is what ends a flood that the dedup cache does not.
PathLenCountsHops == frame.pkt.path_len = origin.path_len + hops

\* The hash at the front of the i-th path entry is that of the repeater that
\* relayed the packet as the i-th of the last GetPathHashCount ones.
PathEntriesAreLatestHops ==
  LET size  == GetPathHashSize(frame.pkt.path_len)
      count == GetPathHashCount(frame.pkt.path_len)
  IN  fate = "flying" =>
        \A i \in 1..count :
          frame.pkt.path[(i - 1) * size + 1] = hops - count + i

\* Whatever the path does to the frame's length, the next repeater that can
\* read the frame finds the originator's payload behind the path.
RelayKeepsPayload ==
  ReadFromOk(frame) => ReadFrom(frame).payload_len = origin.payload_len

\* The check for one byte of room fails only packets whose hashes are longer and
\* do not divide the path array. Their last relay makes a path too long for
\* read_from, and one that transmit_ has no room for only if transport codes and
\* a payload within two bytes of the longest come together. No repeater rejects
\* any other packet that has a payload, and none breaks at it.
OnlyOddHashesOutgrow ==
  /\ fate \in {"bad", "crashed"} =>
       \/ origin.payload_len = 0
       \/ MAX_PATH_SIZE % GetPathHashSize(frame.pkt.path_len) # 0
  /\ fate = "crashed" =>
       /\ origin.transport
       /\ origin.payload_len > MAX_PACKET_PAYLOAD - 2

\* "append our own hash byte to the path": after a relay the path is the old
\* path with the repeater's hash behind it.
RelayAppendsHash ==
  [][frame'.pkt.path = Append(frame.pkt.path, hops')]_frame
=============================================================================
