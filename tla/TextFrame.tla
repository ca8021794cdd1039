------------------------------ MODULE TextFrame ------------------------------
(***************************************************************************)
(* The three packets this component originates, from the caller's text to *)
(* the trigger of a node that hears the frame: length limits, truncation,  *)
(* cipher block padding and the stripping of that padding. Keys match: the *)
(* receiver is on the channel, or is the peer, so every MAC is right.      *)
(*                                                                         *)
(* A text is its length and how many of its last bytes are NUL.            *)
(***************************************************************************)
EXTENDS MeshPacket, FiniteSetsExt

CONSTANTS
  CIPHER_BLOCK_SIZE,     \* 16
  MAX_ADVERT_DATA_SIZE,  \* 32: the longest node name in an advert
  TextLens,              \* lengths of texts and names callers use
  TrailingNuls           \* how many NULs they may end in

ASSUME TextConstants ==
  /\ CIPHER_BLOCK_SIZE \in Nat \ {0}
  /\ MAX_ADVERT_DATA_SIZE \in Nat
  /\ TextLens \in SUBSET Nat /\ TrailingNuls \in SUBSET Nat

VARIABLES
  call,   \* the call: kind of packet and text (node name for an advert)
  frame,  \* what transmit_ handed to the radio
  heard,  \* the text the receiver's trigger fired with
  phase   \* where the packet is

vars == <<call, frame, heard, phase>>

Nothing == [none |-> TRUE]

Texts == {t \in [len : TextLens, nuls : TrailingNuls] : t.nuls <= t.len}

Kinds == {"GRP_TXT", "TXT_MSG", "ADVERT"}

-----------------------------------------------------------------------------
CIPHER_MAC_SIZE == 2
TimestampLen == 4

\* pub_key, timestamp and signature in front of an advert's flags byte.
AdvertFixedLen == 32 + TimestampLen + 64

\* The hash bytes in front of the MAC: the channel's, or destination's and
\* source's.
AddressLen(kind) == IF kind = "GRP_TXT" THEN 1 ELSE 2

\* The first n bytes of a text.
Truncate(text, n) ==
  IF text.len <= n THEN text
  ELSE [len |-> n, nuls |-> Max({0, text.nuls - (text.len - n)})]

\* Mutant of CipherLen: no block for the last partial one.
CipherLenDown(n) == (n \div CIPHER_BLOCK_SIZE) * CIPHER_BLOCK_SIZE

\* aes_ecb_encrypt pads n bytes with zeros to whole blocks; aes_ecb_decrypt
\* covers n bytes with whole blocks.
CipherLen(n) ==
  ((n + CIPHER_BLOCK_SIZE - 1) \div CIPHER_BLOCK_SIZE) * CIPHER_BLOCK_SIZE

\* The bytes of the text, or name, that go into the packet.
Sent(kind, text) ==
  Truncate(text, IF kind = "ADVERT" THEN MAX_ADVERT_DATA_SIZE
                                    ELSE MAX_PACKET_PAYLOAD)

PayloadLen(kind, text) ==
  IF kind = "ADVERT" THEN AdvertFixedLen + 1 + Sent(kind, text).len
  ELSE AddressLen(kind) + CIPHER_MAC_SIZE
         + CipherLen(TimestampLen + Sent(kind, text).len)

Packet(kind, text) ==
  [transport |-> FALSE, path_len |-> 0, path |-> <<>>,
   payload_len |-> PayloadLen(kind, text), kind |-> kind,
   body |-> Sent(kind, text)]

-----------------------------------------------------------------------------
\* Mutant of Strip: the padding of the last block stays in the text.
StripNothing(text) == text

\* `while (!text.empty() && text.back() == '\0') text.pop_back()`.
Strip(text) == [len |-> text.len - text.nuls, nuls |-> 0]

\* What mac_then_decrypt puts behind the timestamp: the text that was sent and
\* the zeros it was padded with. Its result is 0 if there is nothing to decrypt.
DecryptedLen(pkt) ==
  LET src_len == pkt.payload_len - AddressLen(pkt.kind)
  IN  IF src_len <= CIPHER_MAC_SIZE THEN 0
      ELSE CipherLen(src_len - CIPHER_MAC_SIZE)

Decrypted(pkt) ==
  LET len == DecryptedLen(pkt) - TimestampLen
  IN  [len |-> len, nuls |-> len - (pkt.body.len - pkt.body.nuls)]

\* handle_advert_, handle_group_text_ and handle_direct_text_ get as far as
\* their trigger.
Accepts(pkt) ==
  IF pkt.kind = "ADVERT" THEN pkt.payload_len >= AdvertFixedLen + 1
  ELSE DecryptedLen(pkt) > TimestampLen

\* The text or name they fire it with: a name is what follows the flags byte.
Fires(pkt) ==
  IF pkt.kind = "ADVERT"
    THEN [pkt.body EXCEPT !.len = pkt.payload_len - AdvertFixedLen - 1]
    ELSE Strip(Decrypted(pkt))

-----------------------------------------------------------------------------
Init ==
  /\ call \in [kind : Kinds, text : Texts]
  /\ frame = Nothing
  /\ heard = Nothing
  /\ phase = "called"

\* send_channel_text, send_direct_text or send_advert, to the end.
Send ==
  /\ phase = "called"
  /\ frame' = WriteTo(Packet(call.kind, call.text))
  /\ phase' = "sent"
  /\ UNCHANGED <<call, heard>>

\* encrypt_then_mac writes past the end of Packet::payload and over what lies
\* behind it on the stack. The frame may go out all the same (Send), or the
\* program may stop.
Overrun ==
  /\ phase = "called"
  /\ PayloadLen(call.kind, call.text) > MAX_PACKET_PAYLOAD
  /\ phase' = "crashed"
  /\ UNCHANGED <<call, frame, heard>>

\* Mutant of Hear: the trigger does not fire.
HearSilently ==
  /\ phase = "sent"
  /\ ReadFromOk(frame)
  /\ Accepts(ReadFrom(frame))
  /\ phase' = "heard"
  /\ UNCHANGED <<call, frame, heard>>

\* on_packet of a node that hears the frame, up to the trigger.
Hear ==
  /\ phase = "sent"
  /\ ReadFromOk(frame)
  /\ Accepts(ReadFrom(frame))
  /\ heard' = Fires(ReadFrom(frame))
  /\ phase' = "heard"
  /\ UNCHANGED <<call, frame>>

\* on_packet or the handler returns before the trigger.
Drop ==
  /\ phase = "sent"
  /\ ~(ReadFromOk(frame) /\ Accepts(ReadFrom(frame)))
  /\ phase' = "dropped"
  /\ UNCHANGED <<call, frame, heard>>

Next == Send \/ Overrun \/ Hear \/ Drop

Spec == Init /\ [][Next]_vars

-----------------------------------------------------------------------------
\* The longest text whose ciphertext still fits the payload.
LongestText(kind) ==
  IF kind = "ADVERT" THEN MAX_PACKET_PAYLOAD
  ELSE ((MAX_PACKET_PAYLOAD - AddressLen(kind) - CIPHER_MAC_SIZE)
          \div CIPHER_BLOCK_SIZE) * CIPHER_BLOCK_SIZE - TimestampLen

TypeOK ==
  /\ call \in [kind : Kinds, text : Texts]
  /\ phase \in {"called", "sent", "crashed", "heard", "dropped"}
  /\ phase \in {"called", "crashed"} <=> frame = Nothing
  /\ phase = "heard" <=> heard # Nothing

\* A text that fits is not lost on the way, and no call for such a text
\* writes outside the packet.
FittingTextsArrive ==
  phase \in {"dropped", "crashed"} => call.text.len > LongestText(call.kind)

\* What a trigger fires with is what the caller passed: the whole text but for
\* trailing NULs, which padding makes indistinguishable, and for a name cut at
\* its limit.
HeardIsSent ==
  phase = "heard" =>
    heard = IF call.kind = "ADVERT"
              THEN Truncate(call.text, MAX_ADVERT_DATA_SIZE)
              ELSE Strip(call.text)

\* "messages I encrypt, I can decrypt" (README).
MessagesDecrypt == phase # "dropped"
=============================================================================
