--------------------------- MODULE TextFrameProofs ---------------------------
(***************************************************************************)
(* With the sizes of the code, texts of every length and with any number of*)
(* trailing NULs arrive unchanged or not at all, and those that fit do     *)
(* arrive.                                                                 *)
(***************************************************************************)
EXTENDS TextFrame, TLAPS

\* The sizes in mc_packet.h. A text of any length is cut at 184 bytes, so no
\* length of a frame wraps around.
RealSizes ==
  /\ PathCountMod = 64 /\ MAX_PATH_SIZE = 64 /\ MAX_PACKET_PAYLOAD = 184
  /\ CIPHER_BLOCK_SIZE = 16 /\ MAX_ADVERT_DATA_SIZE = 32

\* What is on the air is what write_to made of the call, and each outcome has
\* its reason.
IInv ==
  /\ TypeOK
  /\ phase \in {"sent", "heard", "dropped"} => frame = WriteTo(Packet(call.kind, call.text))
  /\ phase = "heard" =>
       /\ heard = Fires(ReadFrom(frame))
       /\ ReadFromOk(frame)
  /\ phase = "dropped" => ~(ReadFromOk(frame) /\ Accepts(ReadFrom(frame)))
  /\ phase = "crashed" => PayloadLen(call.kind, call.text) > MAX_PACKET_PAYLOAD

-----------------------------------------------------------------------------
\* Whole blocks: the least multiple of 16 that is not below n.
LEMMA WholeBlocks ==
  ASSUME RealSizes, NEW n \in Nat
  PROVE  /\ CipherLen(n) = ((n + 15) \div 16) * 16
         /\ CipherLen(n) \in Nat /\ n <= CipherLen(n) /\ CipherLen(n) < n + 16
         /\ CipherLen(CipherLen(n)) = CipherLen(n)
         /\ \A m \in Nat : CipherLen(n) <= 16 * m <=> n <= 16 * m
<1>1. \A k \in Int : CipherLen(k) = ((k + 15) \div 16) * 16
  BY SMT DEF CipherLen, RealSizes
<1> DEFINE b == (n + 15) \div 16
<1>2. b \in Nat /\ n <= 16 * b /\ 16 * b < n + 16
  BY SMT
<1>3. CipherLen(n) = 16 * b
  BY <1>1, SMT
<1> HIDE DEF b
<1>4. CipherLen(16 * b) = 16 * b
  <2>1. (16 * b + 15) \div 16 = b
    BY <1>2, SMT
  <2> QED BY <1>1, <1>2, <2>1, SMT
<1> QED BY <1>1, <1>2, <1>3, <1>4, SMT

\* What Truncate leaves of a text.
LEMMA Truncated ==
  ASSUME NEW t \in [len : Nat, nuls : Nat], t.nuls <= t.len, NEW n \in Nat
  PROVE  /\ Truncate(t, n) \in [len : Nat, nuls : Int]
         /\ Truncate(t, n).len <= n /\ Truncate(t, n).len <= t.len
         /\ t.len <= n => Truncate(t, n) = t
         /\ t.len > n => Truncate(t, n).len = n
<1>1. CASE t.len <= n
  BY <1>1, SMT DEF Truncate
<1>2. CASE t.len > n
  <2> DEFINE d == t.nuls - (t.len - n)
  <2>1. Max({0, d}) = IF d > 0 THEN d ELSE 0
    <3>1. d \in Int
      BY SMT
    <3> HIDE DEF d
    <3> DEFINE m == IF d > 0 THEN d ELSE 0
    <3>2. m \in {0, d} /\ \A y \in {0, d} : m >= y
      BY <3>1, SMT
    <3>3. \A x \in {0, d} : (\A y \in {0, d} : x >= y) => x = m
      BY <3>1, SMT
    <3> QED BY <3>2, <3>3 DEF Max
  <2> QED BY <1>2, <2>1, SMT DEF Truncate
<1> QED BY <1>1, <1>2, SMT

\* The lengths of the three kinds of frame.
LEMMA FrameLengths ==
  ASSUME RealSizes, NEW kind \in Kinds, NEW text \in Texts
  PROVE  LET len == PayloadLen(kind, text)
             f   == WriteTo(Packet(kind, text))
         IN  /\ Sent(kind, text) = Truncate(text, IF kind = "ADVERT" THEN 32 ELSE 184)
             /\ kind = "ADVERT" => len = 101 + Sent(kind, text).len
             /\ kind # "ADVERT" =>
                  len = AddressLen(kind) + 2 + CipherLen(4 + Sent(kind, text).len)
             /\ len \in 1..200
             /\ f.pkt = Packet(kind, text)
             /\ f.len = 2 + len
             /\ ReadFromOk(f) <=> len <= 184
             /\ ReadFrom(f) = Packet(kind, text)
<1> DEFINE sent == Sent(kind, text)
           len == PayloadLen(kind, text)
           f == WriteTo(Packet(kind, text))
<1>1. text \in [len : Nat, nuls : Nat] /\ text.nuls <= text.len
  BY TextConstants DEF Texts
<1>2. sent = Truncate(text, IF kind = "ADVERT" THEN 32 ELSE 184)
  BY DEF Sent, RealSizes
<1>3. sent.len \in Nat /\ sent.len <= (IF kind = "ADVERT" THEN 32 ELSE 184)
  BY <1>1, <1>2, Truncated, SMT
<1> HIDE DEF sent
<1>4. kind = "ADVERT" => len = 101 + sent.len
  BY <1>3, SMT DEF PayloadLen, AdvertFixedLen, TimestampLen, sent
<1>5. kind # "ADVERT" => len = AddressLen(kind) + 2 + CipherLen(4 + sent.len)
  BY DEF PayloadLen, CIPHER_MAC_SIZE, TimestampLen, sent
<1>6. kind # "ADVERT" => CipherLen(4 + sent.len) \in Nat /\ CipherLen(4 + sent.len) <= 192
  <2>1. 4 + sent.len \in Nat
    BY <1>3, SMT
  <2>2. /\ CipherLen(4 + sent.len) \in Nat
        /\ \A m \in Nat : CipherLen(4 + sent.len) <= 16 * m <=> 4 + sent.len <= 16 * m
    BY <2>1, WholeBlocks
  <2>3. CipherLen(4 + sent.len) <= 16 * 12 <=> 4 + sent.len <= 16 * 12
    BY <2>2
  <2> QED BY <1>3, <2>2, <2>3, SMT
<1>7. len \in 1..200
  <2>1. CASE kind = "ADVERT"
    BY <1>3, <1>4, <2>1, SMT
  <2>2. CASE kind # "ADVERT"
    BY <1>5, <1>6, <2>2, SMT DEF AddressLen
  <2> QED BY <2>1, <2>2
<1>8. GetPathByteLen(0) = 0 /\ IsValidPathLen(0)
  BY SMT DEF GetPathByteLen, GetPathHashCount, GetPathHashSize, ByteMod, IsValidPathLen,
             RealSizes
<1>9. /\ f.pkt = Packet(kind, text)
      /\ f.pkt.path_len = 0 /\ ~f.pkt.transport /\ f.pkt.payload_len = len
  BY DEF WriteTo, GetRawLength, Packet
<1> HIDE DEF len
<1>10. f.len = 2 + len
  <2>1. f.len = (2 + 0 + len) % 256
    BY <1>8, SMT DEF WriteTo, GetRawLength, Packet, PrefixLen, ByteMod, RealSizes, len
  <2> QED BY <1>7, <2>1, SMT
<1> HIDE DEF f
<1>11. PrefixLen(f.pkt) = 2
  BY <1>9 DEF PrefixLen
<1>12. ReadFromOk(f) <=> len <= 184
  BY <1>7, <1>8, <1>9, <1>10, <1>11, SMT DEF ReadFromOk, RealSizes
<1>13. ReadFrom(f) = Packet(kind, text)
  <2>1. ReadFrom(f) = [f.pkt EXCEPT !.payload_len = len]
    BY <1>7, <1>8, <1>9, <1>10, <1>11, SMT DEF ReadFrom
  <2>2. [Packet(kind, text) EXCEPT !.payload_len = len] = Packet(kind, text)
    <3>1. Packet(kind, text) =
            [transport |-> FALSE, path_len |-> 0, path |-> <<>>, payload_len |-> len,
             kind |-> kind, body |-> sent]
      BY DEF Packet, len, sent
    <3>2. Packet(kind, text) \in
            [transport : BOOLEAN, path_len : Nat, path : {<<>>}, payload_len : Nat,
             kind : Kinds, body : {sent}]
      BY <1>7, <3>1, SMT
    <3>3. Packet(kind, text).payload_len = len
      BY <3>1
    <3> QED BY <3>2, <3>3
  <2> QED BY <1>9, <2>1, <2>2
<1> QED BY <1>2, <1>4, <1>5, <1>7, <1>9, <1>10, <1>12, <1>13 DEF f, len, sent

\* What becomes of an accepted frame.
LEMMA FiresWith ==
  ASSUME RealSizes, NEW kind \in Kinds, NEW text \in Texts,
         PayloadLen(kind, text) <= 184
  PROVE  /\ Accepts(Packet(kind, text))
         /\ Fires(Packet(kind, text)) =
              IF kind = "ADVERT" THEN Truncate(text, 32) ELSE Strip(text)
<1> DEFINE sent == Sent(kind, text)
           pkt == Packet(kind, text)
           c == CipherLen(4 + sent.len)
<1>1. text \in [len : Nat, nuls : Nat] /\ text.nuls <= text.len
  BY TextConstants DEF Texts
<1>2. /\ sent = Truncate(text, IF kind = "ADVERT" THEN 32 ELSE 184)
      /\ kind = "ADVERT" => PayloadLen(kind, text) = 101 + sent.len
      /\ kind # "ADVERT" => PayloadLen(kind, text) = AddressLen(kind) + 2 + c
  BY FrameLengths
<1>3. sent \in [len : Nat, nuls : Int]
  BY <1>1, <1>2, Truncated
<1>4. pkt.kind = kind /\ pkt.payload_len = PayloadLen(kind, text) /\ pkt.body = sent
  BY DEF Packet
<1> HIDE DEF sent, pkt
<1>5. CASE kind = "ADVERT"
  <2>1. Accepts(pkt)
    BY <1>2, <1>3, <1>4, <1>5, SMT DEF Accepts, AdvertFixedLen, TimestampLen
  <2>2. Fires(pkt) = sent
    BY <1>2, <1>3, <1>4, <1>5, SMT DEF Fires, AdvertFixedLen, TimestampLen
  <2> QED BY <1>2, <1>5, <2>1, <2>2 DEF pkt
<1>6. CASE kind # "ADVERT"
  <2>1. 4 + sent.len \in Nat
    BY <1>3, SMT
  <2>2. /\ c \in Nat /\ 4 + sent.len <= c /\ CipherLen(c) = c
        /\ \A m \in Nat : c <= 16 * m <=> 4 + sent.len <= 16 * m
    BY <2>1, WholeBlocks
  <2> HIDE DEF c
  <2>3. c <= 176
    <3>1. c <= 16 * 12 - 11
      BY <1>2, <1>6, <2>2, SMT DEF AddressLen
    <3>2. \E b \in Nat : c = 16 * b
      <4>1. c = ((4 + sent.len + 15) \div 16) * 16
        BY <2>1, WholeBlocks DEF c
      <4> QED BY <2>1, <4>1, SMT
    <3> QED BY <3>1, <3>2, SMT
  <2>4. sent = text
    <3>1. c <= 16 * 11 <=> 4 + sent.len <= 16 * 11
      BY <2>2
    <3>2. sent.len <= 172
      BY <1>3, <2>3, <3>1, SMT
    <3> QED BY <1>1, <1>2, <1>6, <3>2, Truncated, SMT
  <2>5. DecryptedLen(pkt) = c
    BY <1>2, <1>4, <1>6, <2>1, <2>2, SMT DEF DecryptedLen, CIPHER_MAC_SIZE, AddressLen
  <2>6. Accepts(pkt)
    <3>1. c > 4
      <4>1. c <= 16 * 0 <=> 4 + sent.len <= 16 * 0
        BY <2>2
      <4>2. \E b \in Nat : c = 16 * b
        <5>1. c = ((4 + sent.len + 15) \div 16) * 16
          BY <2>1, WholeBlocks DEF c
        <5> QED BY <2>1, <5>1, SMT
      <4> QED BY <1>3, <2>2, <4>1, <4>2, SMT
    <3> QED BY <1>4, <1>6, <2>5, <3>1 DEF Accepts, TimestampLen
  <2>7. Fires(pkt) = [len |-> text.len - text.nuls, nuls |-> 0]
    BY <1>1, <1>4, <1>6, <2>2, <2>4, <2>5, SMT DEF Fires, Strip, Decrypted, TimestampLen
  <2> QED BY <1>6, <2>6, <2>7 DEF Strip, pkt
<1> QED BY <1>5, <1>6

-----------------------------------------------------------------------------
\* A frame, or a text that was heard, is not Nothing.
LEMMA Something ==
  /\ \A pkt : WriteTo(pkt) # Nothing
  /\ \A t \in [len : Nat, nuls : Int] : t # Nothing
<1>1. DOMAIN Nothing = {"none"}
  BY DEF Nothing
<1>2. \A pkt : DOMAIN WriteTo(pkt) = {"pkt", "len"}
  BY DEF WriteTo
<1>3. \A t \in [len : Nat, nuls : Int] : DOMAIN t = {"len", "nuls"}
  OBVIOUS
<1>4. "none" \notin {"pkt", "len"} /\ "none" \notin {"len", "nuls"}
  OBVIOUS
<1> QED BY <1>1, <1>2, <1>3, <1>4

\* Initially nothing has been sent.
LEMMA InitIInv == Init => IInv
BY DEF Init, IInv, TypeOK

\* Every step of a packet's way keeps the reasons.
LEMMA NextIInv == RealSizes /\ IInv /\ [Next]_vars => IInv'
<1> SUFFICES ASSUME RealSizes, IInv, [Next]_vars PROVE IInv'
  OBVIOUS
<1>1. call.kind \in Kinds /\ call.text \in Texts
  BY DEF IInv, TypeOK
<1>2. CASE Send
  BY <1>2, Something DEF Send, IInv, TypeOK
<1>3. CASE Overrun
  BY <1>3 DEF Overrun, IInv, TypeOK
<1>4. CASE Hear
  <2>1. /\ frame = WriteTo(Packet(call.kind, call.text))
        /\ ReadFromOk(frame) /\ phase' = "heard" /\ phase = "sent"
        /\ heard' = Fires(ReadFrom(frame)) /\ frame' = frame /\ call' = call
    BY <1>4 DEF Hear, IInv
  <2>2. /\ PayloadLen(call.kind, call.text) <= 184
        /\ ReadFrom(frame) = Packet(call.kind, call.text)
    BY <1>1, <2>1, FrameLengths
  <2>3. heard' = IF call.kind = "ADVERT" THEN Truncate(call.text, 32) ELSE Strip(call.text)
    BY <1>1, <2>1, <2>2, FiresWith
  <2>4. heard' \in [len : Nat, nuls : Int]
    <3>1. call.text \in [len : Nat, nuls : Nat] /\ call.text.nuls <= call.text.len
      BY <1>1, TextConstants DEF Texts
    <3>2. Truncate(call.text, 32) \in [len : Nat, nuls : Int]
      BY <3>1, Truncated
    <3>3. Strip(call.text) \in [len : Nat, nuls : Int]
      BY <3>1, SMT DEF Strip
    <3> QED BY <2>3, <3>2, <3>3
  <2> QED BY <2>1, <2>4, Something DEF IInv, TypeOK
<1>5. CASE Drop
  BY <1>5 DEF Drop, IInv, TypeOK
<1>6. CASE UNCHANGED vars
  BY <1>6 DEF vars, IInv, TypeOK
<1> QED BY <1>2, <1>3, <1>4, <1>5, <1>6 DEF Next

-----------------------------------------------------------------------------
\* A trigger fires with a text exactly when the frame was heard.
THEOREM FrameTypeOK ==
  ASSUME RealSizes
  PROVE  Spec => []TypeOK
<1>1. IInv => TypeOK
  BY DEF IInv
<1> QED BY <1>1, InitIInv, NextIInv, PTL DEF Spec

\* Texts that are lost, or overrun the packet, are longer than what fits: 172
\* bytes of text; a name always fits.
THEOREM FittingArrive ==
  ASSUME RealSizes
  PROVE  Spec => []FittingTextsArrive
<1>1. IInv => FittingTextsArrive
  <2> SUFFICES ASSUME IInv, phase \in {"dropped", "crashed"}
               PROVE  call.text.len > LongestText(call.kind)
    BY DEF FittingTextsArrive
  <2> DEFINE kind == call.kind
             text == call.text
             sent == Sent(kind, text)
  <2>1. kind \in Kinds /\ text \in Texts
    BY DEF IInv, TypeOK
  <2>2. text \in [len : Nat, nuls : Nat] /\ text.nuls <= text.len
    BY <2>1, TextConstants DEF Texts
  <2>3. PayloadLen(kind, text) > 184
    <3>1. CASE phase = "crashed"
      BY <3>1 DEF IInv, RealSizes
    <3>2. CASE phase = "dropped"
      <4>1. /\ frame = WriteTo(Packet(kind, text))
            /\ ~(ReadFromOk(frame) /\ Accepts(ReadFrom(frame)))
        BY <3>2 DEF IInv
      <4>2. /\ ReadFromOk(frame) <=> PayloadLen(kind, text) <= 184
            /\ ReadFrom(frame) = Packet(kind, text)
            /\ PayloadLen(kind, text) \in 1..200
        BY <2>1, <4>1, FrameLengths
      <4>3. PayloadLen(kind, text) <= 184 => Accepts(Packet(kind, text))
        BY <2>1, FiresWith
      <4> QED BY <4>1, <4>2, <4>3, SMT
    <3> QED BY <3>1, <3>2
  <2>4. /\ sent = Truncate(text, IF kind = "ADVERT" THEN 32 ELSE 184)
        /\ kind = "ADVERT" => PayloadLen(kind, text) = 101 + sent.len
        /\ kind # "ADVERT" =>
             PayloadLen(kind, text) = AddressLen(kind) + 2 + CipherLen(4 + sent.len)
    BY <2>1, FrameLengths
  <2>5. sent.len \in Nat /\ sent.len <= text.len /\ (kind = "ADVERT" => sent.len <= 32)
    BY <2>2, <2>4, Truncated, SMT
  <2> HIDE DEF sent
  <2>6. kind # "ADVERT"
    BY <2>3, <2>4, <2>5, SMT
  <2>7. CipherLen(4 + sent.len) > 176
    <3>1. 4 + sent.len \in Nat
      BY <2>5, SMT
    <3>2. CipherLen(4 + sent.len) \in Nat
      BY <3>1, WholeBlocks
    <3> QED BY <2>3, <2>4, <2>6, <3>2, SMT DEF AddressLen
  <2>8. sent.len > 172
    <3>1. 4 + sent.len \in Nat
      BY <2>5, SMT
    <3>2. /\ CipherLen(4 + sent.len) \in Nat
          /\ \A m \in Nat : CipherLen(4 + sent.len) <= 16 * m <=> 4 + sent.len <= 16 * m
      BY <3>1, WholeBlocks
    <3>3. CipherLen(4 + sent.len) <= 16 * 11 <=> 4 + sent.len <= 16 * 11
      BY <3>2
    <3> QED BY <2>5, <2>7, <3>2, <3>3, SMT
  <2>9. LongestText(kind) = 172
    BY <2>6, SMT DEF LongestText, AddressLen, CIPHER_MAC_SIZE, TimestampLen, RealSizes
  <2> QED BY <2>2, <2>5, <2>8, <2>9, SMT
<1> QED BY <1>1, InitIInv, NextIInv, PTL DEF Spec

\* What is heard is what was sent, but for trailing NULs and the cut of a name.
THEOREM HeardAsSent ==
  ASSUME RealSizes
  PROVE  Spec => []HeardIsSent
<1>1. IInv => HeardIsSent
  <2> SUFFICES ASSUME IInv, phase = "heard"
               PROVE  heard = IF call.kind = "ADVERT"
                                THEN Truncate(call.text, MAX_ADVERT_DATA_SIZE)
                                ELSE Strip(call.text)
    BY DEF HeardIsSent
  <2>1. call.kind \in Kinds /\ call.text \in Texts
    BY DEF IInv, TypeOK
  <2>2. /\ frame = WriteTo(Packet(call.kind, call.text))
        /\ ReadFromOk(frame) /\ heard = Fires(ReadFrom(frame))
    BY DEF IInv
  <2>3. /\ PayloadLen(call.kind, call.text) <= 184
        /\ ReadFrom(frame) = Packet(call.kind, call.text)
    BY <2>1, <2>2, FrameLengths
  <2> QED BY <2>1, <2>2, <2>3, FiresWith DEF RealSizes
<1> QED BY <1>1, InitIInv, NextIInv, PTL DEF Spec
=============================================================================
