----------------------------- MODULE MCMeshCore -----------------------------
EXTENDS MeshCore

Public == [name |-> "public", psk |-> "p1"]
Local == [name |-> "local", psk |-> "p2"]

MCChannelHash == ("p1" :> 7) @@ ("p2" :> 7)

MessageText(text) == [send |-> "message", text |-> text]
ChannelText(text) == [send |-> "channel_text", channel |-> "public", text |-> text]
Advert == [send |-> "advert"]

\* A node with key k, or none, that answers and sends nothing.
Quiet(k, peer, channels) ==
  [public_key |-> k, private_key |-> k, peer_public_key |-> peer, repeater |-> FALSE,
   channels |-> channels, on |-> [t \in TriggerNames |-> {}], press |-> {}]

\* Three nodes in a line. a and b are each other's peers, out of each other's
\* range; r relays between them. b's hash byte is r's, whose peer is a as well,
\* and r's channel "local" has the hash of its second channel "public". b
\* answers its peer, r answers whoever writes on the channel by a message.
Line == {"a", "r", "b"}
LineNeighbours == [n \in Line |-> IF n = "r" THEN {"a", "b"} ELSE {"r"}]
LineHashByte == ("none" :> 0) @@ ("ka" :> 1) @@ ("kb" :> 2) @@ ("kr" :> 2)
LinePrvByte == ("none" :> 0) @@ ("ka" :> 1) @@ ("kb" :> 0) @@ ("kr" :> 1)
LineConfig ==
  ("a" :> [Quiet({"ka"}, {"kb"}, <<Public>>) EXCEPT
             !.press = {MessageText("hi"), ChannelText("hi")}])
  @@ ("b" :> [Quiet({"kb"}, {"ka"}, <<Public>>) EXCEPT !.on["on_message"] = {MessageText("ok")}])
  @@ ("r" :> [Quiet({"kr"}, {"ka"}, <<Local, Public>>) EXCEPT
                !.repeater = TRUE, !.press = {Advert},
                !.on["on_channel_message"] = {MessageText("ok")}])

\* The line with one hash byte for a and its peer b.
EchoHashByte == [LineHashByte EXCEPT !["kb"] = 1]
EchoConfig == [LineConfig EXCEPT !["r"].press = {}]

\* Two islands, of which one packet comes from either. On the diamond there are
\* two ways from a to b, over r1 and over r2, which hear each other as well. On
\* the triangle there are two from c to d, over s and none; d answers c and
\* relays, too.
Diamond == {"a", "r1", "r2", "b"}
Triangle == {"c", "s", "d"}
Islands == Diamond \cup Triangle
IslandNeighbours ==
  [n \in Islands |-> CASE n \in {"a", "b"} -> {"r1", "r2"}
                       [] n \in {"r1", "r2"} -> Diamond \ {n}
                       [] n \in Triangle -> Triangle \ {n}]
IslandHashByte ==
  ("none" :> 0) @@ ("ka" :> 1) @@ ("kb" :> 2) @@ ("k1" :> 3) @@ ("k2" :> 4)
    @@ ("kc" :> 5) @@ ("kd" :> 6) @@ ("ks" :> 7)
IslandConfig ==
  ("a" :> [Quiet({"ka"}, {"kb"}, <<Public>>) EXCEPT
             !.press = {MessageText("hi"), ChannelText("hi")}])
  @@ ("b" :> Quiet({"kb"}, {"ka"}, <<Public>>))
  @@ ("r1" :> [Quiet({"k1"}, {}, <<>>) EXCEPT !.repeater = TRUE])
  @@ ("r2" :> [Quiet({"k2"}, {}, <<Public>>) EXCEPT !.repeater = TRUE])
  @@ ("c" :> [Quiet({"kc"}, {"kd"}, <<Local>>) EXCEPT !.press = {MessageText("hi")}])
  @@ ("d" :> [Quiet({"kd"}, {"kc"}, <<Local>>) EXCEPT
                !.repeater = TRUE, !.on["on_message"] = {MessageText("ok")}])
  @@ ("s" :> [Quiet({"ks"}, {}, <<Local>>) EXCEPT !.repeater = TRUE])

\* Two nodes in range of each other: x has a public key that begins with a
\* zero byte, y has no identity configured.
Two == {"x", "y"}
TwoNeighbours == [n \in Two |-> Two \ {n}]
TwoHashByte == ("none" :> 0) @@ ("kx" :> 0) @@ ("e1" :> 2) @@ ("e2" :> 3)
TwoPrvByte == ("none" :> 0) @@ ("kx" :> 5) @@ ("e1" :> 0) @@ ("e2" :> 1)
TwoConfig ==
  ("x" :> [Quiet({"kx"}, {}, <<>>) EXCEPT !.repeater = TRUE])
  @@ ("y" :> [Quiet({}, {"kx"}, <<Public>>) EXCEPT
                !.repeater = TRUE,
                !.press = {Advert, MessageText("hi"), ChannelText("hi")}])

Foreign(type, flood, path_len) ==
  [type |-> type, payload |-> [foreign |-> type], flood |-> flood,
   transport |-> ~flood, path_len |-> path_len, path |-> <<>>, payload_len |-> 1]

\* A traced flood, a packet on a direct route, and one with 3-byte hashes.
MCForeign ==
  {[to |-> {"x"}, pkt |-> Foreign("TRACE", TRUE, 0)],
   [to |-> {"x"}, pkt |-> Foreign("ACK", FALSE, 0)],
   [to |-> {"y"}, pkt |-> Foreign("REQ", TRUE, 2 * PathCountMod)]}
=============================================================================
