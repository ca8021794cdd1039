------------------------------ MODULE MeshCore ------------------------------
(***************************************************************************)
(* A mesh of nodes that run MeshCoreComponent: adverts, channel texts and  *)
(* messages to the peer are originated, flooded over the radio, dropped as *)
(* duplicates, handled and relayed, while frames get lost, nodes reboot    *)
(* and time passes.                                                        *)
(*                                                                         *)
(* A node runs one loop. What on_packet does is one step, up to the        *)
(* delay() in front of the relay's transmission: there the node is blocked *)
(* while the others go on. Everything else a node does is one step. A      *)
(* trigger plays its automation at once, so what that sends is on the air  *)
(* before the relay of the packet that fired the trigger.                  *)
(*                                                                         *)
(* Cryptography is ideal: a key pair is one value, a shared secret is the  *)
(* set of the two key pairs it is agreed between, and a MAC or a signature *)
(* is right only under the right key.                                      *)
(***************************************************************************)
EXTENDS MeshPacket, SeenCacheOps, SequencesExt

CONSTANTS
  Nodes,
  Neighbours,       \* [Nodes -> SUBSET Nodes]: who hears a node's radio
  NoKey,            \* the 32 zero bytes of a key that was never set
  HashByte,         \* first byte of each public key; 0 for NoKey
  PrvByte,          \* first byte of each private key; 0 for NoKey
  EphemeralKeys,    \* key pairs generate_from_seed comes up with
  Config,           \* [Nodes -> Yaml]: the configuration in the firmware image
  ChannelHash,      \* first byte of SHA256(psk)
  ForeignPackets,   \* packets of other firmware, and who hears them:
                    \* [to : SUBSET Nodes, pkt : packet]
  TicksPerSecond,
  MaxClock,         \* bound on the clock
  MaxSends,         \* bound on the packets originated but in answer to others
  Unstable,         \* nodes that may reboot
  MaxFaults         \* bound on frames lost, transmissions failed and reboots

VARIABLES
  clock,       \* ticks of millis(), for all nodes
  booted,      \* when each node last booted
  ready,       \* setup() has run, or will change nothing here when it does
  identity,    \* identity_
  seen_cache,  \* seen_cache_
  relaying,    \* the packet a node waits in delay() to transmit, if any
  air,         \* frames that are still to be received, by one node each
  sent,        \* history: the messages originated
  fired,       \* history: the triggers fired, with clock and boot
  boots,       \* reboots of each node
  sends,       \* packets originated but in answer to others
  faults       \* frames lost, transmissions failed and reboots

node == <<booted, ready, identity, boots>>
vars == <<clock, node, seen_cache, relaying, air, sent, fired, sends, faults>>

-----------------------------------------------------------------------------
Keys == DOMAIN HashByte
TriggerNames == {"on_message", "on_channel_message", "on_advert"}

Action ==
  [send : {"message"}, text : STRING]
    \cup [send : {"channel_text"}, channel : STRING, text : STRING]
    \cup [send : {"advert"}]

\* The options of CONFIG_SCHEMA; one without a default is a set of at most one
\* value. `on` holds the actions of the automations of the three triggers,
\* `press` those that other components' automations play, a button's say.
Yaml ==
  [public_key : SUBSET Keys, private_key : SUBSET Keys, peer_public_key : SUBSET Keys,
   repeater : BOOLEAN,
   channels : Seq([name : STRING, psk : DOMAIN ChannelHash]),
   on : [TriggerNames -> SUBSET Action], press : SUBSET Action]

Optional(values, default) ==
  IF values = {} THEN default ELSE CHOOSE v \in values : TRUE

\* What to_code passes to the component: set_identity only with both keys.
Configured ==
  [n \in Nodes |-> [pub |-> Optional(Config[n].public_key, NoKey),
                    prv |-> Optional(Config[n].private_key, NoKey)]]
Peer == [n \in Nodes |-> Optional(Config[n].peer_public_key, NoKey)]
Channels == [n \in Nodes |-> Config[n].channels]
Repeaters == {n \in Nodes : Config[n].repeater}

\* Code generation fails for one key without the other.
ASSUME ConfigValid ==
  /\ Config \in [Nodes -> Yaml]
  /\ \A n \in Nodes : Config[n].public_key = {} <=> Config[n].private_key = {}

\* A configuration is finite; a packet of another firmware has the fields of
\* Packet.
ASSUME MeshConstants ==
  /\ \A n \in Nodes :
       /\ IsFiniteSet(Config[n].peer_public_key)
       /\ \A t \in TriggerNames : IsFiniteSet(Config[n].on[t])
  /\ HashByte \in [Keys -> Nat]
  /\ NoKey \in Keys /\ EphemeralKeys \subseteq Keys
  /\ Neighbours \in [Nodes -> SUBSET Nodes]
  /\ \A p \in ForeignPackets :
       /\ p.to \subseteq Nodes
       /\ {"type", "payload", "flood", "path_len", "path"} \subseteq DOMAIN p.pkt
       /\ p.pkt.path_len \in 0..(ByteMod - 1)
       /\ p.pkt.path \in Seq(Nat)
  /\ {MaxClock, MaxSends, MaxFaults} \subseteq Nat

-----------------------------------------------------------------------------
Uptime(n) == clock - booted[n]
Millis(n) == Uptime(n) % MillisMod
Timestamp(n) == Millis(n) \div TicksPerSecond

\* Mutant of LooksUnset: one zero byte is enough.
LooksUnsetByOne(id) == HashByte[id.pub] = 0 \/ PrvByte[id.prv] = 0

\* How setup() tells that no identity was configured.
LooksUnset(id) == HashByte[id.pub] = 0 /\ PrvByte[id.prv] = 0

\* A message as its sender means it and as a trigger presents it: `to` is the
\* addressee's public key, or the psk of the channel.
Message(on, from, to, text, ts) ==
  [on |-> on, from |-> from, to |-> to, text |-> text, ts |-> ts]

FloodPacket(type, payload) ==
  [type |-> type, payload |-> payload, flood |-> TRUE, transport |-> FALSE,
   path_len |-> 0, path |-> <<>>, payload_len |-> 1]

\* One frame on the air for every node in range; `from` is not on the wire.
Broadcast(n, pkt) ==
  {[to |-> m, from |-> n, frame |-> WriteTo(pkt)] : m \in Neighbours[n]}

\* find_channel_, by hash byte and by name: the first match of node n's list,
\* as a set of at most one channel.
FirstChannel(n, found) == IF found = {} THEN {} ELSE {Channels[n][Min(found)]}

FindChannelByHash(n, hash) ==
  FirstChannel(n, {i \in DOMAIN Channels[n] : ChannelHash[Channels[n][i].psk] = hash})

FindChannelByName(n, name) ==
  FirstChannel(n, {i \in DOMAIN Channels[n] : Channels[n][i].name = name})

-----------------------------------------------------------------------------
Init ==
  /\ clock = 0
  /\ booted = [n \in Nodes |-> 0]
  /\ ready = [n \in Nodes |-> ~LooksUnset(Configured[n])]
  /\ identity = Configured
  /\ seen_cache = [n \in Nodes |-> {}]
  /\ relaying = [n \in Nodes |-> {}]
  /\ air = {}
  /\ sent = {}
  /\ fired = [n \in Nodes |-> <<>>]
  /\ boots = [n \in Nodes |-> 0]
  /\ sends = 0
  /\ faults = 0

\* setup(), as far as it generates an identity. The radio may have delivered
\* packets before. The advert timer is in module AdvertTimer.
Setup(n) ==
  /\ ~ready[n]
  /\ ready' = [ready EXCEPT ![n] = TRUE]
  /\ \E k \in EphemeralKeys :
       identity' = [identity EXCEPT ![n] = [pub |-> k, prv |-> k]]
  /\ UNCHANGED <<clock, booted, boots, seen_cache, relaying, air, sent, fired,
                 sends, faults>>

\* What the send functions hand to transmit_, and the message it stands for:
\* a set of at most one, empty where they return before.
AdvertOut(n) ==
  LET id == identity[n] IN
  {[pkt |-> FloodPacket("ADVERT", [pub |-> id.pub, sig |-> id, ts |-> Timestamp(n)]),
    msg |-> Message("on_advert", id.pub, "all", "name", Timestamp(n))]}

ChannelTextOut(n, name, text) ==
  {[pkt |-> FloodPacket("GRP_TXT", [hash |-> ChannelHash[c.psk], key |-> c.psk,
                                    text |-> text, ts |-> Timestamp(n)]),
    msg |-> Message("on_channel_message", "member", c.psk, text, Timestamp(n))] :
   c \in FindChannelByName(n, name)}

\* send_message is send_direct_text to the peer, if there is one.
MessageOut(n, text) ==
  LET id == identity[n] IN
  {[pkt |-> FloodPacket("TXT_MSG", [dest |-> HashByte[k], src |-> HashByte[id.pub],
                                    key |-> {id.prv, k}, text |-> text,
                                    ts |-> Timestamp(n)]),
    msg |-> Message("on_message", id.pub, k, text, Timestamp(n))] :
   k \in Config[n].peer_public_key}

\* The three actions of automations.
Play(n, action) ==
  CASE action.send = "message"      -> MessageOut(n, action.text)
    [] action.send = "channel_text" -> ChannelTextOut(n, action.channel, action.text)
    [] action.send = "advert"       -> AdvertOut(n)

\* A packet leaves a node whose loop is free. The node does not enter it in
\* its own cache.
Send(n, out) ==
  /\ ready[n]
  /\ relaying[n] = {}
  /\ sends < MaxSends
  /\ air' = air \cup Broadcast(n, out.pkt)
  /\ sent' = sent \cup {out.msg}
  /\ sends' = sends + 1
  /\ UNCHANGED <<clock, node, seen_cache, relaying, fired, faults>>

\* transmit_ returns false: nobody sends the packet again.
SendFails(n) ==
  /\ ready[n]
  /\ relaying[n] = {}
  /\ sends < MaxSends
  /\ faults < MaxFaults
  /\ sends' = sends + 1
  /\ faults' = faults + 1
  /\ UNCHANGED <<clock, node, seen_cache, relaying, air, sent, fired>>

\* Another firmware's packet reaches its hearers.
ForeignSend(p) ==
  /\ sends < MaxSends
  /\ air' = air \cup {[to |-> n, from |-> n, frame |-> WriteTo(p.pkt)] : n \in p.to}
  /\ sends' = sends + 1
  /\ UNCHANGED <<clock, node, seen_cache, relaying, sent, fired, faults>>

-----------------------------------------------------------------------------
\* Mutant of PacketHash: of the payload all but the time stamp counts.
PacketHashTimeless(pkt) ==
  [type |-> pkt.type, payload |-> [pkt.payload EXCEPT !.ts = 0],
   path_len |-> IF pkt.type = "TRACE" THEN pkt.path_len ELSE 0]

\* The dedup hash. path_len counts for TRACE packets only.
PacketHash(pkt) ==
  [type |-> pkt.type, payload |-> pkt.payload,
   path_len |-> IF pkt.type = "TRACE" THEN pkt.path_len ELSE 0]

\* handle_advert_: the signature has to verify under the key it comes with.
AdvertTriggers(p) ==
  IF p.sig = [pub |-> p.pub, prv |-> p.pub]
    THEN {Message("on_advert", p.pub, "all", "name", p.ts)} ELSE {}

\* handle_group_text_: the first channel with that hash, and no other.
GroupTextTriggers(n, p) ==
  {Message("on_channel_message", "member", c.psk, p.text, p.ts) :
     c \in {ch \in FindChannelByHash(n, p.hash) : ch.psk = p.key}}

\* Mutant of DirectTextTriggers: any sender's text passes for the peer's.
DirectTextTriggersFromAny(n, p) ==
  IF HashByte[identity[n].pub] = p.dest /\ Peer[n] # NoKey
    THEN {Message("on_message", Peer[n], identity[n].pub, p.text, p.ts)} ELSE {}

\* handle_direct_text_: to us, from the peer as far as hash bytes tell, and
\* with a MAC under the secret shared with the peer.
DirectTextTriggers(n, p) ==
  LET id == identity[n]
  IN  IF /\ HashByte[id.pub] = p.dest
         /\ Peer[n] # NoKey
         /\ HashByte[Peer[n]] = p.src
         /\ {id.prv, Peer[n]} = p.key
        THEN {Message("on_message", Peer[n], id.pub, p.text, p.ts)} ELSE {}

\* The switch of handle_packet_.
Triggers(n, pkt) ==
  CASE pkt.type = "ADVERT"  -> AdvertTriggers(pkt.payload)
    [] pkt.type = "GRP_TXT" -> GroupTextTriggers(n, pkt.payload)
    [] pkt.type = "TXT_MSG" -> DirectTextTriggers(n, pkt.payload)
    [] OTHER -> {}

\* Mutant of Relays: a text for this node goes no further.
RelaysOthers(n, pkt) ==
  /\ n \in Repeaters /\ pkt.flood /\ ~PathFull(pkt)
  /\ Triggers(n, pkt) = {}

\* The early returns of maybe_relay_.
Relays(n, pkt) == n \in Repeaters /\ pkt.flood /\ ~PathFull(pkt)

\* Ordinals only order the entries of a cache: count them from 1.
Renumber(cache) ==
  {[e EXCEPT !.ord = Cardinality({f \in cache : f.ord <= e.ord})] : e \in cache}

Hears(n, f) == f \in air /\ f.to = n /\ relaying[n] = {}

\* on_packet returns: read_from rejects the frame.
DropMalformed(n, f) ==
  /\ Hears(n, f)
  /\ ~ReadFromOk(f.frame)
  /\ air' = air \ {f}
  /\ UNCHANGED <<clock, node, seen_cache, relaying, sent, fired, sends, faults>>

\* handle_packet_ returns: already_seen_, which has dropped expired entries.
DropDuplicate(n, f) ==
  LET kept == Unexpired(seen_cache[n], Millis(n)) IN
  /\ Hears(n, f)
  /\ ReadFromOk(f.frame)
  /\ Knows(kept, PacketHash(ReadFrom(f.frame)))
  /\ seen_cache' = [seen_cache EXCEPT ![n] = Renumber(kept)]
  /\ air' = air \ {f}
  /\ UNCHANGED <<clock, node, relaying, sent, fired, sends, faults>>

\* What the automations of the triggers send.
Answers(n, triggers) ==
  UNION {Play(n, action) : action \in UNION {Config[n].on[m.on] : m \in triggers}}

\* handle_packet_ of a packet not seen before, up to the delay() of
\* maybe_relay_. The radio accepts some of the answers.
Handle(n, f) ==
  LET kept == Unexpired(seen_cache[n], Millis(n))
      pkt  == ReadFrom(f.frame)
      triggers == Triggers(n, pkt) IN
  /\ Hears(n, f)
  /\ ReadFromOk(f.frame)
  /\ ~Knows(kept, PacketHash(pkt))
  /\ seen_cache' = [seen_cache EXCEPT ![n] =
       Renumber(Remember(Renumber(kept), PacketHash(pkt), Millis(n),
                         Cardinality(kept) + 1))]
  /\ fired' = [fired EXCEPT ![n] =
       @ \o SetToSeq({[msg |-> m, at |-> clock, boot |-> boots[n]] : m \in triggers})]
  /\ \E outs \in SUBSET Answers(n, triggers) :
       /\ faults' = faults + Cardinality(Answers(n, triggers) \ outs)
       /\ faults' <= MaxFaults
       /\ air' = (air \ {f}) \cup UNION {Broadcast(n, out.pkt) : out \in outs}
       /\ sent' = sent \cup {out.msg : out \in outs}
  /\ relaying' = [relaying EXCEPT ![n] =
       IF Relays(n, pkt) THEN {AppendHash(pkt, HashByte[identity[n].pub])} ELSE {}]
  /\ UNCHANGED <<clock, node, sends>>

Receive(n) ==
  \E f \in air : DropMalformed(n, f) \/ DropDuplicate(n, f) \/ Handle(n, f)

\* delay() is over: maybe_relay_ calls transmit_ and returns.
Relay(n) ==
  /\ relaying[n] # {}
  /\ air' = air \cup UNION {Broadcast(n, pkt) : pkt \in relaying[n]}
  /\ relaying' = [relaying EXCEPT ![n] = {}]
  /\ UNCHANGED <<clock, node, seen_cache, sent, fired, sends, faults>>

\* transmit_ returns false and nobody looks at its result.
RelayFails(n) ==
  /\ faults < MaxFaults
  /\ relaying[n] # {}
  /\ relaying' = [relaying EXCEPT ![n] = {}]
  /\ faults' = faults + 1
  /\ UNCHANGED <<clock, node, seen_cache, air, sent, fired, sends>>

-----------------------------------------------------------------------------
\* A collision, or a receiver that is deaf for a moment.
Lose(f) ==
  /\ faults < MaxFaults
  /\ air' = air \ {f}
  /\ faults' = faults + 1
  /\ UNCHANGED <<clock, node, seen_cache, relaying, sent, fired, sends>>

\* Power loss or reset at any point, in delay() too. Nothing is persistent but
\* the configuration in the firmware image.
Reboot(n) ==
  /\ n \in Unstable
  /\ faults < MaxFaults
  /\ booted' = [booted EXCEPT ![n] = clock]
  /\ ready' = [ready EXCEPT ![n] = ~LooksUnset(Configured[n])]
  /\ identity' = [identity EXCEPT ![n] = Configured[n]]
  /\ boots' = [boots EXCEPT ![n] = @ + 1]
  /\ seen_cache' = [seen_cache EXCEPT ![n] = {}]
  /\ relaying' = [relaying EXCEPT ![n] = {}]
  /\ faults' = faults + 1
  /\ UNCHANGED <<clock, air, sent, fired, sends>>

Tick ==
  /\ clock < MaxClock
  /\ clock' = clock + 1
  /\ UNCHANGED <<node, seen_cache, relaying, air, sent, fired, sends, faults>>

Next ==
  \/ \E n \in Nodes : Setup(n) \/ Receive(n) \/ Relay(n)
  \/ \E n \in Nodes : \E action \in Config[n].press :
       \E out \in Play(n, action) : Send(n, out) \/ SendFails(n)
  \/ \E n \in Nodes : RelayFails(n) \/ Reboot(n)
  \/ \E p \in ForeignPackets : ForeignSend(p)
  \/ \E f \in air : Lose(f)
  \/ Tick

Spec == Init /\ [][Next]_vars

\* Every node keeps running its loop, and every delay() ends.
Fairness ==
  \A n \in Nodes : WF_vars(Receive(n)) /\ WF_vars(Relay(n) \/ RelayFails(n))

FairSpec == Spec /\ Fairness

-----------------------------------------------------------------------------
Frames == {f.frame.pkt : f \in air} \cup UNION {relaying[n] : n \in Nodes}

TypeOK ==
  /\ clock \in 0..MaxClock
  /\ \A n \in Nodes :
       /\ booted[n] \in 0..clock
       /\ ready[n] \in BOOLEAN
       /\ identity[n] \in [pub : Keys, prv : Keys]
       /\ boots[n] \in 0..MaxFaults
       /\ Cardinality(seen_cache[n]) <= DEDUP_CACHE_SIZE
       /\ {e.ord : e \in seen_cache[n]} = 1..Cardinality(seen_cache[n])
       /\ Cardinality(relaying[n]) <= 1
       /\ \A i \in 1..Len(fired[n]) : fired[n][i].at \in 0..clock
  /\ \A f \in air : f.to \in Nodes /\ f.from \in Nodes
  /\ \A pkt \in Frames : pkt.path_len \in 0..(ByteMod - 1)
  /\ sends \in 0..MaxSends
  /\ faults \in 0..MaxFaults

Service ==
  INSTANCE MessageService
    WITH Expire <- DEDUP_EXPIRE_MS, now <- clock,
         names <- [n \in Nodes |->
                     {"all", identity[n].pub}
                       \cup {Channels[n][i].psk : i \in 1..Len(Channels[n])}]

\* A trigger fires only for what somebody sent to this node, in the sender's
\* name, and once per message while the node is up and the dedup cache keeps
\* the packet: through echoes, relays, losses and reboots.
ImplementsService == Service!Spec

HashOf(n) == HashByte[identity[n].pub]

\* The path of a flood packet lists nodes each of which hears the one before
\* it, and ends with the node that transmitted it.
PathIsRoute ==
  \A f \in air :
    LET path == f.frame.pkt.path IN
    f.frame.pkt.flood /\ path # <<>> =>
      /\ path[Len(path)] = HashOf(f.from)
      /\ \A i \in 1..(Len(path) - 1) :
           \E m \in Nodes : /\ HashOf(m) = path[i]
                          /\ \E k \in Neighbours[m] : HashOf(k) = path[i + 1]

\* While no cache forgets what it has seen, a node relays a packet once for
\* each of its boots, whichever way the copies travel: its hash byte is not in
\* a path more often.
NoLoops ==
  \A pkt \in Frames, n \in Nodes : pkt.type # "TRACE" =>
    Cardinality({i \in 1..Len(pkt.path) : pkt.path[i] = HashOf(n)}) <= boots[n] + 1

\* A configured identity is the one the node goes by, after every boot.
ConfiguredIdentityKept ==
  \A n \in Nodes :
    Configured[n].pub # NoKey => identity[n] = Configured[n]

\* on_message is "always from peer_": it fires only with a text that the
\* peer sent to this node.
MessagesFromPeer ==
  \A n \in Nodes : \A i \in 1..Len(fired[n]) :
    fired[n][i].msg.on = "on_message" => fired[n][i].msg \in sent

\* What the dedup cache takes for a repetition has been heard: of the frames
\* that already_seen_ drops, none carries a message that has not fired its
\* trigger since the node booted. A text said once more is lost if it has the
\* sender's time stamp of the first, and no other text is. An identity that
\* setup() generates is no concern: packets may come before it.
DuplicatesWereHeard ==
  \A f \in air :
    LET n == f.to
        pkt == ReadFrom(f.frame) IN
    /\ identity[n] = Configured[n]
    /\ ReadFromOk(f.frame)
    /\ Knows(Unexpired(seen_cache[n], Millis(n)), PacketHash(pkt))
    => \A m \in Triggers(n, pkt) :
         \E i \in 1..Len(fired[n]) : fired[n][i].msg = m /\ fired[n][i].boot = boots[n]

\* Every flood ends: not because of the dedup cache alone, but in any case
\* because the path is full at last.
Quiesces == <>[](air = {} /\ \A n \in Nodes : relaying[n] = {})

\* The texts that node n sends, of its own accord or in answer.
TextsOf(n) ==
  {action.text : action \in
     {a \in UNION {Config[n].on[t] : t \in TriggerNames} \cup Config[n].press :
        a.send # "advert"}}

\* A message is for the peer, a channel text for every other node on the channel.
Addressed(m, n) ==
  \/ m.on = "on_message" /\ m.to = Configured[n].pub /\ m.from = Peer[n]
  \/ /\ m.on = "on_channel_message" /\ m.text \notin TextsOf(n)
     /\ \E i \in 1..Len(Channels[n]) : Channels[n][i].psk = m.to

Arrived(m, n) == \E i \in 1..Len(fired[n]) : fired[n][i].msg = m

\* Texts arrive, if there is a way that the faults leave open: also an answer,
\* which goes on the air before its question has been relayed, and a question
\* that was answered before it was relayed.
TextsArrive ==
  []<>(\A m \in sent, n \in Nodes : Addressed(m, n) => Arrived(m, n))
=============================================================================
