# A verification project for esphome-meshcore

`components/meshcore` makes an ESP32 with a LoRa radio a node of a MeshCore mesh: it
advertises itself, sends and receives channel texts and messages to one peer, and
relays what others send. This directory holds TLA+ models of it, the TLC
configurations that check them, and TLAPS proofs. Source lines below refer to
`components/meshcore/`. The repository has no tests, so the models are written from
the code, and what the README, comments and the example configuration say is what
they are compared with.

Contents: [the system](#1-the-system), [modules](#2-modules-and-their-code),
[runs](#3-what-each-run-checks), [fairness](#4-fairness), [proofs](#5-what-is-proved),
[deviations](#6-where-code-and-documents-disagree), [limits](#7-what-is-not-modelled),
[plan](#8-plan).

## 1. The system

| part | state | operations | hard because |
|---|---|---|---|
| **Wire format** (`mc_packet.h`) | header, `path_len`, `path`, `payload` of one packet | `write_to`, `read_from`, accessors of the packed `path_len` | one byte packs a count and a size, lengths are `uint8_t`, arrays are fixed |
| **Dedup cache** (`already_seen_`, `remember_seen_`) | `seen_cache_`: hash and `millis()` of packets | expire, search, evict, append | bounded, times wrap every 49.7 days, emptied by a reboot, expires only when a packet comes |
| **Flood relay** (`maybe_relay_`) | the packet while `delay()` runs | early returns, append own hash, delay, `transmit_` | blocks the loop; copies of the packet are on the air meanwhile; nothing retries a failed transmission |
| **Codecs** (`send_*`, `handle_*`, `mc_crypto.cpp`) | none | truncate, pad, encrypt, MAC; check, decrypt, strip | lengths at block and buffer boundaries |
| **Node** (`meshcore.cpp`, `meshcore.h`) | `identity_`, `peer_`, `channels_`, cache, timer | `setup`, `loop`, `on_packet`, `send_advert`, `send_channel_text`, `send_message` | nodes run concurrently, frames get lost, duplicated over other ways and reordered, nodes reboot |
| **Advert timer** (`setup`, `loop`) | `last_advert_ms_` | arm, test, restart | starts before time 0, wraps, read twice, loop held up by other work |
| **Identity** (`mc_identity.*`) | key pair | generate, load, sign, verify, shared secret | one byte of a key stands for a node |
| **Ed25519** (`keypair.c`, `sign.c`, `verify.c`, `key_exchange.c`, `add_scalar.c`, `ge.c`, `sc.c`, `fe.c`) | key pairs of its callers | create, derive, sign, verify, exchange, add scalar | recodings with carries, projective coordinates, strings that are no points; limbs whose bounds only comments state, carry chains written out by hand |
| **SHA-512** (`sha512.c`) | stream buffer, length, chaining state | init, update, final | boundaries of blocks and of the padding |
| **AES/SHA-256/HMAC** (mbedTLS through `mc_crypto.cpp`) | none | library calls | external, ideal here |
| **Configuration** (`__init__.py`, yaml) | none | generates code: options, triggers and their automations | its results are the models' constants; an automation may send from inside a trigger |
| **Radio and ESPHome** | external | broadcast, call `on_packet` and `loop`, `millis()` | lossy |

How they interact: an automation or `loop()` calls `send_*`, which builds a packet and
hands it to `transmit_`. The radio calls `on_packet`; `read_from` decodes; `handle_packet_`
asks the dedup cache, dispatches to a handler, which may fire a trigger, whose automation runs
at once and may call `send_*`, and calls `maybe_relay_`, which edits the path, blocks in `delay()` and transmits. Everything runs
in one loop per node, so concurrency is between nodes, and between a node and time.

What makes it correct: a trigger fires only for what somebody sent, to its addressees, once
(`MessageService`); the cache is a window of recent packets (`DedupWindow`); every flood
ends; a relay does not change the payload; a text that fits arrives; adverts go out once
per interval; signatures and secrets are those of the group law.

## 2. Modules and their code

| module | models | state and actions |
|---|---|---|
| `MeshPacket` | `mc_packet.h`, path edit of `maybe_relay_` | operators only: `GetPathHashCount`, `IsValidPathLen`, `WriteTo`, `ReadFrom`, `AppendHash` .. as in C |
| `RelayPath` | a packet on a line of repeaters | `Relay` is on_packet, read_from, maybe_relay_ and write_to of one repeater; `DropBad`, `DropFull` are its early returns, `Overrun` is a frame that leaves `transmit_`'s array no room |
| `SeenCacheOps` | `already_seen_`, `remember_seen_` | operators; the vector is a set of entries with the ordinal of their insertion |
| `DedupWindow` | abstract: what the cache promises | a log of packets let through; no cache |
| `SeenCache` | one cache over time | `Duplicate`, `Fresh` (the two outcomes of `handle_packet_`'s test), `Tick`, `Reboot` |
| `TextFrame` | send functions to triggers of one packet | a text is its length and trailing NULs; `Send`, `Overrun`, `Hear`, `Drop` |
| `AdvertTimer` | timer of `setup`, `loop` | `Setup`, `Wait`, `Test`, `Restart`, `SendAdvert` or `AdvertRefused`: between two of them time may pass, as `millis()` is read twice |
| `MessageService` | abstract: what the mesh promises | messages sent, triggers fired |
| `MeshCore` | nodes on the air | `Setup`; `Send`, `SendFails` (a button's action: `Play` says what it hands to `transmit_`); `Receive` is `DropMalformed`, `DropDuplicate` or `Handle`, with the `Answers` of the triggers' automations; `Relay`, `RelayFails`; `Lose`, `Reboot`, `Tick`, `ForeignSend`. `Config` holds every node's yaml. Composes `MeshPacket` and `SeenCacheOps` |
| `FieldElement` | `fe.c` | operators on elements: a residue and a bound on the size of the limbs |
| `GroupElement` | `ge.c` | the five forms of points, conversions, sums, doubling, point coding, in the code's order of operations |
| `EdwardsPoint` | `ge.c`, `precomp_data.h` | `Slide`, `Radix16`, both scalar multiplications and their tables; and the group law by its definition (`EdAdd`, `EdMul`) |
| `MontgomeryLadder` | loop of `key_exchange.c` | one bit of the scalar |
| `Ed25519` | `keypair.c`, `sign.c`, `verify.c`, `add_scalar.c`, `key_exchange.c`, `sc.c` | key pairs of parties; `AddScalar`, `AddScalarPublic`, `SignMessage` |
| `CarryChains` | limbs of `fe.c`, `sc.c` | a call puts sums of products into ten or 24 limbs; `Round`, `Floor`, `FoldLimb`, `Quotient`, `Cut` are the steps of the chains that follow |
| `AdditionChains` | `fe_invert`, `fe_pow22523` | registers hold exponents; `Square`, `Multiply` |
| `Sha512` | `sha512.c` | `Update`, `CompressInput`, `Fill`, `Final`; the message is numbered bytes |
| `MCMeshCore`, `MCTextFrame`, `MCPrimitives` | | topologies, configurations, lengths and limbs for the runs |
| `RelayPathProofs`, `SeenCacheProofs`, `TextFrameProofs`, `AdvertTimerProofs`, `MeshCoreProofs`, `Ed25519Proofs`, `CarryChainsProofs`, `Sha512Proofs` | | theorems about the modules of these names; `Ed25519Proofs` is also about the modules that `Ed25519` is built from, and about `AdditionChains` |

Choices a reader should know:

- *Step size.* In `MeshCore` everything `on_packet` does up to the `delay()` of
  `maybe_relay_` is one action, as nothing else runs on the node meanwhile; the delay
  separates `Handle` from `Relay`. What automations of a trigger send goes on the air within
  `Handle`, each packet accepted by the radio or not. While a node is in `relaying`, it receives nothing:
  frames wait, as in the radio's buffer.
- *The air* is a set of frames with one receiver each. Two identical frames from the same
  neighbour to the same receiver are one; a repeat of a frame that was received already is
  a new one.
- *`ready`* separates boot from `setup()`; nodes whose configured identity will be kept
  start ready, as `setup()` changes nothing for them. Nodes originate packets only when
  ready (automations run after setup), but receive before.
- *Cryptography in `MeshCore`* is ideal: a key pair is one value, the shared secret the set
  of both, a ciphertext opens under its key alone. `Ed25519` looks into signatures and
  secrets.
- *`PathCountMod`, `MillisMod`* are 2^6 and 2^32 as constants, so every modulo in a model
  is a width in the code.
- *Elements twice.* Above `fe.c` only the residue of an element and the size of its limbs matter,
  below it only limbs and carries: `FieldElement` is used by everything above and states what
  `CarryChains` is checked and proved to do (`Carried`, `OnePass`, residues kept). The bounds are in
  hundredths of 2^25 and 2^24, those of the code's comments, also where the curve is small.
- *Mutants.* Operators whose comment calls them a mutant are plausible bugs (a dropped
  carry, a signed comparison); the project lists which property each one violates.

## 3. What each run checks

| run | bounds, and why they are enough | shows |
|---|---|---|
| `relay_path` | the real constants 64, 64, 184; hash sizes 1..3, seven payload lengths, three of them at what `transmit_` has room for with the longest path | `path_len` grows by exactly one per hop even where the count overflows into the hash size (`PathLenCountsHops`), so a byte bounds every flood; the path lists the latest hops (`PathEntriesAreLatestHops`); no wrap of a length shifts the payload (`RelayKeepsPayload`); of the packets with a payload only those of 3-byte hashes are ever rejected or outgrow the array of `transmit_`, the latter with transport codes and 183 or 184 bytes (`OnlyOddHashesOutgrow`, see 6) |
| `relay_path_append` | the same, 1-byte hashes | **violated**: after 63 hops the path starts over, see 6 |
| `seen_cache` | clock modulo 8, expiry 3, 2 entries, 3 hashes: passes a wrap, an expiry after it, and an eviction; `MaxSilence` + expiry < modulus | `NoEarlyRepeat`, `CacheIsWindow`; `ImplementsWindow`: the cache refines `DedupWindow` |
| `text_frame` | the real constants, all lengths 0..200 | every text up to the longest that fits arrives, and what arrives is what was sent but for trailing NULs |
| `text_frame_long` | the same | **violated**: longer texts are lost, see 6 |
| `advert_timer` | clock modulo 16, intervals 0..13, a loop held up for up to 2, a radio that refuses up to two adverts in a row | first advert tried at once, then one per interval, neither too soon nor skipped by a wrap; a refused one costs an interval; adverts go on forever |
| `mesh_line` | a, repeater r, b; r's hash byte is b's, two channels with one hash; b answers messages and r channel texts; 2 packets and their answers, 1 fault, an expiry and a second | `ImplementsService`: every trigger fires for a message sent, at an addressee, once while remembered; `MessagesFromPeer`; `DuplicatesWereHeard`: what `already_seen_` drops has been heard, so of two texts only a repetition with the same second on it is lost |
| `mesh_diamond` | two islands: two ways from a to b over repeaters that hear each other; and c, d and a repeater all in range, where d answers c from inside its trigger and relays as well; 1 packet on either, 1 fault anywhere, no expiry | `NoLoops`, `PathIsRoute`; `TextsArrive`, answers too, although one frame, relay or repeater fails |
| `mesh_foreign` | two repeaters, a cache of one entry, TRACE floods, direct routes, 3-byte hashes, an unset identity; 2 packets, 1 fault | every flood ends (`Quiesces`) without the cache's help; a configured identity is kept |
| `mesh_echo` | the line with a and b's keys starting alike | **violated**: a node hears its own message as its peer's, see 6 |
| `ed25519` | the curve scaled from 256 to 16 bits: P = 2^15 - 19, L = 4111 just above 2^12, base point with y = 4/5, cofactor 8; seeds, scalars and hashes at the ends of their ranges | keys, signatures and secrets are those of the group law; verification is its equation also for strings that are no points, points of order 8 L, and a y above P; a public key that scalars were added to is still a point (`CopiesDecode`), which `ed25519_add_scalar` relies on unlooked; on all these ways no limb overflows (`LimbsFit`) |
| `primitives` | three machines that share nothing, one of which runs. SHA-512: the real sizes; up to 3 pieces that end around every boundary. Carry chains: limbs of 3 and 2 bits with the real 19, so a field of 2^25 - 19; scalars of twelve 2-bit limbs modulo 2^24 + 871 with six digits of both signs; limbs at their extremes in runs, strings around multiples of the prime. Addition chains: all of both | the compressed blocks are the padded message; no carry changes a residue (`ResidueKept`), results are within the bounds of the next call (`LimbsCarried`) and encodings are reduced (`ResultIsReduced`); the exponents are P - 2 and (P - 5) / 8 (`ExponentReached`) |

Three models are small where the code is large. The cache and the timer depend on their
sizes only through order and differences, which the theorems below confirm. Of the carry chains the
steps and their order do not depend on the widths; a limb of 3 bits is much more narrow than 19
folded carries, so `Slack`, 1% of 2^24 in the code, is 1500 here, and that the code's own limbs keep
their bounds is for the proof. `fe_tobytes` is given the elements for which 19 h9 fits its estimate.
`MeshCore` bounds packets, faults and time: two packets are enough for one to evict or
outlive the other, one fault for every single point of failure, and each hazard listed in
`PROJECT.json` happens within the bounds. The field of `ed25519` has the form the code relies on
(5 modulo 8, order 8 L, clamped scalars with the top bit set), so every branch is taken.

`CHECK_DEADLOCK FALSE` is set where a system comes to rest: a packet delivered or dropped, a digest
made, all bounded packets handled.

## 4. Fairness

- `MeshCore!FairSpec`: weak fairness of `Receive(n)` and of `Relay(n) \/ RelayFails(n)`.
  ESPHome calls every component's `loop` forever, and `delay()` ends. Nothing forces a
  send, a reboot or a loss, and a lost frame is just gone.
- `AdvertTimer!FairSpec`: time passes, `loop()` is called, and from some point on the node is
  not rebooted; a node rebooted for ever would advertise at each boot, but never in between.

## 5. What is proved

| theorem | assumes, but for the modules' `ASSUME`s | says |
|---|---|---|
| `RelayTypeOK` | | every field of every frame keeps its range |
| `PathLenCounts` | | `path_len` = its initial value + hops, for any widths of the two packed fields |
| `PayloadKept` | | a repeater that can decode a frame finds the originator's payload |
| `EntriesAreLatestHops` | | the path's entries are the latest repeaters, in order, for all widths and hash sizes and after an overflow of the count |
| `OddHashesOutgrow` | | a packet with a payload is rejected only if its hashes do not divide the path array, and outgrows `transmit_`'s array only with transport codes and a payload within 2 bytes of the longest besides |
| `CacheTypeOK` | | the cache never outgrows `DEDUP_CACHE_SIZE` |
| `NoRepeatTooEarly` | | a packet is let through again only after its expiry or `DEDUP_CACHE_SIZE` other packets, across any wraps of `millis()` |
| `CacheHoldsWindow` | `SilenceBound` | the unexpired cache is exactly the last `DEDUP_CACHE_SIZE` packets that are at most `DEDUP_EXPIRE_MS` old |
| `CacheImplementsWindow` | `SilenceBound` | the cache refines `DedupWindow` |
| `FrameTypeOK`, `FittingArrive`, `HeardAsSent` | the sizes of the code | texts of every length: those that fit arrive, and what arrives is what was sent |
| `TimerTypeOK`, `TimerNotTooLate`, `TimerNotTooSoon` | | every interval, width of `millis()` and lag, and any number of refused adverts: no advert is late or early by more than the lags of `loop()` and an interval for each refusal |
| `MessagesAreThePeers` | `KeyPairs`, `PeersDiffer`, `OthersForeign` | in every mesh `on_message` fires only with what the peer sent to this node |
| `IdentityKept` | `KeyPairs`, `IdentitiesShow` | in every mesh a configured identity is kept |
| `MeshTypeOK` | | in every mesh caches keep their size and order, nobody waits with two packets, every `path_len` is a byte |
| `MeshImplementsService` | `KeyPairs`, `PeersDiffer`, `OthersForeign`, `ExpiryBelowWrap`; `[]CachesRoomy` | every mesh refines `MessageService`, across expiries, wraps, losses and reboots |
| `DuplicatesHeard` | | in every mesh, what a node drops as a duplicate has fired its triggers since it booted, as long as it goes by its configured identity |
| `FloodsDoNotLoop` | `AllConfigured`, `BytesDiffer`, `OthersUnrelayed`; `[]CachesKeep` | in every topology a node relays a packet at most once per boot |
| `PathsAreRoutes` | `AllConfigured`, `OthersOriginate`; `[]PathsCounted` | in every topology the path of a flood is the route it came |
| `LibraryTypes` | | private keys stay below 2^255, public keys are strings, no copy is ahead of its key, the second half of a signature is below L, for every prime, curve and size of scalars, whatever the hashes |
| `SumsFit`, `EncodingsFit`, `DecodingsFit`, `LadderStepsFit` | | no sequence of point operations overflows a limb, for any prime, curve and operands |
| `LimbsAlwaysFit` | `[]CopiesDecode` | no operation of the library does, through the recodings of scalars, the tables and all rounds of the loops, for all keys and strings |
| `ExponentsReached` | | `fe_invert` and `fe_pow22523` raise to 2^255 - 21 and 2^252 - 3 |
| `FieldResultsCarried`, `FieldSumsFit` | `RealSizes`, `OperandsBounded` | `fe_mul`, `fe_sq`, `fe_sq2`, `fe_mul121666`, `fe_frombytes`: sums and carries stay within 64 bits and leave limbs within 1.01 of half their range, for all operands that the comments allow: 1.65 times 2^26 and 2^25 for the first three |
| `ResidueIsKept` | `RealSizes`, `ScalarSizes`, `OperandsBounded` | no step of a carry chain of `fe.c` or `sc.c` changes the residue that the limbs stand for |
| `ResultsAreReduced` | `RealSizes`, `ScalarSizes`, `OperandsBounded`, `ScalarsBounded` | `sc_reduce`, `sc_muladd` and `fe_tobytes` end with the least residue itself, in limbs that the packing into bytes reads as they are |
| `StreamTypeOK`, `StreamKept`, `DigestIsOfMessage` | `RealSizes` | SHA-512: whatever the pieces, the padded message is what is compressed |

`RealSizes` in a proof module fixes the sizes of the code by their numbers: the provers do not
calculate powers of a symbol, and these theorems are about all inputs, not about all sizes.

*`RelayPath`.* The invariant adds to `TypeOK` and `PathLenCountsHops` that the frame's
payload is the originator's and that `path_len` is one that an earlier `read_from` accepted or
its successor. The key lemma `NextPathLen` is about the packed byte: setting the count to
count + 1 adds one to the byte also where the count overflows, because the OR with 64 sets
the low bit of the hash size just when that bit is clear: the sizes for which it is set have
no valid full count. This is where the assumption `MAX_PATH_SIZE < 2 * (PathCountMod - 1)`
is needed. `EntriesAreLatestHops` needs one more invariant, `PathInv`: the path is as long as
`path_len` says. By `NextFields` the new `path_len` has either one entry more of the same size, at whose front the
appended byte comes to lie, or none. `OddHashesOutgrow`: `LongestPath` bounds the bytes of a path that a relay leaves.
A path of hashes whose size divides the array never exceeds it; any other is at most two bytes longer, and the room for
transport codes that transmit_ keeps is four bytes, so only codes and a payload near the longest exceed
that (`OutgrowInv`).

*`SeenCache`.* `NoEarlyRepeat` speaks of the log alone and is not inductive. The
invariant adds that every recent log entry is in the cache: an entry with ordinal greater than
`Len(log) - DEDUP_CACHE_SIZE` that is at most `DEDUP_EXPIRE_MS` old is cached with its hash
and its time modulo `MillisMod`; that ordinals in the cache are distinct ones of the log; and that
the log is ordered by time. `ElapsedBound` shows that the wrapped difference is never larger than the
true age, so the cache may keep an entry too long but not drop it too early; `OldestIsFirst` that the
entry evicted is the least ordinal, so more than the size have passed since.

`CacheIsWindow` and the refinement need the other direction: an entry must not look younger than it is.
`Recent` adds that, when the last packet was heard, everything left in the cache was unexpired and among
the last `DEDUP_CACHE_SIZE`. With `SilenceBound`, `MaxSilence + DEDUP_EXPIRE_MS < MillisMod`, no entry is then
older than a wrap, so the difference is the true age (`ElapsedExact`). That a full window is evicted in order, `FreshRecent`, is a matter of
counting: if the entry `DEDUP_CACHE_SIZE` packets back is still unexpired, so are all later ones,
and the cache is full. `StepImplementsWindow` maps both answers to `DedupWindow!Packet`. Without
the bound the refinement fails: after a silence of a wrap an entry looks fresh again.

*`TextFrame`.* `CipherLen` is the least multiple of 16 (`WholeBlocks`); a text that fits passes every
test of `Accepts` since framing adds at most as much as `LongestText` leaves room for. The
invariant ties the frame on the air to the call that sent it.

*`AdvertTimer`.* The invariant compares `Running`, the wrapped difference that `loop()` computes, with
`since`, the true time since the last advert, in each phase of `loop()`. It holds as the difference
never reaches the modulus: when the timer was last tested less than an interval had passed, and since then
no more than `MaxGap`. Before the first advert the stamp lies an interval before boot. A refused advert restarts the timer as one on the
air does, so the tries are an interval apart, at most a `Period`, and with `since` counting from the last advert on the air the
invariant places the last restart between `Earliest` and `Latest` of the number of tries.

*`MeshCore`.* Six invariants, which use those before them.

- `TypeInv` is `TypeOK` made inductive: a cache is finite and its ordinals are 1 to its size
  (`RenumberOK`: counting the ordinals up to an entry's own renumbers them without gaps; `RememberOK`: what
  is evicted is the one with ordinal 1), what is on the air or waits is a packet with a `path_len` in a byte
  (`NextPathLen`, for any width), boots are faults, and nothing has fired in the future. It needs that the
  automations' answers are finitely many (`AnswersFinite`), as failed ones are counted. Its only assumption is
  `MeshConstants`: configurations are finite, keys have a first byte, other firmware sends packets.
- `MeantInv`: every advert or text on the air or in a `delay()` is just what a send function makes of a
  message in `sent` (`StandsFor`), and what has fired is in `sent`. What is left is to tell which of the two
  owners of a secret sent it, and that the code does by the first byte of the sender's key. `KeyPairs`: a
  configured key pair is one value; `PeersDiffer`: no node's key begins like its peer's, just what the run
  `mesh_echo` does without; `OthersForeign`: the packets of other firmware are of types this component does
  not handle. It contains `IdentityInv`, with which `IdentityKept` is proved (`IdentitiesShow`: not both keys
  of a configured identity begin with a zero byte).
- `RememberInv`, for the refinement: what a node has fired in this boot and within the expiry time is in its
  cache, at the time it was handled. As a message determines its packet up to the path (`SameHash`), a second
  copy is a duplicate. `KeptHolds` is the arithmetic of expiry: as the expiry time is less than a wrap of
  `millis()` (`ExpiryBelowWrap`), the unsigned difference does not expire an entry too early. `CachesRoomy` says that the
  erase loop has left room for one more whenever a packet is handled: 65 packets within ten minutes may make a node
  forget, and then it may fire twice, which `NoRepeatTooEarly` says more precisely of one cache.
  `StepImplementsService` maps each action to one of `MessageService` or to a stutter.
- `HeardInv`, for duplicates: as long as a node goes by its configured identity, every packet in its cache has fired what it
  triggers in this boot. What a trigger reads of a packet is what the hash is made of (`TriggersOfHash`), and a handler that remembers
  a packet learns no other (`HandleKnows`). An identity that `setup()` generates is another addressee: a packet handled
  before that, for the address of the zero key, is not one it has heard.
- `LoopInv`: the hash byte of a node is in a path no more often than it has booted before, and once more only
  if the packet is in its cache now: so a node that finds a packet new has room for its byte. `BytesDiffer`:
  nodes are told apart by their first bytes, none of which is the zero that pads a path after an
  overflow; `OthersUnrelayed`: what other firmware sends does not carry these bytes yet; `CachesKeep`:
  no cache forgets, which is what the property is about.
- `RouteInv`: a path whose count has not overflowed is as long as `path_len` says and leads to the node that
  transmits it (`RouteExtended`: the new byte is one hop further), and frames are received by neighbours.
  `PathsCounted` leaves out what the run `relay_path_append` shows: after 63 hops the path starts over.
  `OthersOriginate`: floods of other firmware come from where they start.

`AllConfigured` leaves out nodes that generate an identity at each boot: they are another node after each. The
premises hold in the runs: all of them in `mesh_diamond`, and those of the refinement in `mesh_line` with a
cache of five entries; with its three, some behaviours evict an entry too early, and what the run checks of these
goes beyond the theorem.

*Limb bounds.* Points come in forms; each form has a bound (`P2Fits`, `P3Fits`, `CachedFits`, `P1P1Fits`)
that every operation which returns it establishes from the bounds of its operands: 1.01 for what a carry
chain leaves, times two or three for uncarried sums. `SmallProducts` is why three are enough:
125 * 3.03^2 < 2^13 in the units of a product. `FieldElement` takes from `CarryChains` that a product
leaves 1.01, which `FieldResultsCarried` proves: after each step of a chain all limbs are below the bound
for that step, by a table of bounds for the two chains. `OperandsBounded` is the bound of the code's
comments, 1.65 times 2^26, `ScalarsBounded` those of what `sc.c` loads from a string, and `RealSizes` and `ScalarSizes` the
numbers in `fe.c` and `sc.c`.

*The library.* `Fits` says of an element both that its limbs are bounded and that it stands for a residue, so the bounds
go with the types. A scalar multiplication is a loop, and a loop, like every recursive definition, is the
CHOICE of a function that satisfies its equations; that there is one has to be shown. The induction theorems are out of
reach for this, so `Upwards` is complete induction from the least counterexample (`WFMin`), `RecursiveFunction` builds the function
one argument at a time, and `LoopFunction` is that for the rounds of a loop, with a set for the state after each. What is kept is: in `slide` that the digits are within 15 of 0
and are still bits from the present window on (`Digits`, `SlideJoinKeeps`), so half a digit is an index of the eight
odd multiples (`DigitAdded`); in both scalar multiplications that the point is one that fits; in the ladder that its four
coordinates are. `PowersOfTwo` counts subsets, as the provers know nothing of 2 to the power of a symbol. `KeyInv` is
`TypeOK` made inductive, by the sets that the functions come from. `LimbsAlwaysFit` needs of a copied key that it is a number, and
so that the key it was made of was a point, `CopiesDecode`: without that `ed25519_add_scalar` adds to uninitialised
coordinates. That it always is a point is the group law, and checked by `ed25519`; for an `Adders` that is empty the premise is not used.

*Addition chains.* `BitsBefore` is a table: which bits the exponent in each register has before each of the 22
statements of both functions, and `Raised` moves them up once per squaring of a loop. `PowerInv` says that the registers
hold what the table says. That no bit is added twice (`AddedBits`) is why a set is enough, and the last column of the table is the exponent.

*Residues.* `ResidueIsKept` is about the real limbs. `FeNumber` and `ScNumber` are what ten or 24 limbs stand for,
nested in pairs and fours as the provers do not evaluate powers like 2^230; `FeValue` and `LongValue` say that
the recursion which the runs evaluate yields their residue. A carry moves a multiple of a limb's weight one limb up
(`ScalarCarry`), from the tenth limb of an element to the first as 2^255 = 19; folding takes a multiple of L away
(`ScalarFold`, digit by digit). `ScPlan` lists the 83 steps of `sc_muladd`, the last 60 of which are those of `sc_reduce`.
That the sums a call begins with stand for the product is shown row by row (`RowOfScalars`, `MulAddSumsNumber`). In
`fe_tobytes` the quotient is the difficulty: `BytesInv` says that from the first step on q multiples of 2^255 are
what lies between the limbs and a number below the prime, so that the bits cut off the last limb
are these.

`ResultsAreReduced` adds how large the limbs and the number are. `ScBounds` bounds every limb after each of the 83
steps, phase by phase: folds add at most 2^20 times the limbs folded, carries leave 21 bits behind (`InPass`, `InFloors`). Then
`NumberBelow`: before the first of the two last folds of the twelfth limb the number is any, after it within 2^252, and after the second at least 0
and below L, as the limb folded then is 0 or -1: it is the sign of the number. The carries
after it do not change the number and leave 21 bits in each limb.

*`Sha512`.* Bytes are numbered by their place in the message. The invariant is `NothingLost` until
`sha512_final`, and after it `DigestOfMessage`: `FinalKept` treats the last byte's place in its block, up to
111 or above, and shows byte by byte that one block or two hold mark, zeros and length.

Only model-checked: liveness and `ENABLED`, which are outside TLAPS (`TextsArrive`, `Quiesces` and the
adverts that go on forever); and what point and scalar multiplication compute: `KeysMatch`, `CopiesFollow`, `CopiesDecode`,
`SignaturesVerify`, `VerifyIsEquation`, `SecretIsProduct`. These rest on the group law of the curve, that
addition is associative and L times the base point is zero. It is a theorem of algebra about polynomials of high degree modulo a prime and no
step that the provers would find; the digits and the doublings add to it an induction over the scalar.

## 6. Where code and documents disagree

Three are runs that TLC refutes:

1. `relay_path_append`: `set_path_hash_count(64)` ORs into the hash size, so after 63 one-byte
   hops the path becomes an empty path of 2-byte hashes. The guard "path already at max
   length" (`meshcore.cpp:314`) is never reached for one-byte hashes. Harmless as to
   termination, see `PathLenCountsHops`.
2. `text_frame_long`: texts are truncated to 184 bytes before timestamp, padding, MAC and
   address are added. From 173 bytes (channel texts: 173, messages: 173) on they do not
   fit the payload, and receivers reject the frame if it goes out at all.
3. `mesh_echo`: a node does not remember its own packets, and sender and addressee are
   told apart by one byte; if both peers' keys start with the same byte, the echo of a
   node's own message fires `on_message`, which is "always from peer_".

Seen while modelling, and not given a run of its own: a path of 3-byte hashes is checked for one byte of room and
grows by three, so the 22nd relay writes a frame no `read_from` accepts, and with transport codes and a payload of 183
or 184 bytes one or two bytes behind the array of `transmit_` (`OnlyOddHashesOutgrow` says that this is the only case;
the component's own packets have 1-byte hashes and no codes); a text said twice within a second, or at the same uptime
after a reboot of its sender, is a duplicate of the first; of two channels with one hash byte the second is deaf; an
advert, text or answer that the radio refuses is not sent again before its turn or at all; after a silence of 49.7
days an expired cache entry looks fresh (`seen_cache` bounds the silence); an `advertise_interval` above 49.7 days is
cut to 32 bits; `mc::calculate_packet_hash` is declared and never defined; `tools/generate_identity.py` looks for the
library in a directory that does not exist. And `setup()` takes an identity for unset when the first bytes of both
its keys are zero, as they are for one pair in 8192, a private key being clamped: such a node, configured "to persist
your node identity" (`meshcore.cpp:48`), goes by a new key after every boot. `mesh_foreign` has keys of which one
begins with zero, and `IdentityKept` assumes one that does not: with this pair the property would be violated.

`ge_p2_dbl` subtracts from 2 Z^2 what is itself a difference: the second operand of `fe_sub` is up to 2.02 where its comment
allows 1.1, and the result up to 3.03. That is below the 3.30 (1.65 times 2^26) that `fe_mul` allows, so nothing overflows, as
`SumsFit` and `FieldSumsFit` show. The twelfth limb of a reduced scalar may be 2^21, one bit more than the others have.

## 7. What is not modelled

- Byte contents: ciphers, MACs, SHA-256, packet payloads. Compression in SHA-512 is a fixed circuit of
  64-bit rotations and sums without state or branches: a model would be the C text again.
- How limbs are packed into bytes and back (the shifts at the ends of `fe_tobytes`, `sc_reduce`,
  `sc_muladd`; the loads of `sc.c`), and the numbers of the precomputed tables, which are calculated from
  the base point of the small curve.
- `ed25519_add_scalar` on a string that is no public key to begin with: the code looks at no result of decoding it and adds to
  uninitialised coordinates, and nothing of the component calls it. The keys it makes itself can be decoded (`CopiesDecode`).
- Automations that wait (`delay`) or call themselves through other components; a trigger's
  automation is the set of sends it makes at once.
- Packets of other firmware with broken ciphertexts or adverts; `ForeignSend` sends well-formed
  packets this component does not handle.
- Collisions other than as losses; airtime; the radio drivers; parsing of the configuration; logging.

## 8. Plan

1. **Done**: wire format and relays, dedup cache, codecs, advert timer; mesh of nodes with answers and
   failing sends; Ed25519 on a small curve with limb bounds; carry chains; addition chains; SHA-512
   streaming; theorems about each, for the multiplications about types and limbs.
2. **Left, proofs**: that the digits of `Slide` and `Radix16` sum up to the scalar, and, with the group law as an
   assumption, `KeysMatch`.
3. **Left, models**: the refinement of `FieldElement` by `CarryChains` as an INSTANCE with a mapping.
