--------------------------- MODULE MeshCoreProofs ---------------------------
(***************************************************************************)
(* Theorems about MeshCore for every set of nodes in any topology, with    *)
(* any configuration and any number of packets, losses, reboots and other  *)
(* nodes' packets:                                                         *)
(*                                                                         *)
(*   MeshTypeOK             the variables are what their comments say;     *)
(*   IdentityKept           a configured identity survives every boot;     *)
(*   MessagesAreThePeers    on_message is from the peer;                   *)
(*   MeshImplementsService  the mesh implements MessageService;            *)
(*   DuplicatesHeard        what is dropped as a duplicate has been heard; *)
(*   FloodsDoNotLoop        a node relays a packet once for each boot;     *)
(*   PathsAreRoutes         a path is the route its flood came.            *)
(*                                                                         *)
(* The inductive invariants build on each other: TypeInv, IdentityInv,     *)
(* MeantInv, RememberInv for the service, HeardInv for duplicates, LoopInv *)
(* and RouteInv for paths.                                                 *)
(***************************************************************************)
EXTENDS MeshCore, FiniteSetTheorems, WellFoundedInduction, TLAPS

(***************************************************************************)
(* Premises of the theorems. Those up to OthersOriginate are about         *)
(* constants; the last three say that some state never occurs.             *)
(***************************************************************************)

\* A configured key pair is one value, as in Setup.
KeyPairs == \A n \in Nodes : Configured[n].pub = Configured[n].prv

\* The keys that node n may go by.
OwnKeys(n) == {Configured[n].pub} \cup EphemeralKeys

\* No node's key begins like its peer's: what the run mesh_echo does without.
PeersDiffer ==
  \A n \in Nodes : \A k \in OwnKeys(n), p \in Config[n].peer_public_key :
    HashByte[k] # HashByte[p]

\* Packets of other firmware are none that this component handles.
OthersForeign ==
  \A p \in ForeignPackets : p.pkt.type \notin {"ADVERT", "GRP_TXT", "TXT_MSG"}

\* No configured identity has two keys that begin with a zero byte.
IdentitiesShow ==
  \A n \in Nodes : Configured[n].pub # NoKey => ~LooksUnset(Configured[n])

\* A packet is forgotten before millis() wraps: ten minutes against 49 days.
ExpiryBelowWrap == DEDUP_EXPIRE_MS < MillisMod

\* Every node has a configured identity, which setup() finds.
AllConfigured == \A n \in Nodes : ~LooksUnset(Configured[n])

\* The byte by which node n signs a path.
Byte(n) == HashByte[Configured[n].pub]

\* Nodes are told apart by their hash bytes, none of which is a padding byte.
BytesDiffer ==
  \A n \in Nodes : Byte(n) # 0 /\ \A m \in Nodes : Byte(m) = Byte(n) => m = n

\* Packets of other firmware that nodes of this mesh have not relayed.
OthersUnrelayed ==
  \A p \in ForeignPackets, n \in Nodes :
    \A i \in 1..Len(p.pkt.path) : p.pkt.path[i] # Byte(n)

\* Floods of other firmware are heard from their originators.
OthersOriginate ==
  \A p \in ForeignPackets : p.pkt.flood =>
    p.pkt.path = <<>> /\ GetPathHashCount(p.pkt.path_len) = 0

\* No node handles as many packets as its cache holds before one of them expires:
\* what the erase loop leaves always has room for one more.
CachesRoomy ==
  \A n \in Nodes : Cardinality(Unexpired(seen_cache[n], Millis(n))) < DEDUP_CACHE_SIZE

\* No cache forgets: nothing in it has expired, and there is room.
CachesKeep ==
  \A n \in Nodes :
    /\ Unexpired(seen_cache[n], Millis(n)) = seen_cache[n]
    /\ Cardinality(seen_cache[n]) < DEDUP_CACHE_SIZE

\* The count of no path on the air has overflowed into its hash size: floods of
\* one-byte hashes that have not gone further than the count field can tell.
PathsCounted == \A f \in air : f.frame.pkt.flood => f.frame.pkt.path_len < PathCountMod

-----------------------------------------------------------------------------
(***************************************************************************)
(* Lemmas about sets and sequences.                                        *)
(***************************************************************************)

\* The image of a finite set is finite.
LEMMA ImageFinite ==
  ASSUME NEW S, IsFiniteSet(S), NEW F, NEW T, \A y \in T : \E x \in S : F[x] = y
  PROVE  IsFiniteSet(T)
<1> DEFINE D == {x \in S : F[x] \in T}
           G == [x \in D |-> F[x]]
<1>1. IsFiniteSet(D)
  BY FS_Subset
<1>2. G \in Surjection(D, T)
  BY DEF Surjection
<1> HIDE DEF D, G
<1> QED BY <1>1, <1>2, FS_Surjection

\* A set of natural numbers has a least one.
LEMMA LeastNat ==
  ASSUME NEW S \in SUBSET Nat, S # {}
  PROVE  \E x \in S : \A y \in S : x <= y
<1>1. IsWellFoundedOn(OpToRel(<, Nat), Nat)
  BY NatLessThanWellFounded
<1>2. PICK x \in S : \A y \in S : ~(<<y, x>> \in OpToRel(<, Nat))
  BY <1>1, WFMin
<1>3. \A y \in S : ~(y < x)
  BY <1>2 DEF OpToRel
<1> QED BY <1>3

\* What a sequence with one entry more is like.
LEMMA OneMore ==
  ASSUME NEW s, NEW S, s \in Seq(S), NEW x
  PROVE  /\ Append(s, x) \in Seq(S \cup {x})
         /\ Len(Append(s, x)) = Len(s) + 1
         /\ \A i \in 1..(Len(s) + 1) :
              Append(s, x)[i] = IF i = Len(s) + 1 THEN x ELSE s[i]
OBVIOUS

\* A set of at most one element, appended to a sequence by way of SetToSeq.
LEMMA FiredStep ==
  ASSUME NEW s, NEW S, s \in Seq(S), NEW T, T = {} \/ \E x : T = {x}
  PROVE  /\ T = {} => s \o SetToSeq(T) = s
         /\ \A x : T = {x} => s \o SetToSeq(T) = Append(s, x)
<1> SUFFICES ASSUME NEW q \in {SetToSeq(T)}
             PROVE  /\ T = {} => s \o q = s
                    /\ \A x : T = {x} => s \o q = Append(s, x)
  OBVIOUS
<1>1. CASE T = {}
  <2>1. Cardinality(T) = 0
    BY <1>1, FS_EmptySet
  <2> DEFINE f == [i \in 1..0 |-> i]
  <2>2. f \in [1..0 -> T] /\ IsInjective(f)
    BY DEF IsInjective
  <2> HIDE DEF f
  <2>3. q \in [1..0 -> T]
    BY <2>1, <2>2 DEF SetToSeq
  <2>4. q = <<>>
    BY <2>3
  <2> QED BY <1>1, <2>4
<1>2. CASE \E x : T = {x}
  <2>1. PICK x : T = {x}
    BY <1>2
  <2>2. Cardinality(T) = 1
    BY <2>1, FS_Singleton
  <2> DEFINE f == [i \in 1..1 |-> x]
  <2>3. f \in [1..1 -> T] /\ IsInjective(f)
    BY <2>1 DEF IsInjective
  <2> HIDE DEF f
  <2>4. q \in [1..1 -> T]
    BY <2>2, <2>3 DEF SetToSeq
  <2>5. q = <<x>>
    BY <2>1, <2>4
  <2> QED BY <2>1, <2>5
<1> QED BY <1>1, <1>2

-----------------------------------------------------------------------------
(***************************************************************************)
(* The dedup cache.                                                        *)
(***************************************************************************)

\* An entry of seen_cache_.
IsEntry(e) ==
  /\ e = [hash |-> e.hash, seen_at_ms |-> e.seen_at_ms, ord |-> e.ord]
  /\ e.ord \in Nat

\* Finitely many entries in an order of insertion.
Ordered(cache) ==
  /\ IsFiniteSet(cache)
  /\ \A e \in cache : IsEntry(e)
  /\ \A e, f \in cache : e.ord = f.ord => e = f

\* A cache as the handlers leave it: not over its size, ordinals counted from 1.
CacheOK(cache) ==
  /\ Ordered(cache)
  /\ Cardinality(cache) <= DEDUP_CACHE_SIZE
  /\ {e.ord : e \in cache} = 1..Cardinality(cache)

\* The cache has an entry for a packet seen at that time.
Holds(cache, hash, at) == \E e \in cache : e.hash = hash /\ e.seen_at_ms = at

\* Counting the entries from 1 changes no more than their ordinals.
LEMMA RenumberOK ==
  ASSUME NEW cache, Ordered(cache)
  PROVE  LET new == Renumber(cache) IN
         /\ Ordered(new)
         /\ Cardinality(new) = Cardinality(cache)
         /\ {e.ord : e \in new} = 1..Cardinality(cache)
         /\ \A hash, at : Holds(new, hash, at) <=> Holds(cache, hash, at)
<1> DEFINE below(e) == {f \in cache : f.ord <= e.ord}
           rank(e) == Cardinality(below(e))
           renum(e) == [e EXCEPT !.ord = rank(e)]
           new == Renumber(cache)
           N == Cardinality(cache)
<1>1. IsFiniteSet(cache) /\ N \in Nat
  BY FS_CardinalityType DEF Ordered
<1>2. \A e \in cache : IsFiniteSet(below(e)) /\ rank(e) \in 1..N
  <2> SUFFICES ASSUME NEW e \in cache PROVE IsFiniteSet(below(e)) /\ rank(e) \in 1..N
    OBVIOUS
  <2>1. below(e) \in SUBSET cache /\ e \in below(e)
    BY DEF Ordered, IsEntry
  <2>2. IsFiniteSet(below(e)) /\ rank(e) <= N
    BY <1>1, <2>1, FS_Subset
  <2>3. rank(e) \in Nat /\ rank(e) # 0
    BY <2>1, <2>2, FS_CardinalityType, FS_EmptySet
  <2> QED BY <1>1, <2>2, <2>3
<1>3. \A e, f \in cache : e.ord < f.ord => rank(e) < rank(f)
  <2> SUFFICES ASSUME NEW e \in cache, NEW f \in cache, e.ord < f.ord
               PROVE  rank(e) < rank(f)
    OBVIOUS
  <2>1. below(e) \in SUBSET below(f) /\ f \in below(f) /\ f \notin below(e)
    BY DEF Ordered, IsEntry
  <2>2. rank(e) <= rank(f) /\ rank(e) # rank(f)
    BY <1>2, <2>1, FS_Subset
  <2>3. rank(e) \in Nat /\ rank(f) \in Nat
    BY <1>1, <1>2
  <2> HIDE DEF rank
  <2> QED BY <2>2, <2>3
<1>4. \A e, f \in cache : rank(e) = rank(f) => e = f
  <2> SUFFICES ASSUME NEW e \in cache, NEW f \in cache, rank(e) = rank(f)
               PROVE  e.ord = f.ord
    BY DEF Ordered
  <2>1. e.ord \in Nat /\ f.ord \in Nat /\ rank(e) \in 1..N
    BY <1>2 DEF Ordered, IsEntry
  <2> HIDE DEF rank
  <2>2. ~(e.ord < f.ord) /\ ~(f.ord < e.ord)
    BY <1>1, <1>3, <2>1
  <2> QED BY <2>1, <2>2
<1>5. new = {renum(e) : e \in cache}
  BY DEF Renumber
<1> HIDE DEF rank, new
<1>6. \A e \in cache : /\ renum(e) = [hash |-> e.hash, seen_at_ms |-> e.seen_at_ms,
                                      ord |-> rank(e)]
                       /\ renum(e).ord = rank(e) /\ renum(e).hash = e.hash
                       /\ renum(e).seen_at_ms = e.seen_at_ms
  BY DEF Ordered, IsEntry
<1> HIDE DEF renum
<1>7. \A e, f \in cache : renum(e).ord = renum(f).ord => e = f
  BY <1>4, <1>6
<1>8. IsFiniteSet(new) /\ Cardinality(new) = N
  <2> DEFINE F == [e \in cache |-> renum(e)]
  <2>1. F \in Bijection(cache, new)
    <3>1. F \in [cache -> new] /\ \A x \in new : \E e \in cache : F[e] = x
      BY <1>5
    <3>2. \A e, f \in cache : F[e] = F[f] => e = f
      BY <1>7
    <3> QED BY <3>1, <3>2 DEF Bijection, Injection, Surjection, IsInjective
  <2> HIDE DEF F
  <2>2. ExistsBijection(cache, new)
    BY <2>1 DEF ExistsBijection
  <2> QED BY <1>1, <2>2, FS_Bijection
<1>9. Ordered(new)
  <2>1. \A e \in new : IsEntry(e)
    <3> HIDE DEF N
    <3>1. \A e \in cache : rank(e) \in 1..N
      BY <1>2
    <3>2. 1..N \subseteq Nat
      BY <1>1
    <3> QED BY <1>5, <1>6, <3>1, <3>2 DEF IsEntry
  <2>2. \A e, f \in new : e.ord = f.ord => e = f
    BY <1>5, <1>7
  <2> QED BY <1>8, <2>1, <2>2 DEF Ordered
<1>10. {e.ord : e \in new} = 1..N
  <2> DEFINE R == [e \in cache |-> rank(e)]
  <2>1. R \in Injection(cache, 1..N)
    BY <1>2, <1>4 DEF Injection, IsInjective
  <2>2. IsFiniteSet(1..N) /\ Cardinality(1..N) = N
    BY <1>1, FS_Interval
  <2> HIDE DEF R
  <2>3. R \in Surjection(cache, 1..N)
    BY <2>1, <2>2, FS_Injection
  <2> USE DEF R
  <2>4. \A i \in 1..N : \E e \in cache : rank(e) = i
    BY <2>3 DEF Surjection
  <2>5. \A e \in new : e.ord \in 1..N
    BY <1>2, <1>5, <1>6
  <2>6. \A i \in 1..N : \E e \in new : e.ord = i
    BY <2>4, <1>5, <1>6
  <2> QED BY <2>5, <2>6
<1>11. \A hash, at : Holds(new, hash, at) <=> Holds(cache, hash, at)
  BY <1>5, <1>6 DEF Holds
<1> QED BY <1>8, <1>9, <1>10, <1>11 DEF new

\* What the erase loop of already_seen_ leaves.
LEMMA KeptOK ==
  ASSUME NEW cache, CacheOK(cache), NEW now
  PROVE  LET kept == Unexpired(cache, now) IN
         /\ Ordered(kept)
         /\ Cardinality(kept) \in Nat /\ Cardinality(kept) <= DEDUP_CACHE_SIZE
         /\ CacheOK(Renumber(kept))
<1> DEFINE kept == Unexpired(cache, now)
<1>1. kept \in SUBSET cache
  BY DEF Unexpired
<1>2. IsFiniteSet(kept) /\ Cardinality(kept) <= Cardinality(cache)
  BY <1>1, FS_Subset DEF CacheOK, Ordered
<1>3. Cardinality(kept) \in Nat /\ Cardinality(kept) <= DEDUP_CACHE_SIZE
  BY <1>2, FS_CardinalityType, SeenCacheConstants DEF CacheOK, Ordered
<1>4. Ordered(kept)
  BY <1>1, <1>2 DEF CacheOK, Ordered
<1> HIDE DEF kept
<1>5. CacheOK(Renumber(kept))
  BY <1>3, <1>4, RenumberOK DEF CacheOK
<1> QED BY <1>3, <1>4, <1>5 DEF kept

\* remember_seen_ keeps the cache within its size, and what is in it while
\* there is room.
LEMMA RememberOK ==
  ASSUME NEW cache, CacheOK(cache), NEW hash, NEW now
  PROVE  LET N   == Cardinality(cache)
             new == Remember(cache, hash, now, N + 1) IN
         /\ Ordered(new) /\ CacheOK(Renumber(new))
         /\ Holds(Renumber(new), hash, now)
         /\ N < DEDUP_CACHE_SIZE =>
              \A h, at : Holds(cache, h, at) => Holds(Renumber(new), h, at)
<1> DEFINE N == Cardinality(cache)
           entry == [hash |-> hash, seen_at_ms |-> now, ord |-> N + 1]
           room == IF N >= DEDUP_CACHE_SIZE THEN cache \ {Oldest(cache)} ELSE cache
           new == Remember(cache, hash, now, N + 1)
<1>1. N \in Nat /\ N <= DEDUP_CACHE_SIZE /\ IsFiniteSet(cache)
  BY FS_CardinalityType DEF CacheOK, Ordered
<1>2. new = room \cup {entry}
  BY DEF Remember
<1>3. IsFiniteSet(room) /\ Cardinality(room) < DEDUP_CACHE_SIZE /\ room \subseteq cache
  <2>1. CASE N < DEDUP_CACHE_SIZE
    BY <2>1, <1>1, SeenCacheConstants
  <2>2. CASE ~(N < DEDUP_CACHE_SIZE)
    <3>1. N = DEDUP_CACHE_SIZE /\ room = cache \ {Oldest(cache)}
      BY <2>2, <1>1, SeenCacheConstants
    <3>2. 1 \in {e.ord : e \in cache}
      BY <3>1, SeenCacheConstants DEF CacheOK
    <3>3. \A e \in cache : e.ord \in 1..N
      BY DEF CacheOK
    <3>4. \E e \in cache : \A f \in cache : e.ord <= f.ord
      BY <1>1, <3>2, <3>3
    <3>5. Oldest(cache) \in cache
      BY <3>4 DEF Oldest
    <3> QED BY <1>1, <3>1, <3>5, FS_RemoveElement
  <2> QED BY <2>1, <2>2
<1>4. IsFiniteSet(new) /\ Cardinality(new) \in Nat /\ Cardinality(new) <= DEDUP_CACHE_SIZE
  <2> HIDE DEF room, entry, new
  <2>1. Cardinality(room) \in Nat
    BY <1>3, FS_CardinalityType
  <2>2. /\ IsFiniteSet(new)
        /\ Cardinality(new) = Cardinality(room) \/ Cardinality(new) = Cardinality(room) + 1
    BY <1>2, <1>3, FS_AddElement
  <2> QED BY <1>3, <2>1, <2>2, SeenCacheConstants
<1>5. Ordered(new)
  <2>1. \A e \in cache : IsEntry(e) /\ e.ord \in 1..N
    BY DEF CacheOK, Ordered
  <2>2. IsEntry(entry) /\ entry.ord = N + 1
    BY <1>1 DEF IsEntry
  <2> HIDE DEF entry, room, new
  <2>3. \A e \in new : IsEntry(e)
    BY <1>2, <1>3, <2>1, <2>2
  <2>4. \A e, f \in new : e.ord = f.ord => e = f
    BY <1>1, <1>2, <1>3, <2>1, <2>2 DEF CacheOK, Ordered
  <2> QED BY <1>4, <2>3, <2>4 DEF Ordered
<1> HIDE DEF new, N
<1>6. CacheOK(Renumber(new))
  BY <1>4, <1>5, RenumberOK DEF CacheOK
<1>7. Holds(new, hash, now)
  <2>1. entry.hash = hash /\ entry.seen_at_ms = now
    OBVIOUS
  <2> HIDE DEF room, entry
  <2> QED BY <1>2, <2>1 DEF Holds
<1>8. N < DEDUP_CACHE_SIZE => \A h, at : Holds(cache, h, at) => Holds(new, h, at)
  BY <1>1, <1>2, SeenCacheConstants DEF Holds
<1> QED BY <1>5, <1>6, <1>7, <1>8, RenumberOK DEF new, N

-----------------------------------------------------------------------------
(***************************************************************************)
(* Packets, and what a node makes of them.                                 *)
(***************************************************************************)

\* The fields of a packet that a node reads or edits.
PacketOK(pkt) ==
  /\ {"type", "payload", "flood", "path_len", "path"} \subseteq DOMAIN pkt
  /\ pkt.path_len \in 0..(ByteMod - 1)
  /\ pkt.path \in Seq(Int)

\* The path_len that maybe_relay_ leaves is a byte: one more than before, also
\* where the count overflows into the hash size.
LEMMA NextPathLen ==
  ASSUME NEW pl \in 0..(ByteMod - 1), IsValidPathLen(pl)
  PROVE  /\ SetPathHashCount(pl, GetPathHashCount(pl) + 1) = pl + 1
         /\ pl + 1 \in 0..(ByteMod - 1)
<1> DEFINE P == PathCountMod
           q == pl \div P
           c == pl % P
<1>1. P \in Nat \ {0, 1} /\ ByteMod = 4 * P /\ pl \in Nat
  BY PacketConstants DEF ByteMod
<1>2. pl = P * q + c /\ c \in 0..(P - 1) /\ q \in Nat
  BY <1>1, Z3
<1>3. q < 4
  <2> SUFFICES ASSUME q >= 4 PROVE FALSE
    BY <1>2
  <2>1. P * q >= P * 4
    BY <1>1, <1>2, Z3
  <2> QED BY <2>1, <1>1, <1>2
<1>4. q \in 0..2 /\ c * (q + 1) <= MAX_PATH_SIZE
  BY <1>2, <1>3 DEF IsValidPathLen, GetPathHashSize, GetPathHashCount
<1>5. pl \in {c, P + c, 2 * P + c}
  BY <1>1, <1>2, <1>4
<1>6. c = P - 1 => q = 0
  <2> SUFFICES ASSUME c = P - 1, q # 0 PROVE FALSE
    OBVIOUS
  <2>1. c * (q + 1) = c * 2 \/ c * (q + 1) = c * 3
    BY <1>4
  <2> QED BY <2>1, <1>1, <1>2, <1>4, PacketConstants
<1>7. pl + 1 \in 0..(ByteMod - 1)
  BY <1>1, <1>2, <1>5
<1>8. CASE c + 1 < P
  BY <1>1, <1>2, <1>7, <1>8 DEF SetPathHashCount, GetPathHashCount
<1>9. CASE ~(c + 1 < P)
  <2>1. c = P - 1 /\ q = 0 /\ pl = c
    BY <1>1, <1>2, <1>6, <1>9
  <2>2. (0 \div P) % 2 = 0
    BY <1>1, Z3
  <2> QED BY <1>1, <1>7, <1>9, <2>1, <2>2 DEF SetPathHashCount, GetPathHashCount
<1> QED BY <1>8, <1>9

\* The length of a path in bytes is a natural number.
LEMMA ByteLenNat ==
  ASSUME NEW pl \in 0..(ByteMod - 1)
  PROVE  GetPathByteLen(pl) \in Nat
<1>1. PathCountMod \in Nat \ {0} /\ ByteMod \in Nat \ {0} /\ pl \in Nat
  BY PacketConstants DEF ByteMod
<1>2. GetPathHashCount(pl) \in Nat /\ GetPathHashSize(pl) \in Nat
  BY <1>1, Z3 DEF GetPathHashCount, GetPathHashSize
<1>3. GetPathHashCount(pl) * GetPathHashSize(pl) \in Nat
  BY <1>2, SMT
<1> QED BY <1>1, <1>3, Z3 DEF GetPathByteLen

\* What read_from fills in has the packet's type, payload and path.
LEMMA ReadFromKeeps ==
  ASSUME NEW frame, PacketOK(frame.pkt)
  PROVE  LET pkt == ReadFrom(frame) IN
         /\ PacketOK(pkt)
         /\ pkt.type = frame.pkt.type /\ pkt.payload = frame.pkt.payload
         /\ pkt.flood = frame.pkt.flood
         /\ pkt.path_len = frame.pkt.path_len /\ pkt.path = frame.pkt.path
BY DEF ReadFrom, PacketOK

\* The path edit of maybe_relay_ leaves type and payload alone. It shows no
\* more bytes than were there, the new hash byte and zeros or payload.
LEMMA AppendHashKeeps ==
  ASSUME NEW pkt, PacketOK(pkt), IsValidPathLen(pkt.path_len), NEW h \in Int
  PROVE  LET new == AppendHash(pkt, h) IN
         /\ PacketOK(new)
         /\ new.type = pkt.type /\ new.payload = pkt.payload
         /\ new.path_len = pkt.path_len + 1
         /\ new.path = PathBytes(Append(pkt.path, h), GetPathByteLen(new.path_len))
<1> DEFINE len == SetPathHashCount(pkt.path_len, GetPathHashCount(pkt.path_len) + 1)
           path == PathBytes(Append(pkt.path, h), GetPathByteLen(len))
           new == AppendHash(pkt, h)
<1>1. len = pkt.path_len + 1 /\ len \in 0..(ByteMod - 1)
  BY NextPathLen DEF PacketOK
<1>2. path \in Seq(Int)
  <2>1. Append(pkt.path, h) \in Seq(Int) /\ GetPathByteLen(len) \in Nat
    BY <1>1, ByteLenNat DEF PacketOK
  <2>2. \A i \in 1..GetPathByteLen(len) :
          (IF i <= Len(Append(pkt.path, h)) THEN Append(pkt.path, h)[i]
           ELSE IF i <= MAX_PATH_SIZE THEN 0 ELSE PayloadByte) \in Int
    BY <2>1, PacketConstants DEF PayloadByte
  <2> QED BY <2>1, <2>2 DEF PathBytes
<1>3. new = [pkt EXCEPT !.path_len = len, !.path = path]
  BY DEF AppendHash
<1> HIDE DEF len, path, new
<1>4. /\ DOMAIN new = DOMAIN pkt /\ new.type = pkt.type /\ new.payload = pkt.payload
      /\ new.path_len = len /\ new.path = path
  BY <1>3 DEF PacketOK
<1>5. PacketOK(new)
  BY <1>1, <1>2, <1>4 DEF PacketOK
<1> QED BY <1>1, <1>4, <1>5 DEF new, path

\* What a node gives to transmit_ is a packet that has not been relayed.
LEMMA PlayedFlood ==
  ASSUME NEW n \in Nodes, NEW action \in Action, NEW out \in Play(n, action)
  PROVE  /\ PacketOK(out.pkt)
         /\ out.pkt.path = <<>>
         /\ out.pkt.path_len = 0
         /\ out.pkt.type # "TRACE"
<1>1. ASSUME NEW type, NEW payload, out.pkt = FloodPacket(type, payload), type # "TRACE"
      PROVE  /\ PacketOK(out.pkt) /\ out.pkt.path = <<>> /\ out.pkt.path_len = 0
             /\ out.pkt.type # "TRACE"
  BY <1>1, PacketConstants DEF FloodPacket, PacketOK, ByteMod
<1>2. CASE action.send = "advert"
  BY <1>1, <1>2 DEF Play, AdvertOut
<1>3. CASE action.send = "channel_text"
  <2>1. out \in ChannelTextOut(n, action.channel, action.text)
    BY <1>3 DEF Play
  <2> DEFINE flood(c) == FloodPacket("GRP_TXT", [hash |-> ChannelHash[c.psk],
               key |-> c.psk, text |-> action.text, ts |-> Timestamp(n)])
  <2>2. \E c : out.pkt = flood(c)
    BY <2>1 DEF ChannelTextOut
  <2> QED BY <1>1, <2>2
<1>4. CASE action.send = "message"
  <2>1. out \in MessageOut(n, action.text)
    BY <1>4 DEF Play
  <2> DEFINE flood(k) == FloodPacket("TXT_MSG", [dest |-> HashByte[k],
               src |-> HashByte[identity[n].pub], key |-> {identity[n].prv, k},
               text |-> action.text, ts |-> Timestamp(n)])
             msg(k) == Message("on_message", identity[n].pub, k, action.text, Timestamp(n))
  <2>2. out \in {[pkt |-> flood(k), msg |-> msg(k)] : k \in Config[n].peer_public_key}
    BY <2>1 DEF MessageOut
  <2> HIDE DEF msg
  <2>3. \E k : out.pkt = flood(k)
    BY <2>2
  <2> QED BY <1>1, <2>3
<1> QED BY <1>2, <1>3, <1>4 DEF Action

\* A packet fires one trigger at most.
LEMMA OneTrigger ==
  ASSUME NEW n \in Nodes, NEW pkt
  PROVE  Triggers(n, pkt) = {} \/ \E m : Triggers(n, pkt) = {m}
<1>1. AdvertTriggers(pkt.payload) = {} \/ \E m : AdvertTriggers(pkt.payload) = {m}
  BY DEF AdvertTriggers
<1>2. DirectTextTriggers(n, pkt.payload) = {} \/ \E m : DirectTextTriggers(n, pkt.payload) = {m}
  BY DEF DirectTextTriggers
<1>3. GroupTextTriggers(n, pkt.payload) = {} \/ \E m : GroupTextTriggers(n, pkt.payload) = {m}
  <2> DEFINE found == FindChannelByHash(n, pkt.payload.hash)
             trigger(c) == Message("on_channel_message", "member", c.psk,
                                   pkt.payload.text, pkt.payload.ts)
  <2>1. found = {} \/ \E c : found = {c}
    BY DEF FindChannelByHash, FirstChannel
  <2>2. GroupTextTriggers(n, pkt.payload) =
          {trigger(c) : c \in {ch \in found : ch.psk = pkt.payload.key}}
    BY DEF GroupTextTriggers
  <2> HIDE DEF found, trigger
  <2>3. \A c : {trigger(ch) : ch \in {ch \in {c} : ch.psk = pkt.payload.key}}
               \in {{}, {trigger(c)}}
    OBVIOUS
  <2> QED BY <2>1, <2>2, <2>3
<1> QED BY <1>1, <1>2, <1>3 DEF Triggers

\* Automations answer with their configured actions.
LEMMA AnswersPlayed ==
  ASSUME NEW n \in Nodes, NEW pkt, NEW out \in Answers(n, Triggers(n, pkt))
  PROVE  \E action \in Action : out \in Play(n, action)
<1>1. PICK m \in Triggers(n, pkt) : \E action \in Config[n].on[m.on] : out \in Play(n, action)
  BY DEF Answers
<1>2. m.on \in TriggerNames
  BY <1>1 DEF Triggers, AdvertTriggers, GroupTextTriggers, DirectTextTriggers,
              Message, TriggerNames
<1>3. Config[n].on \in [TriggerNames -> SUBSET Action]
  BY ConfigValid DEF Yaml
<1> QED BY <1>1, <1>2, <1>3

\* An automation sends finitely many packets.
LEMMA AnswersFinite ==
  ASSUME NEW n \in Nodes, NEW pkt
  PROVE  IsFiniteSet(Answers(n, Triggers(n, pkt)))
<1> DEFINE triggers == Triggers(n, pkt)
           actions == UNION {Config[n].on[m.on] : m \in triggers}
<1>1. IsFiniteSet(actions) /\ actions \subseteq Action
  <2>1. triggers = {} \/ \E m : triggers = {m}
    BY OneTrigger
  <2>2. \A m \in triggers : m.on \in TriggerNames
    BY DEF Triggers, AdvertTriggers, GroupTextTriggers, DirectTextTriggers,
           Message, TriggerNames
  <2>3. Config[n].on \in [TriggerNames -> SUBSET Action]
    BY ConfigValid DEF Yaml
  <2> HIDE DEF triggers
  <2>4. actions = {} \/ \E m \in triggers : actions = Config[n].on[m.on]
    BY <2>1
  <2> QED BY <2>2, <2>3, <2>4, FS_EmptySet, MeshConstants
<1>2. ASSUME NEW action \in Action PROVE IsFiniteSet(Play(n, action))
  <2>1. CASE action.send = "advert"
    BY <2>1, FS_Singleton DEF Play, AdvertOut
  <2>2. CASE action.send = "channel_text"
    <3> DEFINE found == FindChannelByName(n, action.channel)
               out(c) == [pkt |-> FloodPacket("GRP_TXT",
                                    [hash |-> ChannelHash[c.psk], key |-> c.psk,
                                     text |-> action.text, ts |-> Timestamp(n)]),
                          msg |-> Message("on_channel_message", "member", c.psk,
                                          action.text, Timestamp(n))]
               F == [c \in found |-> out(c)]
    <3>1. IsFiniteSet(found)
      BY FS_EmptySet, FS_Singleton DEF FindChannelByName, FirstChannel
    <3>2. Play(n, action) = {out(c) : c \in found}
      BY <2>2 DEF Play, ChannelTextOut
    <3> HIDE DEF found, out
    <3>3. \A y \in Play(n, action) : \E c \in found : F[c] = y
      BY <3>2
    <3> HIDE DEF F
    <3> QED BY <3>1, <3>3, ImageFinite
  <2>3. CASE action.send = "message"
    <3> DEFINE id == identity[n]
               peers == Config[n].peer_public_key
               out(k) == [pkt |-> FloodPacket("TXT_MSG",
                                    [dest |-> HashByte[k], src |-> HashByte[id.pub],
                                     key |-> {id.prv, k}, text |-> action.text,
                                     ts |-> Timestamp(n)]),
                          msg |-> Message("on_message", id.pub, k, action.text,
                                          Timestamp(n))]
               F == [k \in peers |-> out(k)]
    <3>1. IsFiniteSet(peers)
      BY MeshConstants
    <3>2. Play(n, action) = {out(k) : k \in peers}
      BY <2>3 DEF Play, MessageOut
    <3> HIDE DEF peers, out
    <3>3. \A y \in Play(n, action) : \E k \in peers : F[k] = y
      BY <3>2
    <3> HIDE DEF F
    <3> QED BY <3>1, <3>3, ImageFinite
  <2> QED BY <2>1, <2>2, <2>3 DEF Action
<1> DEFINE plays == {Play(n, action) : action \in actions}
           F == [action \in actions |-> Play(n, action)]
<1>3. Answers(n, triggers) = UNION plays
  BY DEF Answers
<1> HIDE DEF actions
<1>4. IsFiniteSet(plays)
  <2>1. \A y \in plays : \E action \in actions : F[action] = y
    OBVIOUS
  <2> HIDE DEF plays, F
  <2> QED BY <1>1, <2>1, ImageFinite
<1>5. \A T \in plays : IsFiniteSet(T)
  BY <1>1, <1>2
<1> HIDE DEF plays
<1> QED BY <1>3, <1>4, <1>5, FS_UNION

-----------------------------------------------------------------------------
(***************************************************************************)
(* Types.                                                                  *)
(***************************************************************************)

\* Counters and clocks. Boots are faults, so a node has no more of them.
CountsOK ==
  /\ clock \in 0..MaxClock /\ sends \in 0..MaxSends /\ faults \in 0..MaxFaults
  /\ booted \in [Nodes -> 0..clock]
  /\ boots \in [Nodes -> 0..faults]

\* Identities are pairs of keys.
IdentitiesOK ==
  /\ ready \in [Nodes -> BOOLEAN]
  /\ identity \in [Nodes -> [pub : Keys, prv : Keys]]

\* Every node has a cache in order.
CachesOK == DOMAIN seen_cache = Nodes /\ \A n \in Nodes : CacheOK(seen_cache[n])

\* What waits in a delay() and what is on the air are packets between nodes.
TrafficOK ==
  /\ DOMAIN relaying = Nodes
  /\ \A n \in Nodes :
       relaying[n] = {} \/ \E pkt : relaying[n] = {pkt} /\ PacketOK(pkt)
  /\ \A f \in air : f.to \in Nodes /\ f.from \in Nodes /\ PacketOK(f.frame.pkt)

\* Nothing has fired in the future, of time or of boots.
FiredOK ==
  /\ fired = [n \in Nodes |-> fired[n]]
  /\ \A n \in Nodes :
       /\ \E S : fired[n] \in Seq(S)
       /\ \A i \in 1..Len(fired[n]) :
            fired[n][i].at \in 0..clock /\ fired[n][i].boot \in 0..boots[n]

\* The inductive invariant of types.
TypeInv == CountsOK /\ IdentitiesOK /\ CachesOK /\ TrafficOK /\ FiredOK

\* What fires at a node as it handles a packet.
LEMMA HandleFires ==
  ASSUME FiredOK, NEW n \in Nodes, NEW f \in air, Handle(n, f)
  PROVE  LET triggers  == Triggers(n, ReadFrom(f.frame))
             record(m) == [msg |-> m, at |-> clock, boot |-> boots[n]] IN
         \/ triggers = {} /\ fired' = fired
         \/ \E m : /\ triggers = {m}
                   /\ fired' = [fired EXCEPT ![n] = Append(fired[n], record(m))]
<1> DEFINE triggers == Triggers(n, ReadFrom(f.frame))
           record(m) == [msg |-> m, at |-> clock, boot |-> boots[n]]
           records == {record(m) : m \in triggers}
<1>1. fired' = [fired EXCEPT ![n] = fired[n] \o SetToSeq(records)]
  BY DEF Handle
<1>2. triggers = {} \/ \E m : triggers = {m}
  BY OneTrigger
<1> HIDE DEF triggers, record
<1>3. records = {} \/ \E x : records = {x}
  BY <1>2
<1>4. PICK S : fired[n] \in Seq(S)
  BY DEF FiredOK
<1>5. /\ records = {} => fired[n] \o SetToSeq(records) = fired[n]
      /\ \A x : records = {x} => fired[n] \o SetToSeq(records) = Append(fired[n], x)
  <2> HIDE DEF records
  <2> QED BY <1>3, <1>4, FiredStep
<1>6. CASE triggers = {}
  <2>1. records = {}
    BY <1>6
  <2>2. [fired EXCEPT ![n] = fired[n]] = fired
    BY DEF FiredOK
  <2> QED BY <1>1, <1>5, <1>6, <2>1, <2>2 DEF triggers
<1>7. ASSUME NEW m, triggers = {m}
      PROVE  fired' = [fired EXCEPT ![n] = Append(fired[n], record(m))]
  <2>1. records = {record(m)}
    BY <1>7
  <2> QED BY <1>1, <1>5, <2>1
<1> QED BY <1>2, <1>6, <1>7 DEF triggers, record

\* A node without configured keys has the zero key for both.
LEMMA ConfiguredKeys == Configured \in [Nodes -> [pub : Keys, prv : Keys]]
<1> SUFFICES ASSUME NEW n \in Nodes
             PROVE  /\ Optional(Config[n].public_key, NoKey) \in Keys
                    /\ Optional(Config[n].private_key, NoKey) \in Keys
  BY DEF Configured
<1>1. Config[n].public_key \subseteq Keys /\ Config[n].private_key \subseteq Keys
  BY ConfigValid DEF Yaml
<1> QED BY <1>1, MeshConstants DEF Optional

\* A node that boots has the types.
LEMMA InitTypeInv == Init => TypeInv
<1> SUFFICES ASSUME Init PROVE TypeInv
  OBVIOUS
<1>1. CountsOK
  BY MeshConstants DEF Init, CountsOK
<1>2. IdentitiesOK
  BY ConfiguredKeys DEF Init, IdentitiesOK
<1>3. CachesOK
  <2>1. CacheOK({})
    BY FS_EmptySet, SeenCacheConstants DEF CacheOK, Ordered
  <2> QED BY <2>1 DEF Init, CachesOK
<1>4. TrafficOK
  BY DEF Init, TrafficOK
<1>5. FiredOK
  <2>1. <<>> \in Seq(Nat) /\ Len(<<>>) = 0
    OBVIOUS
  <2> QED BY <2>1 DEF Init, FiredOK
<1> QED BY <1>1, <1>2, <1>3, <1>4, <1>5 DEF TypeInv

\* Only a reboot, a tick, a packet of its own accord or a fault counts.
LEMMA NextCountsOK == TypeInv /\ [Next]_vars => CountsOK'
<1> SUFFICES ASSUME TypeInv, [Next]_vars PROVE CountsOK'
  OBVIOUS
<1>1. CountsOK
  BY DEF TypeInv
<1>2. ASSUME NEW n \in Nodes, NEW f \in air, Handle(n, f) PROVE CountsOK'
  <2> DEFINE answers == Answers(n, Triggers(n, ReadFrom(f.frame)))
  <2>1. PICK outs \in SUBSET answers :
          faults' = faults + Cardinality(answers \ outs) /\ faults' <= MaxFaults
    BY <1>2 DEF Handle
  <2>2. IsFiniteSet(answers)
    BY AnswersFinite
  <2> HIDE DEF answers
  <2>3. Cardinality(answers \ outs) \in Nat
    BY <2>2, FS_Difference, FS_CardinalityType
  <2>4. faults' \in 0..MaxFaults /\ faults' >= faults
    BY <1>1, <2>1, <2>3, MeshConstants DEF CountsOK
  <2>5. UNCHANGED <<clock, booted, boots, sends>>
    BY <1>2 DEF Handle, node
  <2>6. \A m \in Nodes : boots[m] \in 0..faults'
    BY <1>1, <2>4, MeshConstants DEF CountsOK
  <2> QED BY <1>1, <2>4, <2>5, <2>6 DEF CountsOK
<1>3. ASSUME NEW n \in Nodes, Setup(n) \/ Relay(n) \/ RelayFails(n) PROVE CountsOK'
  BY <1>1, <1>3, MeshConstants DEF Setup, Relay, RelayFails, node, CountsOK
<1>4. ASSUME NEW n, NEW out, Send(n, out) \/ SendFails(n) PROVE CountsOK'
  BY <1>1, <1>4, MeshConstants DEF Send, SendFails, node, CountsOK
<1>5. ASSUME NEW n \in Nodes, Reboot(n) PROVE CountsOK'
  BY <1>1, <1>5, MeshConstants DEF Reboot, CountsOK
<1>6. ASSUME NEW n, NEW f, DropMalformed(n, f) \/ DropDuplicate(n, f) PROVE CountsOK'
  BY <1>1, <1>6 DEF DropMalformed, DropDuplicate, node, CountsOK
<1>7. ASSUME NEW p, ForeignSend(p) PROVE CountsOK'
  BY <1>1, <1>7, MeshConstants DEF ForeignSend, node, CountsOK
<1>8. ASSUME NEW f, Lose(f) PROVE CountsOK'
  BY <1>1, <1>8, MeshConstants DEF Lose, node, CountsOK
<1>9. CASE Tick
  BY <1>1, <1>9, MeshConstants DEF Tick, node, CountsOK
<1>10. CASE UNCHANGED vars
  BY <1>1, <1>10 DEF vars, node, CountsOK
<1> QED BY <1>2, <1>3, <1>4, <1>5, <1>6, <1>7, <1>8, <1>9, <1>10 DEF Next, Receive

\* setup() and reboots set identities, to keys.
LEMMA NextIdentitiesOK == TypeInv /\ [Next]_vars => IdentitiesOK'
<1> SUFFICES ASSUME TypeInv, [Next]_vars PROVE IdentitiesOK'
  OBVIOUS
<1>1. IdentitiesOK
  BY DEF TypeInv
<1>2. ASSUME NEW n \in Nodes, Setup(n) PROVE IdentitiesOK'
  BY <1>1, <1>2, MeshConstants DEF Setup, IdentitiesOK
<1>3. ASSUME NEW n \in Nodes, Reboot(n) PROVE IdentitiesOK'
  BY <1>1, <1>3, ConfiguredKeys DEF Reboot, IdentitiesOK
<1>4. ASSUME UNCHANGED <<ready, identity>> PROVE IdentitiesOK'
  BY <1>1, <1>4 DEF IdentitiesOK
<1>5. ASSUME NEW n \in Nodes, Receive(n) \/ Relay(n) \/ RelayFails(n)
      PROVE  UNCHANGED <<ready, identity>>
  BY <1>5 DEF Receive, DropMalformed, DropDuplicate, Handle, Relay, RelayFails, node
<1>6. ASSUME NEW n \in Nodes, NEW out, Send(n, out) \/ SendFails(n)
      PROVE  UNCHANGED <<ready, identity>>
  BY <1>6 DEF Send, SendFails, node
<1>7. ASSUME NEW x, ForeignSend(x) \/ Lose(x) \/ Tick \/ UNCHANGED vars
      PROVE  UNCHANGED <<ready, identity>>
  BY <1>7 DEF ForeignSend, Lose, Tick, vars, node
<1> QED BY <1>2, <1>3, <1>4, <1>5, <1>6, <1>7 DEF Next

\* Handled packets, duplicates and reboots leave a cache in order.
LEMMA NextCachesOK == TypeInv /\ [Next]_vars => CachesOK'
<1> SUFFICES ASSUME TypeInv, [Next]_vars PROVE CachesOK'
  OBVIOUS
<1>1. CachesOK
  BY DEF TypeInv
<1>2. ASSUME NEW n \in Nodes, NEW cache, CacheOK(cache),
             seen_cache' = [seen_cache EXCEPT ![n] = cache]
      PROVE  CachesOK'
  BY <1>1, <1>2 DEF CachesOK
<1>3. ASSUME NEW n \in Nodes, NEW f \in air, Handle(n, f) PROVE CachesOK'
  <2> DEFINE kept == Unexpired(seen_cache[n], Millis(n))
             hash == PacketHash(ReadFrom(f.frame))
             new  == Renumber(Remember(Renumber(kept), hash, Millis(n),
                                       Cardinality(kept) + 1))
  <2>1. seen_cache' = [seen_cache EXCEPT ![n] = new]
    BY <1>3 DEF Handle
  <2> HIDE DEF hash
  <2>2. Ordered(kept) /\ CacheOK(Renumber(kept))
    BY <1>1, KeptOK DEF CachesOK
  <2>3. Cardinality(Renumber(kept)) = Cardinality(kept)
    BY <2>2, RenumberOK
  <2> HIDE DEF kept
  <2>4. CacheOK(new)
    BY <2>2, <2>3, RememberOK
  <2> QED BY <1>2, <2>1, <2>4
<1>4. ASSUME NEW n \in Nodes, NEW f \in air, DropDuplicate(n, f) PROVE CachesOK'
  BY <1>1, <1>2, <1>4, KeptOK DEF DropDuplicate, CachesOK
<1>5. ASSUME NEW n \in Nodes, Reboot(n) PROVE CachesOK'
  <2>1. CacheOK({})
    BY FS_EmptySet, SeenCacheConstants DEF CacheOK, Ordered
  <2> QED BY <1>2, <1>5, <2>1 DEF Reboot
<1>6. ASSUME NEW n \in Nodes, NEW x, \/ DropMalformed(n, x) \/ Setup(n) \/ Relay(n)
                                     \/ RelayFails(n) \/ Send(n, x) \/ SendFails(n)
      PROVE  UNCHANGED seen_cache
  BY <1>6 DEF DropMalformed, Setup, Relay, RelayFails, Send, SendFails
<1>7. ASSUME NEW x, ForeignSend(x) \/ Lose(x) \/ Tick \/ UNCHANGED vars
      PROVE  UNCHANGED seen_cache
  BY <1>7 DEF ForeignSend, Lose, Tick, vars
<1>8. UNCHANGED seen_cache => CachesOK'
  BY <1>1 DEF CachesOK
<1> QED BY <1>3, <1>4, <1>5, <1>6, <1>7, <1>8 DEF Next, Receive

\* What nodes send, relay and edit are packets that fit the wire.
LEMMA NextTrafficOK == TypeInv /\ [Next]_vars => TrafficOK'
<1> SUFFICES ASSUME TypeInv, [Next]_vars PROVE TrafficOK'
  OBVIOUS
<1>1. TrafficOK
  BY DEF TypeInv
<1>2. ASSUME NEW n \in Nodes, NEW pkt, PacketOK(pkt), NEW g \in Broadcast(n, pkt)
      PROVE  g.to \in Nodes /\ g.from \in Nodes /\ PacketOK(g.frame.pkt)
  BY <1>2, MeshConstants DEF Broadcast, WriteTo
<1>3. ASSUME NEW n \in Nodes, NEW f \in air, Handle(n, f) PROVE TrafficOK'
  <2> DEFINE pkt == ReadFrom(f.frame)
             edited == AppendHash(pkt, HashByte[identity[n].pub])
             answers == Answers(n, Triggers(n, pkt))
  <2>1. PICK outs \in SUBSET answers :
          air' = (air \ {f}) \cup UNION {Broadcast(n, out.pkt) : out \in outs}
    BY <1>3 DEF Handle
  <2>2. \/ relaying' = [relaying EXCEPT ![n] = {edited}]
        \/ relaying' = [relaying EXCEPT ![n] = {}]
    BY <1>3 DEF Handle
  <2>3. \A out \in outs : PacketOK(out.pkt)
    BY <2>1, AnswersPlayed, PlayedFlood
  <2>4. PacketOK(edited)
    <3>1. PacketOK(pkt) /\ IsValidPathLen(pkt.path_len)
      BY <1>1, <1>3, ReadFromKeeps DEF TrafficOK, Handle, ReadFromOk
    <3>2. HashByte[identity[n].pub] \in Int
      BY MeshConstants DEF TypeInv, IdentitiesOK
    <3> HIDE DEF pkt
    <3> QED BY <3>1, <3>2, AppendHashKeeps
  <2> HIDE DEF edited, answers
  <2>5. \A g \in air' : g.to \in Nodes /\ g.from \in Nodes /\ PacketOK(g.frame.pkt)
    BY <1>1, <1>2, <2>1, <2>3 DEF TrafficOK
  <2> QED BY <1>1, <2>2, <2>4, <2>5 DEF TrafficOK
<1>4. ASSUME NEW n \in Nodes, NEW action \in Config[n].press,
             NEW out \in Play(n, action), Send(n, out)
      PROVE  TrafficOK'
  <2>1. PacketOK(out.pkt)
    BY PlayedFlood, ConfigValid DEF Yaml
  <2> QED BY <1>1, <1>2, <1>4, <2>1 DEF Send, TrafficOK
<1>5. ASSUME NEW n \in Nodes, Relay(n) PROVE TrafficOK'
  <2>1. \A pkt \in relaying[n] : PacketOK(pkt)
    BY <1>1 DEF TrafficOK
  <2> QED BY <1>1, <1>2, <1>5, <2>1 DEF Relay, TrafficOK
<1>6. ASSUME NEW p \in ForeignPackets, ForeignSend(p) PROVE TrafficOK'
  <2>1. p.to \subseteq Nodes /\ PacketOK(p.pkt)
    BY MeshConstants DEF PacketOK
  <2> QED BY <1>1, <1>6, <2>1 DEF ForeignSend, WriteTo, TrafficOK
<1>7. ASSUME air' \subseteq air,
             \/ relaying' = relaying
             \/ \E n \in Nodes : relaying' = [relaying EXCEPT ![n] = {}]
      PROVE  TrafficOK'
  BY <1>1, <1>7 DEF TrafficOK
<1>8. ASSUME NEW n \in Nodes, NEW f, DropMalformed(n, f) \/ DropDuplicate(n, f)
      PROVE  TrafficOK'
  BY <1>7, <1>8 DEF DropMalformed, DropDuplicate
<1>9. ASSUME NEW n \in Nodes, Setup(n) \/ SendFails(n) \/ RelayFails(n) \/ Reboot(n)
      PROVE  TrafficOK'
  BY <1>7, <1>9 DEF Setup, SendFails, RelayFails, Reboot
<1>10. ASSUME NEW f, Lose(f) \/ Tick \/ UNCHANGED vars PROVE TrafficOK'
  BY <1>7, <1>10 DEF Lose, Tick, vars
<1> QED BY <1>3, <1>4, <1>5, <1>6, <1>8, <1>9, <1>10 DEF Next, Receive

\* What fires bears the time and the boot of the step it fires in.
LEMMA NextFiredOK == TypeInv /\ [Next]_vars => FiredOK'
<1> SUFFICES ASSUME TypeInv, [Next]_vars PROVE FiredOK'
  OBVIOUS
<1>1. FiredOK /\ CountsOK /\ CountsOK'
  BY NextCountsOK DEF TypeInv
<1>2. clock \in Nat /\ clock' \in Nat /\ \A n \in Nodes : boots[n] \in Nat /\ boots'[n] \in Nat
  BY <1>1, MeshConstants DEF CountsOK
<1>3. ASSUME fired' = fired, clock <= clock', \A n \in Nodes : boots[n] <= boots'[n]
      PROVE  FiredOK'
  <2>1. ASSUME NEW n \in Nodes, NEW i \in 1..Len(fired[n])
        PROVE  fired[n][i].at \in 0..clock' /\ fired[n][i].boot \in 0..boots'[n]
    <3>1. fired[n][i].at \in 0..clock /\ fired[n][i].boot \in 0..boots[n]
      BY <1>1 DEF FiredOK
    <3> QED BY <1>2, <1>3, <3>1
  <2> QED BY <1>1, <1>3, <2>1 DEF FiredOK
<1>4. UNCHANGED <<clock, boots, fired>> => FiredOK'
  BY <1>1 DEF FiredOK
<1>5. ASSUME NEW n \in Nodes, NEW f \in air, Handle(n, f) PROVE FiredOK'
  <2> DEFINE record(m) == [msg |-> m, at |-> clock, boot |-> boots[n]]
  <2>1. UNCHANGED <<clock, boots>>
    BY <1>5 DEF Handle, node
  <2>2. fired' = fired \/ \E m : fired' = [fired EXCEPT ![n] = Append(fired[n], record(m))]
    BY <1>1, <1>5, HandleFires
  <2>3. ASSUME NEW m, fired' = [fired EXCEPT ![n] = Append(fired[n], record(m))]
        PROVE  FiredOK'
    <3>1. PICK S : fired[n] \in Seq(S)
      BY <1>1 DEF FiredOK
    <3>2. /\ record(m).at = clock /\ record(m).boot = boots[n]
          /\ clock \in 0..clock /\ boots[n] \in 0..boots[n]
      BY <1>2
    <3> HIDE DEF record
    <3>3. /\ Append(fired[n], record(m)) \in Seq(S \cup {record(m)})
          /\ Len(Append(fired[n], record(m))) = Len(fired[n]) + 1
          /\ \A i \in 1..(Len(fired[n]) + 1) :
               Append(fired[n], record(m))[i] =
                 IF i = Len(fired[n]) + 1 THEN record(m) ELSE fired[n][i]
      BY <3>1, OneMore
    <3>4. \A i \in 1..(Len(fired[n]) + 1) :
            /\ Append(fired[n], record(m))[i].at \in 0..clock
            /\ Append(fired[n], record(m))[i].boot \in 0..boots[n]
      BY <1>1, <3>1, <3>2, <3>3 DEF FiredOK
    <3> QED BY <1>1, <2>1, <2>3, <3>3, <3>4 DEF FiredOK
  <2> QED BY <1>4, <2>1, <2>2, <2>3
<1>6. ASSUME NEW n \in Nodes, Reboot(n) PROVE FiredOK'
  <2>1. fired' = fired /\ clock' = clock /\ boots' = [boots EXCEPT ![n] = @ + 1]
    BY <1>6 DEF Reboot
  <2>2. \A m \in Nodes : boots[m] <= boots'[m]
    BY <1>1, <1>2, <2>1 DEF CountsOK
  <2> QED BY <1>2, <1>3, <2>1, <2>2
<1>7. CASE Tick
  <2>1. fired' = fired /\ clock' = clock + 1 /\ boots' = boots
    BY <1>7 DEF Tick, node
  <2> QED BY <1>2, <1>3, <2>1
<1>8. ASSUME NEW n \in Nodes, NEW x, \/ DropMalformed(n, x) \/ DropDuplicate(n, x)
                                     \/ Setup(n) \/ Relay(n) \/ RelayFails(n)
                                     \/ Send(n, x) \/ SendFails(n)
      PROVE  UNCHANGED <<clock, boots, fired>>
  BY <1>8 DEF DropMalformed, DropDuplicate, Setup, Relay, RelayFails, Send,
              SendFails, node
<1>9. ASSUME NEW x, ForeignSend(x) \/ Lose(x) \/ UNCHANGED vars
      PROVE  UNCHANGED <<clock, boots, fired>>
  BY <1>9 DEF ForeignSend, Lose, vars, node
<1> QED BY <1>4, <1>5, <1>6, <1>7, <1>8, <1>9 DEF Next, Receive

\* The invariant of types is inductive.
LEMMA NextTypeInv == TypeInv /\ [Next]_vars => TypeInv'
BY NextCountsOK, NextIdentitiesOK, NextCachesOK, NextTrafficOK, NextFiredOK DEF TypeInv

\* It says what TypeOK says.
LEMMA TypeInvTypeOK == TypeInv => TypeOK
<1> SUFFICES ASSUME TypeInv PROVE TypeOK
  OBVIOUS
<1>1. CountsOK /\ IdentitiesOK /\ CachesOK /\ TrafficOK /\ FiredOK
  BY DEF TypeInv
<1>2. ASSUME NEW n \in Nodes
      PROVE  /\ booted[n] \in 0..clock
             /\ ready[n] \in BOOLEAN
             /\ identity[n] \in [pub : Keys, prv : Keys]
             /\ boots[n] \in 0..MaxFaults
             /\ Cardinality(seen_cache[n]) <= DEDUP_CACHE_SIZE
             /\ {e.ord : e \in seen_cache[n]} = 1..Cardinality(seen_cache[n])
             /\ Cardinality(relaying[n]) <= 1
             /\ \A i \in 1..Len(fired[n]) : fired[n][i].at \in 0..clock
  <2>1. booted[n] \in 0..clock /\ boots[n] \in 0..MaxFaults
    BY <1>1, MeshConstants DEF CountsOK
  <2>2. ready[n] \in BOOLEAN /\ identity[n] \in [pub : Keys, prv : Keys]
    BY <1>1 DEF IdentitiesOK
  <2>3. /\ Cardinality(seen_cache[n]) <= DEDUP_CACHE_SIZE
        /\ {e.ord : e \in seen_cache[n]} = 1..Cardinality(seen_cache[n])
    BY <1>1 DEF CachesOK, CacheOK
  <2>4. Cardinality(relaying[n]) <= 1
    <3>1. relaying[n] = {} \/ \E pkt : relaying[n] = {pkt}
      BY <1>1 DEF TrafficOK
    <3>2. Cardinality(relaying[n]) \in {0, 1}
      BY <3>1, FS_EmptySet, FS_Singleton
    <3> QED BY <3>2
  <2>5. \A i \in 1..Len(fired[n]) : fired[n][i].at \in 0..clock
    BY <1>1 DEF FiredOK
  <2> QED BY <2>1, <2>2, <2>3, <2>4, <2>5
<1>3. \A pkt \in Frames : pkt.path_len \in 0..(ByteMod - 1)
  BY <1>1 DEF Frames, TrafficOK, PacketOK
<1> QED BY <1>1, <1>2, <1>3 DEF TypeOK, CountsOK, TrafficOK

\* The variables are what their comments say: a cache has no more entries than
\* it may, in an unbroken order; nobody waits to transmit two packets; every
\* path_len on the air is a byte; nothing has fired in the future.
THEOREM MeshTypeOK == Spec => []TypeOK
<1>1. Init => TypeInv
  BY InitTypeInv
<1>2. TypeInv /\ [Next]_vars => TypeInv'
  BY NextTypeInv
<1>3. TypeInv => TypeOK
  BY TypeInvTypeOK
<1> QED BY <1>1, <1>2, <1>3, PTL DEF Spec

-----------------------------------------------------------------------------
(***************************************************************************)
(* Identities.                                                             *)
(***************************************************************************)

\* A node goes by its configured key pair or by one that setup() generated.
IdentityInv ==
  /\ DOMAIN ready = Nodes /\ DOMAIN identity = Nodes
  /\ \A n \in Nodes :
       /\ identity[n].pub = identity[n].prv
       /\ identity[n].pub \in OwnKeys(n)
       /\ ready[n] \/ LooksUnset(Configured[n])
       /\ identity[n] = Configured[n] \/ LooksUnset(Configured[n])

\* Where every node has its configured pair for an identity, each pair is one key.
LEMMA InitIdentityInv == KeyPairs /\ Init => IdentityInv
BY DEF Init, IdentityInv, KeyPairs, OwnKeys, Configured

\* What setup() and reboots do to identities; nothing else touches them.
LEMMA NextIdentityInv ==
  KeyPairs /\ IdentityInv /\ [Next]_vars => IdentityInv'
<1> SUFFICES ASSUME KeyPairs, IdentityInv, [Next]_vars PROVE IdentityInv'
  OBVIOUS
<1>1. ASSUME NEW n \in Nodes, Setup(n) PROVE IdentityInv'
  BY <1>1 DEF Setup, IdentityInv, OwnKeys
<1>2. ASSUME NEW n \in Nodes, Reboot(n) PROVE IdentityInv'
  BY <1>2 DEF Reboot, IdentityInv, OwnKeys, KeyPairs
<1>3. ASSUME UNCHANGED <<ready, identity>> PROVE IdentityInv'
  BY <1>3 DEF IdentityInv
<1>4. ASSUME NEW n \in Nodes, Receive(n) PROVE UNCHANGED <<ready, identity>>
  BY <1>4 DEF Receive, DropMalformed, DropDuplicate, Handle, node
<1>5. ASSUME NEW n \in Nodes, Relay(n) \/ RelayFails(n) PROVE UNCHANGED <<ready, identity>>
  BY <1>5 DEF Relay, RelayFails, node
<1>6. ASSUME NEW n \in Nodes, NEW out, Send(n, out) \/ SendFails(n)
      PROVE  UNCHANGED <<ready, identity>>
  BY <1>6 DEF Send, SendFails, node
<1>7. ASSUME NEW p, ForeignSend(p) PROVE UNCHANGED <<ready, identity>>
  BY <1>7 DEF ForeignSend, node
<1>8. ASSUME NEW f, Lose(f) PROVE UNCHANGED <<ready, identity>>
  BY <1>8 DEF Lose, node
<1>9. ASSUME Tick \/ UNCHANGED vars PROVE UNCHANGED <<ready, identity>>
  BY <1>9 DEF Tick, vars, node
<1> QED BY <1>1, <1>2, <1>3, <1>4, <1>5, <1>6, <1>7, <1>8, <1>9 DEF Next

\* A node goes by its configured identity after every boot, if not both of its
\* keys begin with a zero byte.
THEOREM IdentityKept ==
  ASSUME KeyPairs, IdentitiesShow
  PROVE  Spec => []ConfiguredIdentityKept
<1>1. Init => IdentityInv
  BY InitIdentityInv
<1>2. IdentityInv /\ [Next]_vars => IdentityInv'
  BY NextIdentityInv
<1>3. IdentityInv => ConfiguredIdentityKept
  BY DEF IdentityInv, IdentitiesShow, ConfiguredIdentityKept
<1> QED BY <1>1, <1>2, <1>3, PTL DEF Spec

-----------------------------------------------------------------------------
(***************************************************************************)
(* Who means what.                                                         *)
(***************************************************************************)

\* The packet is what the send functions make of the message.
StandsFor(pkt, m) ==
  \/ /\ pkt.type = "ADVERT"
     /\ m = Message("on_advert", m.from, "all", "name", m.ts)
     /\ pkt.payload = [pub |-> m.from, sig |-> [pub |-> m.from, prv |-> m.from],
                       ts |-> m.ts]
  \/ /\ pkt.type = "GRP_TXT"
     /\ m = Message("on_channel_message", "member", m.to, m.text, m.ts)
     /\ pkt.payload = [hash |-> ChannelHash[m.to], key |-> m.to, text |-> m.text,
                       ts |-> m.ts]
  \/ /\ pkt.type = "TXT_MSG"
     /\ m = Message("on_message", m.from, m.to, m.text, m.ts)
     /\ pkt.payload = [dest |-> HashByte[m.to], src |-> HashByte[m.from],
                       key |-> {m.from, m.to}, text |-> m.text, ts |-> m.ts]

\* A packet that nodes handle stands for one of the messages.
Meant(pkt, messages) ==
  pkt.type \in {"ADVERT", "GRP_TXT", "TXT_MSG"} => \E m \in messages : StandsFor(pkt, m)

\* What the node answers to.
Names(n) ==
  {"all", identity[n].pub} \cup {Channels[n][i].psk : i \in 1..Len(Channels[n])}

\* The inductive invariant: no packet on the air or in a delay() is another than
\* its sender's, and what has fired was sent.
MeantInv ==
  /\ IdentityInv
  /\ \A f \in air : Meant(f.frame.pkt, sent)
  /\ \A n \in Nodes : \A pkt \in relaying[n] : Meant(pkt, sent)
  /\ \A n \in Nodes : \A i \in 1..Len(fired[n]) : fired[n][i].msg \in sent

\* Type and payload are what counts, and more messages make nothing wrong.
LEMMA StillMeant ==
  ASSUME NEW messages, NEW pkt, Meant(pkt, messages)
  PROVE  /\ \A new : new.type = pkt.type /\ new.payload = pkt.payload => Meant(new, messages)
         /\ \A more : messages \subseteq more => Meant(pkt, more)
BY DEF Meant, StandsFor

\* What a node gives to transmit_ stands for the message it means.
LEMMA PlayedMeant ==
  ASSUME TypeInv, IdentityInv, NEW n \in Nodes, NEW action \in Action,
         NEW out \in Play(n, action)
  PROVE  StandsFor(out.pkt, out.msg)
<1> DEFINE id == identity[n]
<1>1. id = [pub |-> id.pub, prv |-> id.pub]
  BY DEF IdentityInv, TypeInv, IdentitiesOK
<1>2. CASE action.send = "advert"
  BY <1>1, <1>2 DEF Play, AdvertOut, FloodPacket, Message, StandsFor
<1>3. CASE action.send = "channel_text"
  <2> DEFINE payload(c) == [hash |-> ChannelHash[c.psk], key |-> c.psk,
                            text |-> action.text, ts |-> Timestamp(n)]
             msg(c) == Message("on_channel_message", "member", c.psk, action.text,
                               Timestamp(n))
             found == FindChannelByName(n, action.channel)
  <2>1. out \in {[pkt |-> FloodPacket("GRP_TXT", payload(c)), msg |-> msg(c)] : c \in found}
    BY <1>3 DEF Play, ChannelTextOut
  <2> HIDE DEF payload, msg, found
  <2>2. PICK c \in found : /\ out.pkt = FloodPacket("GRP_TXT", payload(c))
                           /\ out.msg = msg(c)
    BY <2>1
  <2>3. out.pkt.type = "GRP_TXT" /\ out.pkt.payload = payload(c)
    BY <2>2 DEF FloodPacket
  <2> QED BY <2>2, <2>3 DEF StandsFor, Message, msg, payload
<1>4. CASE action.send = "message"
  <2> DEFINE payload(k) == [dest |-> HashByte[k], src |-> HashByte[id.pub],
                            key |-> {id.prv, k}, text |-> action.text,
                            ts |-> Timestamp(n)]
             msg(k) == Message("on_message", id.pub, k, action.text, Timestamp(n))
             peers == Config[n].peer_public_key
  <2>1. out \in {[pkt |-> FloodPacket("TXT_MSG", payload(k)), msg |-> msg(k)] : k \in peers}
    BY <1>4 DEF Play, MessageOut
  <2> HIDE DEF payload, msg, peers
  <2>2. PICK k \in peers : /\ out.pkt = FloodPacket("TXT_MSG", payload(k))
                           /\ out.msg = msg(k)
    BY <2>1
  <2>3. out.pkt.type = "TXT_MSG" /\ out.pkt.payload = payload(k)
    BY <2>2 DEF FloodPacket
  <2>4. id.prv = id.pub
    BY <1>1
  <2> HIDE DEF id
  <2> QED BY <2>2, <2>3, <2>4 DEF StandsFor, Message, msg, payload
<1> QED BY <1>2, <1>3, <1>4 DEF Action

\* find_channel_ finds a channel of the node.
LEMMA ChannelFound ==
  ASSUME NEW n \in Nodes, NEW hash, NEW c \in FindChannelByHash(n, hash)
  PROVE  \E i \in 1..Len(Channels[n]) : c = Channels[n][i] /\ ChannelHash[c.psk] = hash
<1> DEFINE found == {i \in DOMAIN Channels[n] : ChannelHash[Channels[n][i].psk] = hash}
<1>1. DOMAIN Channels[n] = 1..Len(Channels[n]) /\ Len(Channels[n]) \in Nat
  BY ConfigValid DEF Yaml, Channels
<1>2. found # {} /\ c = Channels[n][Min(found)]
  BY DEF FindChannelByHash, FirstChannel
<1>3. found \in SUBSET Nat
  BY <1>1
<1>4. Min(found) \in found
  BY <1>2, <1>3, LeastNat DEF Min
<1> QED BY <1>1, <1>2, <1>4

\* A trigger fires only for a message sent to the node. Were it an echo of the
\* node's own text, that would be addressed to the peer, whose key does not
\* begin like the node's.
LEMMA TriggerMeant ==
  ASSUME IdentityInv, PeersDiffer, NEW n \in Nodes, NEW messages,
         NEW pkt, Meant(pkt, messages), NEW m \in Triggers(n, pkt)
  PROVE  m \in messages /\ m.to \in Names(n) /\ StandsFor(pkt, m)
<1> DEFINE id == identity[n]
           p == pkt.payload
<1>1. CASE pkt.type = "ADVERT"
  <2>1. m = Message("on_advert", p.pub, "all", "name", p.ts)
    BY <1>1 DEF Triggers, AdvertTriggers
  <2>2. PICK s \in messages : StandsFor(pkt, s)
    BY <1>1 DEF Meant
  <2>3. /\ s = Message("on_advert", s.from, "all", "name", s.ts)
        /\ p.pub = s.from /\ p.ts = s.ts
    BY <1>1, <2>2 DEF StandsFor
  <2> QED BY <2>1, <2>2, <2>3 DEF Names, Message
<1>2. CASE pkt.type = "GRP_TXT"
  <2>1. PICK c \in FindChannelByHash(n, p.hash) :
          /\ c.psk = p.key
          /\ m = Message("on_channel_message", "member", c.psk, p.text, p.ts)
    BY <1>2 DEF Triggers, GroupTextTriggers
  <2>2. PICK s \in messages : StandsFor(pkt, s)
    BY <1>2 DEF Meant
  <2>3. /\ s = Message("on_channel_message", "member", s.to, s.text, s.ts)
        /\ p.key = s.to /\ p.text = s.text /\ p.ts = s.ts
    BY <1>2, <2>2 DEF StandsFor
  <2>4. m.to = c.psk
    BY <2>1 DEF Message
  <2> QED BY <2>1, <2>2, <2>3, <2>4, ChannelFound DEF Names
<1>3. CASE pkt.type = "TXT_MSG"
  <2>1. /\ HashByte[id.pub] = p.dest /\ Peer[n] # NoKey /\ HashByte[Peer[n]] = p.src
        /\ {id.prv, Peer[n]} = p.key
        /\ m = Message("on_message", Peer[n], id.pub, p.text, p.ts)
    BY <1>3 DEF Triggers, DirectTextTriggers
  <2>2. PICK s \in messages : StandsFor(pkt, s)
    BY <1>3 DEF Meant
  <2>3. /\ s = Message("on_message", s.from, s.to, s.text, s.ts)
        /\ p.dest = HashByte[s.to] /\ p.src = HashByte[s.from] /\ p.key = {s.from, s.to}
        /\ p.text = s.text /\ p.ts = s.ts
    BY <1>3, <2>2 DEF StandsFor
  <2>4. id.pub = id.prv /\ id.pub \in OwnKeys(n)
    BY DEF IdentityInv
  <2>5. Peer[n] \in Config[n].peer_public_key
    BY <2>1 DEF Peer, Optional
  <2>6. HashByte[id.pub] # HashByte[Peer[n]]
    BY <2>4, <2>5 DEF PeersDiffer
  <2>7. s.from = Peer[n] /\ s.to = id.pub
    BY <2>1, <2>3, <2>4, <2>6
  <2>8. m = s
    BY <2>1, <2>3, <2>7
  <2> QED BY <2>2, <2>7, <2>8 DEF Names
<1> QED BY <1>1, <1>2, <1>3 DEF Triggers

\* Nothing is on the air at first.
LEMMA InitMeantInv == KeyPairs /\ Init => MeantInv
<1> SUFFICES ASSUME KeyPairs, Init PROVE MeantInv
  OBVIOUS
<1>1. IdentityInv
  BY InitIdentityInv
<1>2. Len(<<>>) = 0
  OBVIOUS
<1> QED BY <1>1, <1>2 DEF Init, MeantInv

\* A step that puts nothing new on the air, in a delay() or before a user.
LEMMA NothingNew ==
  ASSUME MeantInv, IdentityInv', sent \subseteq sent', fired' = fired,
         \A f \in air' : f \in air \/ Meant(f.frame.pkt, sent'),
         \A n \in Nodes : relaying'[n] \subseteq relaying[n]
  PROVE  MeantInv'
<1>1. \A f \in air' : Meant(f.frame.pkt, sent')
  BY StillMeant DEF MeantInv
<1>2. \A n \in Nodes : \A pkt \in relaying'[n] : Meant(pkt, sent')
  BY StillMeant DEF MeantInv
<1> QED BY <1>1, <1>2 DEF MeantInv

\* Every step of every node and of the air keeps the invariant.
LEMMA NextMeantInv ==
  KeyPairs /\ PeersDiffer /\ OthersForeign /\ TypeInv /\ MeantInv /\ [Next]_vars
    => MeantInv'
<1> SUFFICES ASSUME KeyPairs, PeersDiffer, OthersForeign, TypeInv, MeantInv, [Next]_vars
             PROVE  MeantInv'
  OBVIOUS
<1>1. IdentityInv /\ IdentityInv'
  BY NextIdentityInv DEF MeantInv
<1>2. ASSUME NEW n \in Nodes, NEW pkt, Meant(pkt, sent'), NEW g \in Broadcast(n, pkt)
      PROVE  Meant(g.frame.pkt, sent')
  BY <1>2 DEF Broadcast, WriteTo
<1>3. ASSUME NEW n \in Nodes, NEW f \in air, Handle(n, f) PROVE MeantInv'
  <2> DEFINE pkt == ReadFrom(f.frame)
             edited == AppendHash(pkt, HashByte[identity[n].pub])
             answers == Answers(n, Triggers(n, pkt))
  <2>1. PICK outs \in SUBSET answers :
          /\ air' = (air \ {f}) \cup UNION {Broadcast(n, out.pkt) : out \in outs}
          /\ sent' = sent \cup {out.msg : out \in outs}
    BY <1>3 DEF Handle
  <2>2. \/ relaying' = [relaying EXCEPT ![n] = {edited}]
        \/ relaying' = [relaying EXCEPT ![n] = {}]
    BY <1>3 DEF Handle
  <2>3. Meant(pkt, sent) /\ Meant(edited, sent)
    <3>1. PacketOK(f.frame.pkt) /\ Meant(f.frame.pkt, sent) /\ IsValidPathLen(f.frame.pkt.path_len)
      BY <1>3 DEF TypeInv, TrafficOK, MeantInv, Handle, ReadFromOk
    <3>2. /\ PacketOK(pkt) /\ pkt.path_len = f.frame.pkt.path_len
          /\ pkt.type = f.frame.pkt.type /\ pkt.payload = f.frame.pkt.payload
      BY <3>1, ReadFromKeeps
    <3>3. HashByte[identity[n].pub] \in Int
      BY MeshConstants DEF TypeInv, IdentitiesOK
    <3> HIDE DEF pkt
    <3>4. edited.type = pkt.type /\ edited.payload = pkt.payload
      BY <3>1, <3>2, <3>3, AppendHashKeeps
    <3> HIDE DEF edited
    <3> QED BY <3>1, <3>2, <3>4, StillMeant
  <2>4. \A out \in outs : Meant(out.pkt, sent')
    <3> SUFFICES ASSUME NEW out \in outs PROVE Meant(out.pkt, sent')
      OBVIOUS
    <3>1. StandsFor(out.pkt, out.msg)
      BY <1>1, <2>1, AnswersPlayed, PlayedMeant
    <3> QED BY <2>1, <3>1 DEF Meant
  <2> HIDE DEF answers
  <2>5. \A g \in air' : Meant(g.frame.pkt, sent')
    <3> SUFFICES ASSUME NEW g \in air' PROVE Meant(g.frame.pkt, sent')
      OBVIOUS
    <3>1. CASE g \in air
      BY <2>1, <3>1, StillMeant DEF MeantInv
    <3>2. CASE g \notin air
      BY <1>2, <2>1, <2>4, <3>2
    <3> QED BY <3>1, <3>2
  <2>6. \A m \in Nodes : \A p \in relaying'[m] : Meant(p, sent')
    <3> HIDE DEF edited
    <3>1. \A m \in Nodes : \A p \in relaying'[m] : Meant(p, sent)
      BY <2>2, <2>3 DEF MeantInv, TypeInv, TrafficOK
    <3> QED BY <2>1, <3>1, StillMeant
  <2>7. \A m \in Nodes : \A i \in 1..Len(fired'[m]) : fired'[m][i].msg \in sent
    <3>1. FiredOK
      BY DEF TypeInv
    <3>2. \A m \in Triggers(n, pkt) : m \in sent
      BY <1>1, <2>3, TriggerMeant
    <3> HIDE DEF pkt
    <3>3. CASE fired' = fired
      BY <3>3 DEF MeantInv
    <3>4. ASSUME NEW m \in sent,
                 fired' = [fired EXCEPT ![n] =
                   Append(fired[n], [msg |-> m, at |-> clock, boot |-> boots[n]])]
          PROVE  \A k \in Nodes : \A i \in 1..Len(fired'[k]) : fired'[k][i].msg \in sent
      <4>1. PICK S : fired[n] \in Seq(S)
        BY <3>1 DEF FiredOK
      <4> QED BY <3>1, <3>4, <4>1, OneMore DEF FiredOK, MeantInv
    <3>5. \/ fired' = fired
          \/ \E m \in Triggers(n, pkt) : fired' = [fired EXCEPT ![n] =
               Append(fired[n], [msg |-> m, at |-> clock, boot |-> boots[n]])]
      BY <1>3, <3>1, HandleFires DEF pkt
    <3> QED BY <3>2, <3>3, <3>4, <3>5
  <2> QED BY <1>1, <2>1, <2>5, <2>6, <2>7 DEF MeantInv
<1>4. ASSUME NEW n \in Nodes, NEW action \in Config[n].press,
             NEW out \in Play(n, action), Send(n, out)
      PROVE  MeantInv'
  <2>1. /\ air' = air \cup Broadcast(n, out.pkt) /\ sent' = sent \cup {out.msg}
        /\ fired' = fired /\ relaying' = relaying
    BY <1>4 DEF Send
  <2>2. action \in Action
    BY ConfigValid DEF Yaml
  <2>3. StandsFor(out.pkt, out.msg)
    BY <1>1, <2>2, PlayedMeant
  <2>4. Meant(out.pkt, sent')
    BY <2>1, <2>3 DEF Meant
  <2> QED BY <1>1, <1>2, <2>1, <2>4, NothingNew
<1>5. ASSUME NEW n \in Nodes, Relay(n) PROVE MeantInv'
  <2>1. /\ air' = air \cup UNION {Broadcast(n, pkt) : pkt \in relaying[n]}
        /\ relaying' = [relaying EXCEPT ![n] = {}] /\ sent' = sent /\ fired' = fired
    BY <1>5 DEF Relay
  <2>2. \A f \in air' : f \in air \/ Meant(f.frame.pkt, sent')
    BY <1>2, <2>1 DEF MeantInv
  <2>3. \A m \in Nodes : relaying'[m] \subseteq relaying[m]
    BY <2>1 DEF TypeInv, TrafficOK
  <2> QED BY <1>1, <2>1, <2>2, <2>3, NothingNew
<1>6. ASSUME NEW p \in ForeignPackets, ForeignSend(p) PROVE MeantInv'
  <2>1. /\ air' = air \cup {[to |-> n, from |-> n, frame |-> WriteTo(p.pkt)] : n \in p.to}
        /\ relaying' = relaying /\ sent' = sent /\ fired' = fired
    BY <1>6 DEF ForeignSend
  <2>2. Meant(p.pkt, sent')
    BY DEF OthersForeign, Meant
  <2>3. \A f \in air' : f \in air \/ Meant(f.frame.pkt, sent')
    BY <2>1, <2>2 DEF WriteTo
  <2> QED BY <1>1, <2>1, <2>3, NothingNew
<1>7. ASSUME air' \subseteq air, sent' = sent, fired' = fired,
             \/ relaying' = relaying
             \/ \E n \in Nodes : relaying' = [relaying EXCEPT ![n] = {}]
      PROVE  MeantInv'
  BY <1>1, <1>7, NothingNew DEF TypeInv, TrafficOK
<1>8. ASSUME NEW n \in Nodes, NEW f \in air, DropMalformed(n, f) \/ DropDuplicate(n, f)
      PROVE  MeantInv'
  BY <1>7, <1>8 DEF DropMalformed, DropDuplicate
<1>9. ASSUME NEW n \in Nodes, Setup(n) \/ SendFails(n) \/ RelayFails(n) \/ Reboot(n)
      PROVE  MeantInv'
  BY <1>7, <1>9 DEF Setup, SendFails, RelayFails, Reboot
<1>10. ASSUME NEW f, Lose(f) \/ Tick \/ UNCHANGED vars PROVE MeantInv'
  BY <1>7, <1>10 DEF Lose, Tick, vars
<1> QED BY <1>3, <1>4, <1>5, <1>6, <1>8, <1>9, <1>10 DEF Next, Receive

\* on_message is always from the peer, in every mesh in which no node's key
\* begins like its peer's: through relays, echoes, losses, reboots, answers and
\* packets of other firmware.
THEOREM MessagesAreThePeers ==
  ASSUME KeyPairs, PeersDiffer, OthersForeign
  PROVE  Spec => []MessagesFromPeer
<1> DEFINE Inv == TypeInv /\ MeantInv
<1>1. Init => Inv
  BY InitTypeInv, InitMeantInv
<1>2. Inv /\ [Next]_vars => Inv'
  BY NextTypeInv, NextMeantInv
<1>3. Inv => MessagesFromPeer
  BY DEF MeantInv, MessagesFromPeer
<1> QED BY <1>1, <1>2, <1>3, PTL DEF Spec

-----------------------------------------------------------------------------
(***************************************************************************)
(* The mesh implements the service.                                        *)
(***************************************************************************)

\* Packets that stand for the same message are the same for the dedup cache.
LEMMA SameHash ==
  ASSUME NEW m, NEW p, StandsFor(p, m), NEW q, StandsFor(q, m)
  PROVE  PacketHash(p) = PacketHash(q)
<1>1. p.type = q.type /\ p.payload = q.payload /\ p.type # "TRACE"
  BY DEF StandsFor, Message
<1> QED BY <1>1 DEF PacketHash

\* While less time than a wrap has passed, the unsigned difference is exact.
LEMMA ElapsedExact ==
  ASSUME NEW x \in Int, NEW y \in Int, y <= x, x - y < MillisMod
  PROVE  Elapsed(x % MillisMod, y % MillisMod) = x - y
<1> DEFINE M == MillisMod
           qx == x \div M
           rx == x % M
           qy == y \div M
           ry == y % M
<1>1. M \in Nat \ {0}
  BY SeenCacheConstants
<1>2. /\ x = M * qx + rx /\ qx \in Int /\ rx \in 0..(M - 1)
      /\ y = M * qy + ry /\ qy \in Int /\ ry \in 0..(M - 1)
  BY <1>1, Z3
<1>3. \A q \in Int, r \in 0..(M - 1) : (M * q + r) % M = r
  BY <1>1, Z3
<1> HIDE DEF qx, rx, qy, ry
<1>4. x - y = M * (qx - qy) + (rx - ry)
  BY <1>1, <1>2, SMT
<1>5. rx - ry = M * (qy - qx) + (x - y)
  BY <1>1, <1>2, <1>4, SMT
<1>6. x - y \in 0..(M - 1) /\ qy - qx \in Int
  BY <1>1, <1>2
<1>7. (M * (qy - qx) + (x - y)) % M = x - y
  BY <1>3, <1>6
<1> QED BY <1>1, <1>5, <1>7 DEF Elapsed, rx, ry

\* Node n has in its cache what it saw at time `at`, as a packet for m.
InCache(n, m, at) ==
  \E pkt : /\ StandsFor(pkt, m)
           /\ Holds(seen_cache[n], PacketHash(pkt), (at - booted[n]) % MillisMod)

\* Recent(n, x): the node has been up since it fired x and may not forget it.
Recent(n, x) == x.boot = boots[n] /\ clock - x.at <= DEDUP_EXPIRE_MS

\* What has fired lately is in the cache.
Remembering(n) ==
  \A i \in 1..Len(fired[n]) :
    Recent(n, fired[n][i]) => InCache(n, fired[n][i].msg, fired[n][i].at)

\* The inductive invariant: no node fires what it may not forget without having its
\* packet in the cache.
RememberInv == \A n \in Nodes : Remembering(n)

\* The erase loop leaves what is still within the expiry time.
LEMMA KeptHolds ==
  ASSUME ExpiryBelowWrap, TypeInv, NEW n \in Nodes, NEW at \in 0..clock, NEW hash,
         clock - at <= DEDUP_EXPIRE_MS,
         Holds(seen_cache[n], hash, (at - booted[n]) % MillisMod)
  PROVE  Holds(Unexpired(seen_cache[n], Millis(n)), hash, (at - booted[n]) % MillisMod)
<1>1. clock \in Nat /\ booted[n] \in Int /\ at \in Int
  BY MeshConstants DEF TypeInv, CountsOK
<1>2. PICK e \in seen_cache[n] : /\ e.hash = hash
                                 /\ e.seen_at_ms = (at - booted[n]) % MillisMod
  BY DEF Holds
<1>3. /\ clock - booted[n] \in Int /\ at - booted[n] \in Int
      /\ at - booted[n] <= clock - booted[n]
      /\ (clock - booted[n]) - (at - booted[n]) < MillisMod
      /\ (clock - booted[n]) - (at - booted[n]) <= DEDUP_EXPIRE_MS
  BY <1>1, SeenCacheConstants DEF ExpiryBelowWrap
<1>4. Elapsed(Millis(n), e.seen_at_ms) <= DEDUP_EXPIRE_MS
  BY <1>2, <1>3, ElapsedExact DEF Millis, Uptime
<1> QED BY <1>2, <1>4 DEF Holds, Unexpired

\* What a node looks up and remembers as it handles a packet.
LEMMA HandleRemembers ==
  ASSUME TypeInv, CachesRoomy, NEW n \in Nodes, NEW f \in air, Handle(n, f)
  PROVE  LET kept == Unexpired(seen_cache[n], Millis(n))
             hash == PacketHash(ReadFrom(f.frame)) IN
         /\ ~Knows(kept, hash)
         /\ Holds(seen_cache'[n], hash, Millis(n))
         /\ \A h, at : Holds(kept, h, at) => Holds(seen_cache'[n], h, at)
         /\ \A m \in Nodes \ {n} : seen_cache'[m] = seen_cache[m]
<1> DEFINE kept == Unexpired(seen_cache[n], Millis(n))
           hash == PacketHash(ReadFrom(f.frame))
           new  == Renumber(Remember(Renumber(kept), hash, Millis(n),
                                     Cardinality(kept) + 1))
<1>1. seen_cache' = [seen_cache EXCEPT ![n] = new] /\ ~Knows(kept, hash)
  BY DEF Handle
<1>2. DOMAIN seen_cache = Nodes /\ CacheOK(seen_cache[n])
  BY DEF TypeInv, CachesOK
<1>3. Ordered(kept) /\ CacheOK(Renumber(kept))
  BY <1>2, KeptOK
<1>4. Cardinality(kept) < DEDUP_CACHE_SIZE
  BY DEF CachesRoomy
<1> HIDE DEF kept, hash
<1>5. /\ Cardinality(Renumber(kept)) = Cardinality(kept)
      /\ \A h, at : Holds(Renumber(kept), h, at) <=> Holds(kept, h, at)
  BY <1>3, RenumberOK
<1>6. /\ Holds(new, hash, Millis(n))
      /\ \A h, at : Holds(Renumber(kept), h, at) => Holds(new, h, at)
  BY <1>3, <1>4, <1>5, RememberOK
<1> HIDE DEF new
<1>7. seen_cache'[n] = new /\ \A m \in Nodes \ {n} : seen_cache'[m] = seen_cache[m]
  BY <1>1, <1>2
<1> QED BY <1>1, <1>5, <1>6, <1>7 DEF kept, hash

\* At first nothing has fired.
LEMMA InitRememberInv == Init => RememberInv
<1>1. Len(<<>>) = 0
  OBVIOUS
<1> QED BY <1>1 DEF Init, RememberInv, Remembering

\* Time, duplicates, other packets and reboots leave in a cache what has fired.
LEMMA NextRememberInv ==
  ASSUME ExpiryBelowWrap, KeyPairs, PeersDiffer, CachesRoomy,
         TypeInv, MeantInv, RememberInv, [Next]_vars
  PROVE  RememberInv'
<1>1. TypeInv'
  BY NextTypeInv
<1>2. \A n \in Nodes : clock \in Int /\ boots[n] \in Int
  BY MeshConstants DEF TypeInv, CountsOK
<1>3. ASSUME NEW n \in Nodes, NEW i \in 1..Len(fired[n])
      PROVE  fired[n][i].at \in 0..clock /\ fired[n][i].boot \in 0..boots[n]
  BY DEF TypeInv, FiredOK
<1>4. ASSUME NEW n \in Nodes, fired'[n] = fired[n], booted'[n] = booted[n],
             boots'[n] = boots[n], clock' >= clock, clock' \in Int,
             \A hash, at : Holds(Unexpired(seen_cache[n], Millis(n)), hash, at)
                             => Holds(seen_cache'[n], hash, at)
      PROVE  Remembering(n)'
  <2> SUFFICES ASSUME NEW i \in 1..Len(fired[n]), Recent(n, fired[n][i])'
               PROVE  InCache(n, fired[n][i].msg, fired[n][i].at)'
    BY <1>4 DEF Remembering
  <2> DEFINE x == fired[n][i]
  <2>1. Recent(n, x)
    BY <1>2, <1>3, <1>4, SeenCacheConstants DEF Recent
  <2>2. PICK pkt : /\ StandsFor(pkt, x.msg)
                   /\ Holds(seen_cache[n], PacketHash(pkt), (x.at - booted[n]) % MillisMod)
    BY <1>4, <2>1 DEF RememberInv, Remembering, InCache
  <2>3. Holds(Unexpired(seen_cache[n], Millis(n)), PacketHash(pkt),
              (x.at - booted[n]) % MillisMod)
    BY <1>3, <1>4, <2>1, <2>2, KeptHolds DEF Recent
  <2> QED BY <1>4, <2>2, <2>3 DEF InCache
<1>5. \A n, hash, at : Holds(Unexpired(seen_cache[n], Millis(n)), hash, at)
                         => Holds(seen_cache[n], hash, at)
  BY DEF Holds, Unexpired
<1>6. ASSUME NEW n \in Nodes, NEW f \in air, Handle(n, f) PROVE RememberInv'
  <2> DEFINE pkt == ReadFrom(f.frame)
             record(m) == [msg |-> m, at |-> clock, boot |-> boots[n]]
  <2>1. /\ UNCHANGED <<clock, booted, boots>>
        /\ \/ fired' = fired
           \/ \E m \in Triggers(n, pkt) :
                fired' = [fired EXCEPT ![n] = Append(fired[n], record(m))]
    BY <1>6, HandleFires DEF TypeInv, Handle, node
  <2>2. /\ Holds(seen_cache'[n], PacketHash(pkt), Millis(n))
        /\ \A h, at : Holds(Unexpired(seen_cache[n], Millis(n)), h, at)
                        => Holds(seen_cache'[n], h, at)
        /\ \A m \in Nodes \ {n} : seen_cache'[m] = seen_cache[m]
    BY <1>6, HandleRemembers
  <2>3. \A m \in Triggers(n, pkt) : StandsFor(pkt, m)
    <3>1. Meant(pkt, sent) /\ IdentityInv
      <4>1. PacketOK(f.frame.pkt) /\ Meant(f.frame.pkt, sent)
        BY DEF TypeInv, TrafficOK, MeantInv
      <4> QED BY <4>1, ReadFromKeeps, StillMeant DEF MeantInv
    <3> QED BY <3>1, TriggerMeant
  <2> HIDE DEF pkt
  <2>4. clock' >= clock /\ clock' \in Int
    BY <1>2, <2>1
  <2>5. ASSUME NEW m \in Nodes, fired'[m] = fired[m] PROVE Remembering(m)'
    <3>1. \A h, at : Holds(Unexpired(seen_cache[m], Millis(m)), h, at)
                       => Holds(seen_cache'[m], h, at)
      BY <1>5, <2>2
    <3> QED BY <1>4, <2>1, <2>4, <2>5, <3>1
  <2>6. ASSUME NEW m \in Triggers(n, pkt),
               fired' = [fired EXCEPT ![n] = Append(fired[n], record(m))]
        PROVE  RememberInv'
    <3>1. PICK S : fired[n] \in Seq(S)
      BY DEF TypeInv, FiredOK
    <3>2. /\ fired'[n] = Append(fired[n], record(m))
          /\ \A k \in Nodes \ {n} : fired'[k] = fired[k]
      BY <2>6 DEF TypeInv, FiredOK
    <3>3. /\ Len(fired'[n]) = Len(fired[n]) + 1
          /\ fired'[n][Len(fired[n]) + 1] = record(m)
          /\ \A i \in 1..Len(fired[n]) : fired'[n][i] = fired[n][i]
      BY <3>1, <3>2, OneMore
    <3>4. ASSUME NEW i \in 1..Len(fired'[n]), Recent(n, fired[n][i])'
          PROVE  InCache(n, fired[n][i].msg, fired[n][i].at)'
      <4>1. CASE i = Len(fired[n]) + 1
        <5>1. fired'[n][i].msg = m /\ fired'[n][i].at = clock
          BY <3>3, <4>1
        <5>2. Holds(seen_cache'[n], PacketHash(pkt), (clock - booted'[n]) % MillisMod)
          BY <2>1, <2>2 DEF Millis, Uptime
        <5> QED BY <2>3, <5>1, <5>2 DEF InCache
      <4>2. CASE i \in 1..Len(fired[n])
        <5> DEFINE x == fired[n][i]
        <5>1. fired'[n][i] = x /\ Recent(n, x)
          BY <2>1, <3>3, <3>4, <4>2 DEF Recent
        <5>2. PICK p : /\ StandsFor(p, x.msg)
                       /\ Holds(seen_cache[n], PacketHash(p),
                                (x.at - booted[n]) % MillisMod)
          BY <4>2, <5>1 DEF RememberInv, Remembering, InCache
        <5>3. Holds(Unexpired(seen_cache[n], Millis(n)), PacketHash(p),
                    (x.at - booted[n]) % MillisMod)
          BY <1>3, <4>2, <5>1, <5>2, KeptHolds DEF Recent
        <5> QED BY <2>1, <2>2, <5>1, <5>2, <5>3 DEF InCache
      <4> QED BY <3>1, <3>3, <3>4, <4>1, <4>2
    <3> QED BY <2>5, <3>2, <3>4 DEF RememberInv, Remembering
  <2> QED BY <2>1, <2>5, <2>6 DEF RememberInv
<1>7. ASSUME NEW n \in Nodes, NEW f \in air, DropDuplicate(n, f) PROVE RememberInv'
  <2> DEFINE kept == Unexpired(seen_cache[n], Millis(n))
  <2>1. /\ UNCHANGED <<clock, booted, boots, fired>>
        /\ seen_cache' = [seen_cache EXCEPT ![n] = Renumber(kept)]
    BY <1>7 DEF DropDuplicate, node
  <2>2. DOMAIN seen_cache = Nodes /\ Ordered(kept)
    BY KeptOK DEF TypeInv, CachesOK
  <2>3. \A m \in Nodes : \A hash, at :
          Holds(Unexpired(seen_cache[m], Millis(m)), hash, at)
            => Holds(seen_cache'[m], hash, at)
    BY <1>5, <2>1, <2>2, RenumberOK
  <2>4. clock' >= clock /\ clock' \in Int
    BY <1>2, <2>1
  <2> QED BY <1>4, <2>1, <2>3, <2>4 DEF RememberInv
<1>8. ASSUME NEW n \in Nodes, Reboot(n) PROVE RememberInv'
  <2>1. /\ clock' = clock /\ fired' = fired
        /\ booted' = [booted EXCEPT ![n] = clock]
        /\ boots' = [boots EXCEPT ![n] = @ + 1]
        /\ seen_cache' = [seen_cache EXCEPT ![n] = {}]
    BY <1>8 DEF Reboot
  <2>2. boots'[n] = boots[n] + 1
        /\ \A m \in Nodes \ {n} : /\ boots'[m] = boots[m] /\ booted'[m] = booted[m]
                                  /\ seen_cache'[m] = seen_cache[m]
    BY <2>1 DEF TypeInv, CountsOK, CachesOK
  <2>3. Remembering(n)'
    <3> SUFFICES ASSUME NEW i \in 1..Len(fired'[n]) PROVE ~Recent(n, fired[n][i])'
      BY DEF Remembering
    <3>1. fired[n][i].boot \in 0..boots[n] /\ fired' = fired
      BY <1>3, <2>1
    <3> QED BY <1>2, <2>2, <3>1 DEF Recent
  <2>4. clock' >= clock /\ clock' \in Int
    BY <1>2, <2>1
  <2>5. ASSUME NEW m \in Nodes \ {n} PROVE Remembering(m)'
    BY <1>4, <1>5, <2>1, <2>2, <2>4
  <2> QED BY <2>3, <2>5 DEF RememberInv
<1>9. ASSUME UNCHANGED <<fired, booted, boots, seen_cache>>, clock' >= clock, clock' \in Int
      PROVE  RememberInv'
  <2>1. ASSUME NEW n \in Nodes PROVE Remembering(n)'
    BY <1>4, <1>5, <1>9
  <2> QED BY <2>1 DEF RememberInv
<1>10. CASE Tick
  <2>1. /\ UNCHANGED <<fired, booted, boots, seen_cache>>
        /\ clock' = clock + 1 /\ clock \in Int
    BY <1>10, MeshConstants DEF Tick, node, TypeInv, CountsOK
  <2> QED BY <1>9, <2>1
<1>11. ASSUME NEW n \in Nodes, NEW x, \/ DropMalformed(n, x) \/ Setup(n) \/ Relay(n)
                                      \/ RelayFails(n) \/ Send(n, x) \/ SendFails(n)
      PROVE  UNCHANGED <<clock, fired, booted, boots, seen_cache>>
  BY <1>11 DEF DropMalformed, Setup, Relay, RelayFails, Send, SendFails, node
<1>12. ASSUME NEW x, ForeignSend(x) \/ Lose(x) \/ UNCHANGED vars
      PROVE  UNCHANGED <<clock, fired, booted, boots, seen_cache>>
  BY <1>12 DEF ForeignSend, Lose, vars, node
<1>13. clock >= clock /\ clock \in Int
  BY MeshConstants DEF TypeInv, CountsOK
<1> QED BY <1>6, <1>7, <1>8, <1>9, <1>10, <1>11, <1>12, <1>13 DEF Next, Receive

\* A node that handles a packet fires for a message sent to it that it does not
\* remember, or fires nothing.
LEMMA HandleImplementsService ==
  ASSUME ExpiryBelowWrap, PeersDiffer, CachesRoomy, TypeInv, MeantInv, RememberInv,
         NEW n \in Nodes, NEW f \in air, Handle(n, f)
  PROVE  [Service!Next]_(Service!vars)
<1> DEFINE pkt == ReadFrom(f.frame)
           record(m) == [msg |-> m, at |-> clock, boot |-> boots[n]]
           kept == Unexpired(seen_cache[n], Millis(n))
<1>1. /\ UNCHANGED <<clock, boots, identity>>
      /\ sent \subseteq sent'
      /\ Triggers(n, pkt) = {} => sent' = sent
  <2>1. PICK outs \in SUBSET Answers(n, Triggers(n, pkt)) :
          sent' = sent \cup {out.msg : out \in outs}
    BY DEF Handle
  <2>2. Triggers(n, pkt) = {} => Answers(n, Triggers(n, pkt)) = {}
    BY DEF Answers
  <2> QED BY <2>1, <2>2 DEF Handle, node
<1>2. ~Knows(kept, PacketHash(pkt))
  BY HandleRemembers
<1>3. \/ Triggers(n, pkt) = {} /\ fired' = fired
      \/ \E m \in Triggers(n, pkt) :
           fired' = [fired EXCEPT ![n] = Append(fired[n], record(m))]
  BY HandleFires DEF TypeInv
<1>4. \A m \in Triggers(n, pkt) : m \in sent /\ m.to \in Names(n) /\ StandsFor(pkt, m)
  <2>1. Meant(pkt, sent) /\ IdentityInv
    <3>1. PacketOK(f.frame.pkt) /\ Meant(f.frame.pkt, sent)
      BY DEF TypeInv, TrafficOK, MeantInv
    <3> QED BY <3>1, ReadFromKeeps, StillMeant DEF MeantInv
  <2> QED BY <2>1, TriggerMeant
<1>5. CASE Triggers(n, pkt) = {}
  BY <1>1, <1>3, <1>5 DEF Service!vars
<1>6. ASSUME NEW m \in Triggers(n, pkt),
             fired' = [fired EXCEPT ![n] = Append(fired[n], record(m))]
      PROVE  Service!Fire(n, m)
  <2>1. ~Service!Remembers(n, m)
    <3> SUFFICES ASSUME NEW i \in 1..Len(fired[n]), fired[n][i].msg = m,
                        Recent(n, fired[n][i])
                 PROVE  FALSE
      BY DEF Service!Remembers, Recent
    <3> DEFINE at == fired[n][i].at
    <3>1. at \in 0..clock /\ clock - at <= DEDUP_EXPIRE_MS
      BY DEF TypeInv, FiredOK, Recent
    <3>2. PICK p : /\ StandsFor(p, m)
                   /\ Holds(seen_cache[n], PacketHash(p), (at - booted[n]) % MillisMod)
      BY DEF RememberInv, Remembering, InCache
    <3>3. Holds(kept, PacketHash(p), (at - booted[n]) % MillisMod)
      BY <3>1, <3>2, KeptHolds
    <3>4. PacketHash(p) = PacketHash(pkt)
      BY <1>4, <3>2, SameHash
    <3> QED BY <1>2, <3>3, <3>4 DEF Holds, Knows
  <2> QED BY <1>1, <1>4, <1>6, <2>1 DEF Service!Fire, Names
<1> QED BY <1>1, <1>3, <1>4, <1>5, <1>6 DEF Service!Next

\* Every step of the mesh is a step of the service, or none.
LEMMA StepImplementsService ==
  ASSUME ExpiryBelowWrap, PeersDiffer, CachesRoomy, TypeInv, MeantInv, RememberInv,
         [Next]_vars
  PROVE  [Service!Next]_(Service!vars)
<1>1. ASSUME NEW n \in Nodes, Receive(n) PROVE [Service!Next]_(Service!vars)
  <2>1. PICK f \in air : DropMalformed(n, f) \/ DropDuplicate(n, f) \/ Handle(n, f)
    BY <1>1 DEF Receive
  <2>2. CASE DropMalformed(n, f) \/ DropDuplicate(n, f)
    BY <2>2 DEF DropMalformed, DropDuplicate, node, Service!vars
  <2> QED BY <2>1, <2>2, HandleImplementsService
<1>2. ASSUME NEW n \in Nodes, Setup(n) PROVE Service!Next
  BY <1>2 DEF Setup, Service!Setup, Service!Next
<1>3. ASSUME NEW n \in Nodes, NEW out, Send(n, out)
      PROVE  Service!Next
  <2>1. out.msg \in sent' /\ Service!Send(out.msg)
    BY <1>3 DEF Send, node, Service!Send
  <2> QED BY <2>1 DEF Service!Next
<1>4. ASSUME NEW n \in Nodes, Reboot(n) PROVE Service!Next
  BY <1>4 DEF Reboot, Service!Reboot, Service!Next
<1>5. CASE Tick
  <2>1. clock' > clock
    BY <1>5, MeshConstants DEF Tick, TypeInv, CountsOK
  <2> QED BY <1>5, <2>1 DEF Tick, node, Service!Pass, Service!Next
<1>6. ASSUME NEW n \in Nodes, Relay(n) \/ RelayFails(n) \/ SendFails(n)
      PROVE  UNCHANGED Service!vars
  BY <1>6 DEF Relay, RelayFails, SendFails, node, Service!vars
<1>7. ASSUME NEW x, ForeignSend(x) \/ Lose(x) \/ UNCHANGED vars
      PROVE  UNCHANGED Service!vars
  BY <1>7 DEF ForeignSend, Lose, vars, node, Service!vars
<1> QED BY <1>1, <1>2, <1>3, <1>4, <1>5, <1>6, <1>7 DEF Next

\* The mesh keeps its promise to users: a trigger fires for what somebody sent to
\* this node, in the sender's name, and while the node is up and its cache has
\* room not again within the expiry time, whichever way and however often the
\* packet comes: through echoes, relays, losses, answers, reboots of other nodes,
\* the wrap of millis() and packets of other firmware.
THEOREM MeshImplementsService ==
  ASSUME KeyPairs, PeersDiffer, OthersForeign, ExpiryBelowWrap
  PROVE  Spec /\ []CachesRoomy => ImplementsService
<1> DEFINE Inv == TypeInv /\ MeantInv /\ RememberInv
<1>1. Init => Inv /\ Service!Init
  BY InitTypeInv, InitMeantInv, InitRememberInv DEF Init, Service!Init
<1>2. Inv /\ CachesRoomy /\ [Next]_vars => Inv'
  BY NextTypeInv, NextMeantInv, NextRememberInv
<1>3. Inv /\ CachesRoomy /\ [Next]_vars => [Service!Next]_(Service!vars)
  BY StepImplementsService
<1> QED BY <1>1, <1>2, <1>3, PTL DEF Spec, ImplementsService, Service!Spec

-----------------------------------------------------------------------------
(***************************************************************************)
(* Duplicates have been heard.                                             *)
(***************************************************************************)

\* What a trigger reads of a packet is what the dedup cache keeps of it.
LEMMA TriggersOfHash ==
  ASSUME NEW n \in Nodes, NEW pkt
  PROVE  Triggers(n, PacketHash(pkt)) = Triggers(n, pkt)
BY DEF Triggers, PacketHash

\* Node n has fired what a packet triggers, since it booted.
Heard(n, pkt) ==
  \A m \in Triggers(n, pkt) :
    \E i \in 1..Len(fired[n]) : fired[n][i].msg = m /\ fired[n][i].boot = boots[n]

\* Node n has heard every packet that its cache knows.
HeardAll(n) == \A e \in seen_cache[n] : Heard(n, e.hash)

\* The inductive invariant: as long as a node goes by its configured identity,
\* and before setup() it does, it has heard what it knows.
HeardInv ==
  \A n \in Nodes :
    /\ ready[n] \/ identity[n] = Configured[n]
    /\ identity[n] = Configured[n] => HeardAll(n)

\* A cache with new ordinals, and no packet that it did not know.
LEMMA RenumberKnows ==
  ASSUME NEW cache, Ordered(cache), NEW e \in Renumber(cache)
  PROVE  \E g \in cache : g.hash = e.hash
<1>1. Holds(Renumber(cache), e.hash, e.seen_at_ms)
  BY DEF Holds
<1>2. Holds(cache, e.hash, e.seen_at_ms)
  BY <1>1, RenumberOK
<1> QED BY <1>2 DEF Holds

\* A node that handles a packet knows no others but those it knew.
LEMMA HandleKnows ==
  ASSUME TypeInv, NEW n \in Nodes, NEW f \in air, Handle(n, f), NEW e \in seen_cache'[n]
  PROVE  \/ e.hash = PacketHash(ReadFrom(f.frame))
         \/ \E g \in seen_cache[n] : g.hash = e.hash
<1> DEFINE kept == Unexpired(seen_cache[n], Millis(n))
           hash == PacketHash(ReadFrom(f.frame))
           entry == [hash |-> hash, seen_at_ms |-> Millis(n), ord |-> Cardinality(kept) + 1]
           new  == Remember(Renumber(kept), hash, Millis(n), Cardinality(kept) + 1)
<1>1. DOMAIN seen_cache = Nodes /\ CacheOK(seen_cache[n])
  BY DEF TypeInv, CachesOK
<1>2. seen_cache'[n] = Renumber(new)
  BY <1>1 DEF Handle
<1>3. Ordered(kept) /\ CacheOK(Renumber(kept)) /\ kept \subseteq seen_cache[n]
  BY <1>1, KeptOK DEF Unexpired
<1>4. Cardinality(Renumber(kept)) = Cardinality(kept)
  BY <1>3, RenumberOK
<1>5. new \subseteq Renumber(kept) \cup {entry}
  BY DEF Remember
<1>6. entry.hash = hash
  OBVIOUS
<1> HIDE DEF kept, hash, entry
<1>7. Ordered(new)
  BY <1>3, <1>4, RememberOK
<1> HIDE DEF new
<1>8. PICK g \in new : g.hash = e.hash
  BY <1>2, <1>7, RenumberKnows
<1>9. CASE g = entry
  BY <1>6, <1>8, <1>9 DEF hash
<1>10. CASE g \in Renumber(kept)
  <2>1. PICK k \in kept : k.hash = g.hash
    BY <1>3, <1>10, RenumberKnows
  <2> QED BY <1>3, <1>8, <2>1
<1> QED BY <1>5, <1>8, <1>9, <1>10

\* A node that knows no packet it did not know, and goes by its identity still.
LEMMA StillHeard ==
  ASSUME NEW n \in Nodes, HeardAll(n), identity'[n] = identity[n], boots'[n] = boots[n],
         \A i \in 1..Len(fired[n]) : i \in 1..Len(fired'[n]) /\ fired'[n][i] = fired[n][i],
         NEW e, \E g \in seen_cache[n] : g.hash = e.hash
  PROVE  Heard(n, e.hash)'
<1>1. Heard(n, e.hash)
  BY DEF HeardAll
<1>2. \A pkt : Triggers(n, pkt)' = Triggers(n, pkt)
  BY DEF Triggers, DirectTextTriggers
<1> QED BY <1>1, <1>2 DEF Heard

\* At first no node knows any packet.
LEMMA InitHeardInv == Init => HeardInv
BY DEF Init, HeardInv, HeardAll

\* Handled packets fire what they trigger; nothing else makes a node know one.
LEMMA NextHeardInv == TypeInv /\ HeardInv /\ [Next]_vars => HeardInv'
<1> SUFFICES ASSUME TypeInv, HeardInv, [Next]_vars PROVE HeardInv'
  OBVIOUS
<1>1. DOMAIN seen_cache = Nodes /\ \A n \in Nodes : CacheOK(seen_cache[n])
  BY DEF TypeInv, CachesOK
<1>2. DOMAIN ready = Nodes /\ DOMAIN identity = Nodes
  BY DEF TypeInv, IdentitiesOK
<1>3. ASSUME UNCHANGED <<ready, identity, boots, fired>>,
             \A n \in Nodes : \A e \in seen_cache'[n] :
               \E g \in seen_cache[n] : g.hash = e.hash
      PROVE  HeardInv'
  <2>1. ASSUME NEW n \in Nodes, identity[n] = Configured[n] PROVE HeardAll(n)'
    <3>1. HeardAll(n)
      BY <2>1 DEF HeardInv
    <3>2. \A e \in seen_cache'[n] : Heard(n, e.hash)'
      BY <1>3, <3>1, StillHeard
    <3> QED BY <3>2 DEF HeardAll
  <2> QED BY <1>3, <2>1 DEF HeardInv
<1>4. ASSUME NEW n \in Nodes, NEW f \in air, Handle(n, f) PROVE HeardInv'
  <2> DEFINE pkt == ReadFrom(f.frame)
             record(m) == [msg |-> m, at |-> clock, boot |-> boots[n]]
  <2>1. UNCHANGED <<ready, identity, boots>>
    BY <1>4 DEF Handle, node
  <2>2. \A m \in Nodes \ {n} : seen_cache'[m] = seen_cache[m]
    BY <1>4 DEF Handle
  <2>3. \/ Triggers(n, pkt) = {} /\ fired' = fired
        \/ \E m : /\ Triggers(n, pkt) = {m}
                  /\ fired' = [fired EXCEPT ![n] = Append(fired[n], record(m))]
    BY <1>4, HandleFires DEF TypeInv
  <2>4. ASSUME NEW e \in seen_cache'[n]
        PROVE  e.hash = PacketHash(pkt) \/ \E g \in seen_cache[n] : g.hash = e.hash
    BY <1>4, HandleKnows
  <2>5. \A m : record(m).msg = m /\ record(m).boot = boots[n]
    OBVIOUS
  <2> HIDE DEF pkt, record
  <2>6. /\ \A m \in Nodes : \A i \in 1..Len(fired[m]) :
             i \in 1..Len(fired'[m]) /\ fired'[m][i] = fired[m][i]
        /\ \A m \in Triggers(n, pkt) : \E i \in 1..Len(fired'[n]) :
             fired'[n][i].msg = m /\ fired'[n][i].boot = boots[n]
    <3>1. CASE Triggers(n, pkt) = {} /\ fired' = fired
      BY <3>1, Zenon
    <3>2. ASSUME NEW m, Triggers(n, pkt) = {m},
                 fired' = [fired EXCEPT ![n] = Append(fired[n], record(m))]
          PROVE  /\ \A k \in Nodes : \A i \in 1..Len(fired[k]) :
                      i \in 1..Len(fired'[k]) /\ fired'[k][i] = fired[k][i]
                 /\ \A x \in Triggers(n, pkt) : \E i \in 1..Len(fired'[n]) :
                      fired'[n][i].msg = x /\ fired'[n][i].boot = boots[n]
      <4>1. PICK S : fired[n] \in Seq(S)
        BY DEF TypeInv, FiredOK
      <4>2. /\ fired'[n] = Append(fired[n], record(m))
            /\ \A k \in Nodes \ {n} : fired'[k] = fired[k]
        BY <3>2 DEF TypeInv, FiredOK
      <4>3. /\ Len(fired[n]) \in Nat /\ Len(fired'[n]) = Len(fired[n]) + 1
            /\ fired'[n][Len(fired[n]) + 1] = record(m)
            /\ \A i \in 1..Len(fired[n]) : fired'[n][i] = fired[n][i]
        BY <4>1, <4>2, OneMore
      <4>4. Len(fired[n]) + 1 \in 1..Len(fired'[n])
        BY <4>3
      <4>5. \A i \in 1..Len(fired[n]) : i \in 1..Len(fired'[n])
        BY <4>3
      <4>6. \A k \in Nodes : \A i \in 1..Len(fired[k]) :
              i \in 1..Len(fired'[k]) /\ fired'[k][i] = fired[k][i]
        BY <4>2, <4>3, <4>5
      <4>7. \A x \in Triggers(n, pkt) : x = m
        BY <3>2
      <4>8. /\ fired'[n][Len(fired[n]) + 1].msg = m
            /\ fired'[n][Len(fired[n]) + 1].boot = boots[n]
        BY <2>5, <4>3
      <4>9. \E i \in 1..Len(fired'[n]) :
              fired'[n][i].msg = m /\ fired'[n][i].boot = boots[n]
        BY <4>4, <4>8, Zenon
      <4> QED BY <4>6, <4>7, <4>9, Zenon
    <3> QED BY <2>3, <3>1, <3>2, Zenon
  <2>7. ASSUME NEW m \in Nodes, identity[m] = Configured[m] PROVE HeardAll(m)'
    <3>1. HeardAll(m)
      BY <2>7 DEF HeardInv
    <3>2. ASSUME NEW e, \E g \in seen_cache[m] : g.hash = e.hash PROVE Heard(m, e.hash)'
      BY <2>1, <2>6, <3>1, <3>2, StillHeard
    <3>3. ASSUME m = n PROVE Heard(m, PacketHash(pkt))'
      <4>1. Triggers(n, PacketHash(pkt)) = Triggers(n, pkt)
        BY TriggersOfHash
      <4>2. \A p : Triggers(n, p)' = Triggers(n, p)
        BY <2>1 DEF Triggers, DirectTextTriggers
      <4> QED BY <2>1, <2>6, <3>3, <4>1, <4>2 DEF Heard
    <3>4. \A e \in seen_cache'[m] : Heard(m, e.hash)'
      BY <2>2, <2>4, <3>2, <3>3
    <3> QED BY <3>4 DEF HeardAll
  <2> QED BY <2>1, <2>7 DEF HeardInv
<1>5. ASSUME NEW n \in Nodes, NEW f \in air, DropDuplicate(n, f) PROVE HeardInv'
  <2> DEFINE kept == Unexpired(seen_cache[n], Millis(n))
  <2>1. /\ UNCHANGED <<ready, identity, boots, fired>>
        /\ seen_cache' = [seen_cache EXCEPT ![n] = Renumber(kept)]
    BY <1>5 DEF DropDuplicate, node
  <2>2. Ordered(kept) /\ kept \subseteq seen_cache[n]
    BY <1>1, KeptOK DEF Unexpired
  <2> HIDE DEF kept
  <2>3. \A e \in seen_cache'[n] : \E g \in seen_cache[n] : g.hash = e.hash
    BY <1>1, <2>1, <2>2, RenumberKnows
  <2>4. \A m \in Nodes \ {n} : seen_cache'[m] = seen_cache[m]
    BY <2>1
  <2> QED BY <1>3, <2>1, <2>3, <2>4
<1>6. ASSUME NEW n \in Nodes, Setup(n) PROVE HeardInv'
  <2>1. /\ ~ready[n] /\ ready' = [ready EXCEPT ![n] = TRUE]
        /\ UNCHANGED <<boots, seen_cache, fired>>
        /\ \A m \in Nodes \ {n} : identity'[m] = identity[m]
    BY <1>6 DEF Setup
  <2>2. ASSUME NEW m \in Nodes, identity'[m] = Configured[m] PROVE HeardAll(m)'
    <3>1. identity[m] = Configured[m]
      BY <2>1, <2>2 DEF HeardInv
    <3>2. HeardAll(m)
      BY <3>1 DEF HeardInv
    <3>3. \A e \in seen_cache[m] : Heard(m, e.hash)'
      BY <2>1, <2>2, <3>1, <3>2, StillHeard
    <3> QED BY <2>1, <3>3 DEF HeardAll
  <2>3. \A m \in Nodes : ready'[m] \/ identity'[m] = Configured[m]
    BY <1>2, <2>1 DEF HeardInv
  <2> QED BY <2>2, <2>3 DEF HeardInv, Configured
<1>7. ASSUME NEW n \in Nodes, Reboot(n) PROVE HeardInv'
  <2>1. /\ fired' = fired /\ identity'[n] = Configured[n] /\ seen_cache'[n] = {}
        /\ \A m \in Nodes \ {n} : /\ ready'[m] = ready[m] /\ identity'[m] = identity[m]
                                  /\ boots'[m] = boots[m]
                                  /\ seen_cache'[m] = seen_cache[m]
    BY <1>1, <1>2, <1>7 DEF Reboot, TypeInv, CountsOK
  <2>2. ASSUME NEW m \in Nodes \ {n}, identity[m] = Configured[m] PROVE HeardAll(m)'
    <3>1. HeardAll(m)
      BY <2>2 DEF HeardInv
    <3>2. \A e \in seen_cache[m] : Heard(m, e.hash)'
      BY <2>1, <3>1, StillHeard
    <3> QED BY <2>1, <3>2 DEF HeardAll
  <2>3. HeardAll(n)'
    BY <2>1 DEF HeardAll
  <2> QED BY <2>1, <2>2, <2>3 DEF HeardInv, Configured
<1>8. ASSUME NEW n \in Nodes, NEW x, \/ DropMalformed(n, x) \/ Relay(n) \/ RelayFails(n)
                                     \/ Send(n, x) \/ SendFails(n)
      PROVE  UNCHANGED <<ready, identity, boots, fired, seen_cache>>
  BY <1>8 DEF DropMalformed, Relay, RelayFails, Send, SendFails, node
<1>9. ASSUME NEW x, ForeignSend(x) \/ Lose(x) \/ Tick \/ UNCHANGED vars
      PROVE  UNCHANGED <<ready, identity, boots, fired, seen_cache>>
  BY <1>9 DEF ForeignSend, Lose, Tick, vars, node
<1>10. UNCHANGED <<ready, identity, boots, fired, seen_cache>> => HeardInv'
  BY <1>3
<1> QED BY <1>4, <1>5, <1>6, <1>7, <1>8, <1>9, <1>10 DEF Next, Receive

\* Nothing is lost as a duplicate that has not been heard: whatever a node's cache
\* makes it drop, through echoes, eviction, expiry, the wrap of millis() and
\* reboots, its triggers have fired for since it booted.
THEOREM DuplicatesHeard == Spec => []DuplicatesWereHeard
<1> DEFINE Inv == TypeInv /\ HeardInv
<1>1. Init => Inv
  BY InitTypeInv, InitHeardInv
<1>2. Inv /\ [Next]_vars => Inv'
  BY NextTypeInv, NextHeardInv
<1>3. Inv => DuplicatesWereHeard
  <2> SUFFICES ASSUME Inv, NEW f \in air, identity[f.to] = Configured[f.to],
                      Knows(Unexpired(seen_cache[f.to], Millis(f.to)),
                            PacketHash(ReadFrom(f.frame)))
               PROVE  Heard(f.to, ReadFrom(f.frame))
    BY DEF DuplicatesWereHeard, Heard
  <2>1. f.to \in Nodes
    BY DEF TypeInv, TrafficOK
  <2>2. PICK e \in seen_cache[f.to] : e.hash = PacketHash(ReadFrom(f.frame))
    BY DEF Knows, Unexpired
  <2>3. Heard(f.to, PacketHash(ReadFrom(f.frame)))
    BY <2>1, <2>2 DEF HeardInv, HeardAll
  <2> QED BY <2>1, <2>3, TriggersOfHash DEF Heard
<1> QED BY <1>1, <1>2, <1>3, PTL DEF Spec

-----------------------------------------------------------------------------
(***************************************************************************)
(* Floods do not loop.                                                     *)
(***************************************************************************)

\* Every node goes by its configured identity all the time.
ConfiguredInv == identity = Configured /\ \A n \in Nodes : ready[n]

\* Nodes start with their configured identities.
LEMMA InitConfiguredInv == AllConfigured /\ Init => ConfiguredInv
BY DEF AllConfigured, Init, ConfiguredInv

\* Reboots restore them, and setup() finds nothing to generate.
LEMMA NextConfiguredInv == AllConfigured /\ ConfiguredInv /\ [Next]_vars => ConfiguredInv'
<1> SUFFICES ASSUME AllConfigured, ConfiguredInv, [Next]_vars PROVE ConfiguredInv'
  OBVIOUS
<1>1. ASSUME NEW n \in Nodes, Setup(n) PROVE FALSE
  BY <1>1 DEF Setup, ConfiguredInv
<1>2. ASSUME NEW n \in Nodes, Reboot(n) PROVE ConfiguredInv'
  <2>1. identity' = [identity EXCEPT ![n] = Configured[n]]
        /\ ready' = [ready EXCEPT ![n] = TRUE]
    BY <1>2 DEF Reboot, AllConfigured
  <2>2. Configured = [m \in Nodes |-> Configured[m]]
    BY DEF Configured
  <2> QED BY <2>1, <2>2 DEF ConfiguredInv
<1>3. ASSUME NEW n \in Nodes, Receive(n) \/ Relay(n) \/ RelayFails(n)
      PROVE  UNCHANGED <<ready, identity>>
  BY <1>3 DEF Receive, DropMalformed, DropDuplicate, Handle, Relay, RelayFails, node
<1>4. ASSUME NEW n \in Nodes, NEW out, Send(n, out) \/ SendFails(n)
      PROVE  UNCHANGED <<ready, identity>>
  BY <1>4 DEF Send, SendFails, node
<1>5. ASSUME NEW x, ForeignSend(x) \/ Lose(x) \/ Tick \/ UNCHANGED vars
      PROVE  UNCHANGED <<ready, identity>>
  BY <1>5 DEF ForeignSend, Lose, Tick, vars, node
<1>6. UNCHANGED <<ready, identity>> => ConfiguredInv'
  BY DEF ConfiguredInv
<1> QED BY <1>1, <1>2, <1>3, <1>4, <1>5, <1>6 DEF Next

\* Where a hash byte is in a packet's path.
Occurs(pkt, h) == {i \in 1..Len(pkt.path) : pkt.path[i] = h}

\* How often node n may have relayed the packet: once for each boot it is over
\* with, and in this one if the packet is in its cache.
MayHaveRelayed(pkt, n) ==
  boots[n] + (IF Knows(seen_cache[n], PacketHash(pkt)) THEN 1 ELSE 0)

\* No node has relayed the packet more often than it may have.
NotLooped(pkt) ==
  pkt.type # "TRACE" =>
    \A n \in Nodes : Cardinality(Occurs(pkt, Byte(n))) <= MayHaveRelayed(pkt, n)

\* The inductive invariant: a bound on the copies of a packet by what the nodes
\* remember of it.
LoopInv == \A pkt \in Frames : NotLooped(pkt)

\* A path is finite.
LEMMA OccursFinite ==
  ASSUME NEW pkt, PacketOK(pkt), NEW h
  PROVE  IsFiniteSet(Occurs(pkt, h)) /\ Cardinality(Occurs(pkt, h)) \in Nat
<1>1. Len(pkt.path) \in Nat /\ Occurs(pkt, h) \subseteq 1..Len(pkt.path)
  BY DEF PacketOK, Occurs
<1>2. IsFiniteSet(1..Len(pkt.path))
  BY <1>1, FS_Interval
<1> QED BY <1>1, <1>2, FS_Subset, FS_CardinalityType

\* The path edit adds no hash byte but the node's own.
LEMMA OccursOnceMore ==
  ASSUME NEW pkt, PacketOK(pkt), IsValidPathLen(pkt.path_len), NEW h \in Int,
         NEW b \in Nat, b # 0
  PROVE  LET new == AppendHash(pkt, h) IN
         Cardinality(Occurs(new, b)) <=
           Cardinality(Occurs(pkt, b)) + (IF h = b THEN 1 ELSE 0)
<1> DEFINE new == AppendHash(pkt, h)
           L == GetPathByteLen(new.path_len)
           old == Occurs(pkt, b)
           last == Len(pkt.path) + 1
<1>1. PacketOK(new) /\ new.path = PathBytes(Append(pkt.path, h), L)
  BY AppendHashKeeps
<1>2. L \in Nat
  BY <1>1, ByteLenNat DEF PacketOK
<1>3. /\ Len(pkt.path) \in Nat
      /\ Len(Append(pkt.path, h)) = last
      /\ \A i \in 1..last : Append(pkt.path, h)[i] = IF i = last THEN h ELSE pkt.path[i]
  BY DEF PacketOK
<1> HIDE DEF new, L
<1>4. Len(new.path) = L
  BY <1>1, <1>2 DEF PathBytes
<1>5. \A i \in 1..L : new.path[i] = b => i \in old \/ (i = last /\ h = b)
  <2> SUFFICES ASSUME NEW i \in 1..L, new.path[i] = b
               PROVE  i \in old \/ (i = last /\ h = b)
    OBVIOUS
  <2>1. new.path[i] = IF i <= last THEN Append(pkt.path, h)[i]
                      ELSE IF i <= MAX_PATH_SIZE THEN 0 ELSE PayloadByte
    BY <1>1, <1>3 DEF PathBytes
  <2>2. PayloadByte # b /\ 0 # b
    BY DEF PayloadByte
  <2>3. i <= last
    BY <2>1, <2>2
  <2>4. b = IF i = last THEN h ELSE pkt.path[i]
    BY <1>2, <1>3, <2>1, <2>3
  <2> QED BY <1>2, <1>3, <2>3, <2>4 DEF Occurs
<1>6. IsFiniteSet(old) /\ Cardinality(old) \in Nat
  BY OccursFinite
<1>7. CASE h = b
  <2>1. Occurs(new, b) \subseteq old \cup {last}
    BY <1>4, <1>5 DEF Occurs
  <2> HIDE DEF old, last
  <2>2. /\ IsFiniteSet(old \cup {last})
        /\ Cardinality(old \cup {last}) \in {Cardinality(old), Cardinality(old) + 1}
    BY <1>6, FS_AddElement
  <2>3. Cardinality(Occurs(new, b)) <= Cardinality(old \cup {last})
    BY <2>1, <2>2, FS_Subset
  <2>4. Cardinality(Occurs(new, b)) \in Nat /\ Cardinality(old \cup {last}) \in Nat
    BY <1>1, <2>2, OccursFinite, FS_CardinalityType
  <2> QED BY <1>6, <1>7, <2>2, <2>3, <2>4 DEF old, new
<1>8. CASE h # b
  <2>1. Occurs(new, b) \subseteq old
    BY <1>4, <1>5, <1>8 DEF Occurs
  <2> HIDE DEF old
  <2>2. Cardinality(Occurs(new, b)) <= Cardinality(old)
    BY <1>6, <2>1, FS_Subset
  <2> QED BY <1>6, <1>8, <2>2 DEF old, new
<1> QED BY <1>7, <1>8

\* A packet that no node of the mesh has relayed.
LEMMA FreshNotLooped ==
  ASSUME TypeInv, NEW pkt, \A n \in Nodes : Occurs(pkt, Byte(n)) = {}
  PROVE  NotLooped(pkt)
<1> SUFFICES ASSUME NEW n \in Nodes PROVE 0 <= MayHaveRelayed(pkt, n)
  BY FS_EmptySet DEF NotLooped
<1> QED BY MeshConstants DEF MayHaveRelayed, TypeInv, CountsOK

\* At first nothing is on the air.
LEMMA InitLoopInv == Init => LoopInv
BY DEF Init, LoopInv, Frames

\* A step in which the caches only learn.
LEMMA StillNotLooped ==
  ASSUME TypeInv, NEW pkt, PacketOK(pkt), NotLooped(pkt), UNCHANGED boots,
         \A n \in Nodes : \A hash : Knows(seen_cache[n], hash) => Knows(seen_cache'[n], hash)
  PROVE  NotLooped(pkt)'
<1> SUFFICES ASSUME pkt.type # "TRACE", NEW n \in Nodes
             PROVE  Cardinality(Occurs(pkt, Byte(n))) <= MayHaveRelayed(pkt, n)'
  BY DEF NotLooped
<1>1. Cardinality(Occurs(pkt, Byte(n))) <= MayHaveRelayed(pkt, n)
  BY DEF NotLooped
<1>2. Cardinality(Occurs(pkt, Byte(n))) \in Nat /\ boots[n] \in Nat
  BY OccursFinite, MeshConstants DEF TypeInv, CountsOK
<1>3. MayHaveRelayed(pkt, n) \in {boots[n], boots[n] + 1}
      /\ MayHaveRelayed(pkt, n)' \in {boots[n], boots[n] + 1}
      /\ MayHaveRelayed(pkt, n) <= MayHaveRelayed(pkt, n)'
  BY <1>2 DEF MayHaveRelayed
<1> QED BY <1>1, <1>2, <1>3

\* A packet a node relays is new to it, and in its cache from then on.
LEMMA NextLoopInv ==
  ASSUME BytesDiffer, OthersUnrelayed, CachesKeep,
         TypeInv, ConfiguredInv, ConfiguredInv', LoopInv, [Next]_vars
  PROVE  LoopInv'
<1>1. TypeInv'
  BY NextTypeInv
<1>2. (\A pkt \in Frames : PacketOK(pkt)) /\ (\A pkt \in Frames' : PacketOK(pkt))
  BY <1>1 DEF Frames, TypeInv, TrafficOK
<1>3. CachesRoomy
  BY DEF CachesKeep, CachesRoomy
<1>4. \A n \in Nodes : identity[n].pub = Configured[n].pub /\ HashByte[identity[n].pub] = Byte(n)
  BY DEF ConfiguredInv, Byte
<1>5. \A n \in Nodes : Byte(n) \in Nat /\ Byte(n) # 0
  BY ConfiguredKeys, MeshConstants DEF Byte, BytesDiffer
<1>6. ASSUME NEW n \in Nodes, NEW f \in air, Handle(n, f) PROVE LoopInv'
  <2> DEFINE pkt == ReadFrom(f.frame)
             hash == PacketHash(pkt)
             edited == AppendHash(pkt, Byte(n))
             answers == Answers(n, Triggers(n, pkt))
  <2>1. PICK outs \in SUBSET answers :
          air' = (air \ {f}) \cup UNION {Broadcast(n, out.pkt) : out \in outs}
    BY <1>6 DEF Handle
  <2>2. /\ boots' = boots
        /\ \/ relaying' = [relaying EXCEPT ![n] = {edited}]
           \/ relaying' = [relaying EXCEPT ![n] = {}]
    BY <1>4, <1>6 DEF Handle, node
  <2>3. /\ ~Knows(seen_cache[n], hash)
        /\ Knows(seen_cache'[n], hash)
        /\ \A m \in Nodes : \A h : Knows(seen_cache[m], h) => Knows(seen_cache'[m], h)
    BY <1>3, <1>6, HandleRemembers DEF CachesKeep, Knows, Holds
  <2>4. \A p \in Frames : NotLooped(p)'
    BY <1>2, <2>2, <2>3, StillNotLooped DEF LoopInv
  <2>5. \A out \in outs : NotLooped(out.pkt)'
    <3> SUFFICES ASSUME NEW out \in outs PROVE NotLooped(out.pkt)'
      OBVIOUS
    <3>1. out.pkt.path = <<>> /\ PacketOK(out.pkt)
      BY <2>1, AnswersPlayed, PlayedFlood
    <3>2. \A m \in Nodes : Occurs(out.pkt, Byte(m)) = {}
      BY <3>1 DEF Occurs
    <3>3. NotLooped(out.pkt)
      BY <3>2, FreshNotLooped
    <3> QED BY <2>2, <2>3, <3>1, <3>3, StillNotLooped
  <2>6. NotLooped(edited)'
    <3>1. /\ PacketOK(f.frame.pkt) /\ IsValidPathLen(f.frame.pkt.path_len)
          /\ NotLooped(f.frame.pkt)
      BY <1>6 DEF TypeInv, TrafficOK, LoopInv, Frames, Handle, ReadFromOk
    <3>2. /\ PacketOK(pkt) /\ pkt.path_len = f.frame.pkt.path_len
          /\ pkt.type = f.frame.pkt.type /\ pkt.payload = f.frame.pkt.payload
          /\ pkt.path = f.frame.pkt.path
      BY <3>1, ReadFromKeeps
    <3>3. NotLooped(pkt)
      BY <3>1, <3>2 DEF NotLooped, Occurs, MayHaveRelayed, PacketHash
    <3> HIDE DEF pkt
    <3>4. edited.type = pkt.type /\ edited.payload = pkt.payload /\ PacketOK(edited)
      BY <1>5, <3>1, <3>2, AppendHashKeeps
    <3> SUFFICES ASSUME pkt.type # "TRACE", NEW m \in Nodes
                 PROVE  Cardinality(Occurs(edited, Byte(m))) <= MayHaveRelayed(edited, m)'
      BY <3>4 DEF NotLooped
    <3>5. PacketHash(edited) = hash
      BY <3>4 DEF PacketHash
    <3>6. Cardinality(Occurs(pkt, Byte(m))) <= MayHaveRelayed(pkt, m)
      BY <3>3 DEF NotLooped
    <3>7. Cardinality(Occurs(edited, Byte(m))) <=
            Cardinality(Occurs(pkt, Byte(m))) + (IF m = n THEN 1 ELSE 0)
      BY <1>5, <3>1, <3>2, OccursOnceMore DEF BytesDiffer
    <3>8. /\ Cardinality(Occurs(edited, Byte(m))) \in Nat
          /\ Cardinality(Occurs(pkt, Byte(m))) \in Nat
          /\ boots[m] \in Nat
      BY <3>2, <3>4, OccursFinite, MeshConstants DEF TypeInv, CountsOK
    <3>9. /\ MayHaveRelayed(pkt, m) = boots[m] + (IF Knows(seen_cache[m], hash) THEN 1 ELSE 0)
          /\ MayHaveRelayed(edited, m)' =
               boots[m] + (IF Knows(seen_cache'[m], hash) THEN 1 ELSE 0)
      BY <2>2, <3>5 DEF MayHaveRelayed
    <3> HIDE DEF edited, hash
    <3> QED BY <2>3, <3>6, <3>7, <3>8, <3>9
  <2> HIDE DEF edited, answers
  <2>7. \A g \in air' : NotLooped(g.frame.pkt)'
    <3> SUFFICES ASSUME NEW g \in air' PROVE NotLooped(g.frame.pkt)'
      OBVIOUS
    <3>1. CASE g \in air
      BY <2>4, <3>1 DEF Frames
    <3>2. CASE g \notin air
      <4>1. PICK out \in outs : g \in Broadcast(n, out.pkt)
        BY <2>1, <3>2
      <4>2. g.frame.pkt = out.pkt
        BY <4>1 DEF Broadcast, WriteTo
      <4> QED BY <2>5, <4>2
    <3> QED BY <3>1, <3>2
  <2>8. \A m \in Nodes : \A p \in relaying'[m] : NotLooped(p)'
    BY <2>2, <2>4, <2>6 DEF Frames, TypeInv, TrafficOK
  <2> QED BY <2>7, <2>8 DEF LoopInv, Frames
<1>7. ASSUME boots' = boots,
             \A n \in Nodes : \A h : Knows(seen_cache[n], h) => Knows(seen_cache'[n], h),
             \A pkt \in Frames' :
               pkt \in Frames \/ \A n \in Nodes : Occurs(pkt, Byte(n)) = {}
      PROVE  LoopInv'
  <2> SUFFICES ASSUME NEW pkt \in Frames' PROVE NotLooped(pkt)'
    BY DEF LoopInv
  <2>1. NotLooped(pkt)
    BY <1>7, FreshNotLooped DEF LoopInv
  <2> QED BY <1>2, <1>7, <2>1, StillNotLooped
<1>8. ASSUME NEW n \in Nodes, NEW action \in Config[n].press,
             NEW out \in Play(n, action), Send(n, out)
      PROVE  LoopInv'
  <2>1. UNCHANGED <<boots, seen_cache, relaying>> /\ air' = air \cup Broadcast(n, out.pkt)
    BY <1>8 DEF Send, node
  <2>2. \A m \in Nodes : Occurs(out.pkt, Byte(m)) = {}
    BY PlayedFlood, ConfigValid DEF Yaml, Occurs
  <2>3. \A pkt \in Frames' : pkt \in Frames \/ pkt = out.pkt
    BY <2>1 DEF Frames, Broadcast, WriteTo
  <2> QED BY <1>7, <2>1, <2>2, <2>3
<1>9. ASSUME NEW p \in ForeignPackets, ForeignSend(p) PROVE LoopInv'
  <2>1. /\ UNCHANGED <<boots, seen_cache, relaying>>
        /\ air' = air \cup {[to |-> n, from |-> n, frame |-> WriteTo(p.pkt)] : n \in p.to}
    BY <1>9 DEF ForeignSend, node
  <2>2. \A m \in Nodes : Occurs(p.pkt, Byte(m)) = {}
    BY DEF OthersUnrelayed, Occurs
  <2>3. \A pkt \in Frames' : pkt \in Frames \/ pkt = p.pkt
    BY <2>1 DEF Frames, WriteTo
  <2> QED BY <1>7, <2>1, <2>2, <2>3
<1>10. ASSUME NEW n \in Nodes, Relay(n) PROVE LoopInv'
  <2>1. /\ UNCHANGED <<boots, seen_cache>>
        /\ air' = air \cup UNION {Broadcast(n, pkt) : pkt \in relaying[n]}
        /\ relaying' = [relaying EXCEPT ![n] = {}]
    BY <1>10 DEF Relay, node
  <2>2. \A pkt \in Frames' : pkt \in Frames
    BY <2>1 DEF Frames, Broadcast, WriteTo, TypeInv, TrafficOK
  <2> QED BY <1>7, <2>1, <2>2
<1>11. ASSUME air' \subseteq air,
              \/ relaying' = relaying
              \/ \E n \in Nodes : relaying' = [relaying EXCEPT ![n] = {}]
       PROVE  Frames' \subseteq Frames
  BY <1>11 DEF Frames, TypeInv, TrafficOK
<1>12. ASSUME NEW n \in Nodes, NEW f, DropDuplicate(n, f) PROVE LoopInv'
  <2> DEFINE kept == Unexpired(seen_cache[n], Millis(n))
  <2>1. /\ seen_cache' = [seen_cache EXCEPT ![n] = Renumber(kept)]
        /\ UNCHANGED boots /\ Frames' \subseteq Frames
    BY <1>11, <1>12 DEF DropDuplicate, node
  <2>2. Ordered(kept) /\ kept = seen_cache[n] /\ DOMAIN seen_cache = Nodes
    BY KeptOK DEF CachesKeep, TypeInv, CachesOK
  <2>3. \A h, at : Holds(seen_cache[n], h, at) => Holds(Renumber(kept), h, at)
    BY <2>2, RenumberOK
  <2> HIDE DEF kept
  <2>4. \A m \in Nodes : \A h : Knows(seen_cache[m], h) => Knows(seen_cache'[m], h)
    BY <2>1, <2>2, <2>3 DEF Knows, Holds
  <2> QED BY <1>7, <2>1, <2>4
<1>13. ASSUME NEW n \in Nodes, Reboot(n) PROVE LoopInv'
  <2>1. /\ boots' = [boots EXCEPT ![n] = @ + 1]
        /\ seen_cache' = [seen_cache EXCEPT ![n] = {}]
        /\ Frames' \subseteq Frames
    BY <1>11, <1>13 DEF Reboot
  <2> SUFFICES ASSUME NEW pkt \in Frames, pkt.type # "TRACE", NEW m \in Nodes
               PROVE  Cardinality(Occurs(pkt, Byte(m))) <= MayHaveRelayed(pkt, m)'
    BY <2>1 DEF LoopInv, NotLooped
  <2>2. Cardinality(Occurs(pkt, Byte(m))) <= MayHaveRelayed(pkt, m)
    BY DEF LoopInv, NotLooped
  <2>3. Cardinality(Occurs(pkt, Byte(m))) \in Nat /\ boots[m] \in Nat
    BY <1>2, OccursFinite, MeshConstants DEF TypeInv, CountsOK
  <2>4. CASE m = n
    <3>1. boots'[n] = boots[n] + 1 /\ ~Knows(seen_cache'[n], PacketHash(pkt))
      BY <2>1 DEF TypeInv, CountsOK, CachesOK, Knows
    <3> QED BY <2>2, <2>3, <2>4, <3>1 DEF MayHaveRelayed
  <2>5. CASE m # n
    BY <2>1, <2>2, <2>5 DEF MayHaveRelayed, TypeInv, CountsOK, CachesOK
  <2> QED BY <2>4, <2>5
<1>14. ASSUME NEW n \in Nodes, NEW x, \/ DropMalformed(n, x) \/ Setup(n)
                                      \/ RelayFails(n) \/ SendFails(n)
       PROVE  UNCHANGED <<boots, seen_cache>> /\ Frames' \subseteq Frames
  BY <1>11, <1>14 DEF DropMalformed, Setup, RelayFails, SendFails, node
<1>15. ASSUME NEW x, Lose(x) \/ Tick \/ UNCHANGED vars
       PROVE  UNCHANGED <<boots, seen_cache>> /\ Frames' \subseteq Frames
  BY <1>11, <1>15 DEF Lose, Tick, vars, node
<1>16. UNCHANGED <<boots, seen_cache>> /\ Frames' \subseteq Frames => LoopInv'
  BY <1>7
<1> QED BY <1>6, <1>8, <1>9, <1>10, <1>12, <1>13, <1>14, <1>15, <1>16 DEF Next, Receive

\* Floods do not loop: while no cache forgets, a node's hash byte is in a path no
\* more often than the node has booted, whichever way the copies travel and
\* whatever is lost.
THEOREM FloodsDoNotLoop ==
  ASSUME AllConfigured, BytesDiffer, OthersUnrelayed
  PROVE  Spec /\ []CachesKeep => []NoLoops
<1> DEFINE Inv == TypeInv /\ ConfiguredInv /\ LoopInv
<1>1. Init => Inv
  BY InitTypeInv, InitConfiguredInv, InitLoopInv
<1>2. Inv /\ CachesKeep /\ [Next]_vars => Inv'
  BY NextTypeInv, NextConfiguredInv, NextLoopInv
<1>3. Inv => NoLoops
  <2> SUFFICES ASSUME Inv, NEW pkt \in Frames, NEW n \in Nodes, pkt.type # "TRACE"
               PROVE  Cardinality({i \in 1..Len(pkt.path) : pkt.path[i] = HashOf(n)})
                        <= boots[n] + 1
    BY DEF NoLoops
  <2>1. HashOf(n) = Byte(n)
    BY DEF HashOf, Byte, ConfiguredInv
  <2>2. Cardinality(Occurs(pkt, Byte(n))) <= MayHaveRelayed(pkt, n)
    BY DEF LoopInv, NotLooped
  <2>3. boots[n] \in Nat /\ Cardinality(Occurs(pkt, Byte(n))) \in Nat
    BY OccursFinite, MeshConstants DEF Frames, TypeInv, TrafficOK, CountsOK
  <2> QED BY <2>1, <2>2, <2>3 DEF MayHaveRelayed, Occurs
<1> QED BY <1>1, <1>2, <1>3, PTL DEF Spec

-----------------------------------------------------------------------------
(***************************************************************************)
(* A path is a route.                                                      *)
(***************************************************************************)

\* The path lists nodes each of which hears the one before, and ends with n.
RouteTo(path, n) ==
  path # <<>> =>
    /\ path[Len(path)] = Byte(n)
    /\ \A i \in 1..(Len(path) - 1) :
         \E m \in Nodes : /\ Byte(m) = path[i]
                          /\ \E k \in Neighbours[m] : Byte(k) = path[i + 1]

\* What a path says as long as it is counted: it leads to the node that
\* transmits it, which the receiver hears.
Counted(pkt, n) ==
  pkt.flood /\ pkt.path_len < PathCountMod =>
    Len(pkt.path) = pkt.path_len /\ RouteTo(pkt.path, n)

\* The inductive invariant: paths lead to their transmitters, who are heard.
RouteInv ==
  /\ \A f \in air : Counted(f.frame.pkt, f.from)
  /\ \A f \in air : f.to \in Neighbours[f.from] \/ f.frame.pkt.path = <<>>
                    \/ ~f.frame.pkt.flood
  /\ \A n \in Nodes : \A pkt \in relaying[n] : Counted(pkt, n)

\* A one-byte path within the count is as long as path_len says.
LEMMA CountedLen ==
  ASSUME NEW pl \in Nat, pl < PathCountMod
  PROVE  GetPathByteLen(pl) = pl /\ GetPathHashCount(pl) = pl
<1> DEFINE P == PathCountMod
<1>1. P \in Nat \ {0, 1} /\ ByteMod = 4 * P
  BY PacketConstants DEF ByteMod
<1>2. pl \div P = 0 /\ pl % P = pl
  BY <1>1, Z3
<1>3. pl % ByteMod = pl
  BY <1>1, Z3
<1>4. pl * (0 + 1) = pl
  OBVIOUS
<1> QED BY <1>2, <1>3, <1>4 DEF GetPathByteLen, GetPathHashCount, GetPathHashSize

\* The path edit of a node that hears the transmitter extends the route.
LEMMA RouteExtended ==
  ASSUME NEW n \in Nodes, NEW m \in Nodes, NEW pkt, PacketOK(pkt),
         IsValidPathLen(pkt.path_len), pkt.flood, Byte(n) \in Nat,
         Counted(pkt, m), n \in Neighbours[m] \/ pkt.path = <<>>
  PROVE  Counted(AppendHash(pkt, Byte(n)), n)
<1> DEFINE new == AppendHash(pkt, Byte(n))
           path == pkt.path
<1>1. /\ new.path_len = pkt.path_len + 1
      /\ new.path = PathBytes(Append(path, Byte(n)), GetPathByteLen(new.path_len))
  BY AppendHashKeeps
<1> HIDE DEF new
<1> SUFFICES ASSUME new.path_len < PathCountMod
             PROVE  Len(new.path) = new.path_len /\ RouteTo(new.path, n)
  BY DEF Counted, new
<1>2. pkt.path_len \in Nat /\ pkt.path_len < PathCountMod /\ new.path_len \in Nat
  BY <1>1, PacketConstants DEF PacketOK, ByteMod
<1>3. Len(path) = pkt.path_len /\ RouteTo(path, m)
  BY <1>2 DEF Counted
<1>4. new.path = PathBytes(Append(path, Byte(n)), Len(path) + 1)
  BY <1>1, <1>2, <1>3, CountedLen
<1>5. path \in Seq(Int) /\ Len(path) \in Nat
  BY DEF PacketOK
<1>6. /\ Len(new.path) = Len(path) + 1
      /\ new.path[Len(path) + 1] = Byte(n)
      /\ \A i \in 1..Len(path) : new.path[i] = path[i]
  BY <1>4, <1>5 DEF PathBytes
<1>7. ASSUME NEW i \in 1..Len(path)
      PROVE  \E k \in Nodes : /\ Byte(k) = new.path[i]
                              /\ \E j \in Neighbours[k] : Byte(j) = new.path[i + 1]
  <2>1. path # <<>>
    BY <1>5, <1>7
  <2>2. CASE i = Len(path)
    <3>1. new.path[i] = Byte(m) /\ new.path[i + 1] = Byte(n)
      BY <1>3, <1>6, <2>1, <2>2 DEF RouteTo
    <3> QED BY <2>1, <3>1
  <2>3. CASE i # Len(path)
    <3>1. i \in 1..(Len(path) - 1) /\ i + 1 \in 1..Len(path)
      BY <1>5, <2>3
    <3>2. new.path[i] = path[i] /\ new.path[i + 1] = path[i + 1]
      BY <1>6, <3>1
    <3> QED BY <1>3, <2>1, <3>1, <3>2 DEF RouteTo
  <2> QED BY <2>2, <2>3
<1>8. Len(new.path) = new.path_len
  BY <1>1, <1>3, <1>6
<1>9. new.path[Len(new.path)] = Byte(n) /\ 1..(Len(new.path) - 1) = 1..Len(path)
  BY <1>5, <1>6
<1> QED BY <1>7, <1>8, <1>9 DEF RouteTo

\* A packet whose path is empty leads anywhere.
LEMMA FreshCounted ==
  ASSUME NEW pkt, pkt.flood => pkt.path = <<>> /\ GetPathHashCount(pkt.path_len) = 0,
         pkt.path_len \in Nat, NEW n
  PROVE  Counted(pkt, n)
<1>1. Len(<<>>) = 0
  OBVIOUS
<1> QED BY <1>1, CountedLen DEF Counted, RouteTo

\* At first nothing is on the air.
LEMMA InitRouteInv == Init => RouteInv
BY DEF Init, RouteInv

\* What a node puts on the air, and who hears it.
LEMMA BroadcastRoute ==
  ASSUME NEW n \in Nodes, NEW pkt, Counted(pkt, n), NEW f \in Broadcast(n, pkt)
  PROVE  Counted(f.frame.pkt, f.from) /\ f.to \in Neighbours[f.from]
BY DEF Broadcast, WriteTo

\* What a node appends to a path is the hop it came by.
LEMMA NextRouteInv ==
  ASSUME OthersOriginate, TypeInv, ConfiguredInv, RouteInv, [Next]_vars
  PROVE  RouteInv'
<1> DEFINE Good(f) == /\ Counted(f.frame.pkt, f.from)
                      /\ \/ f.to \in Neighbours[f.from] \/ f.frame.pkt.path = <<>>
                         \/ ~f.frame.pkt.flood
<1>1. ASSUME NEW n \in Nodes, NEW f \in air, Handle(n, f) PROVE RouteInv'
  <2> DEFINE pkt == ReadFrom(f.frame)
             edited == AppendHash(pkt, Byte(n))
             answers == Answers(n, Triggers(n, pkt))
  <2>1. PICK outs \in SUBSET answers :
          air' = (air \ {f}) \cup UNION {Broadcast(n, out.pkt) : out \in outs}
    BY <1>1 DEF Handle
  <2>2. \/ relaying' = [relaying EXCEPT ![n] = {edited}] /\ pkt.flood
        \/ relaying' = [relaying EXCEPT ![n] = {}]
    BY <1>1 DEF Handle, Relays, ConfiguredInv, Byte
  <2>3. \A out \in outs : Counted(out.pkt, n)
    <3> SUFFICES ASSUME NEW out \in outs PROVE Counted(out.pkt, n)
      OBVIOUS
    <3>1. out.pkt.path = <<>> /\ out.pkt.path_len = 0
      BY <2>1, AnswersPlayed, PlayedFlood
    <3>2. GetPathHashCount(0) = 0
      BY CountedLen, PacketConstants
    <3> QED BY <3>1, <3>2, FreshCounted
  <2>4. ASSUME pkt.flood PROVE Counted(edited, n)
    <3>1. /\ PacketOK(f.frame.pkt) /\ IsValidPathLen(f.frame.pkt.path_len)
          /\ f.from \in Nodes /\ f.to = n /\ Good(f)
      BY <1>1 DEF TypeInv, TrafficOK, RouteInv, Handle, Hears, ReadFromOk
    <3>2. /\ PacketOK(pkt) /\ pkt.path_len = f.frame.pkt.path_len
          /\ pkt.path = f.frame.pkt.path /\ pkt.flood = f.frame.pkt.flood
      BY <3>1, ReadFromKeeps
    <3>3. Counted(pkt, f.from) /\ (n \in Neighbours[f.from] \/ pkt.path = <<>>)
      BY <2>4, <3>1, <3>2 DEF Counted
    <3>4. Byte(n) \in Nat
      BY ConfiguredKeys, MeshConstants DEF Byte
    <3> HIDE DEF pkt
    <3> QED BY <2>4, <3>1, <3>2, <3>3, <3>4, RouteExtended
  <2> HIDE DEF edited, answers, pkt
  <2>5. \A g \in air' : Good(g)
    <3> SUFFICES ASSUME NEW g \in air' PROVE Good(g)
      OBVIOUS
    <3>1. CASE g \in air
      BY <3>1 DEF RouteInv
    <3>2. CASE g \notin air
      BY <2>1, <2>3, <3>2, BroadcastRoute
    <3> QED BY <3>1, <3>2
  <2>6. \A m \in Nodes : \A p \in relaying'[m] : Counted(p, m)
    BY <2>2, <2>4 DEF RouteInv, TypeInv, TrafficOK
  <2> QED BY <2>5, <2>6 DEF RouteInv
<1>2. ASSUME \A f \in air' : f \in air \/ Good(f),
             \/ relaying' = relaying
             \/ \E n \in Nodes : relaying' = [relaying EXCEPT ![n] = {}]
      PROVE  RouteInv'
  BY <1>2 DEF RouteInv, TypeInv, TrafficOK
<1>3. ASSUME NEW n \in Nodes, NEW action \in Config[n].press,
             NEW out \in Play(n, action), Send(n, out)
      PROVE  RouteInv'
  <2>1. out.pkt.path = <<>> /\ out.pkt.path_len = 0
    BY PlayedFlood, ConfigValid DEF Yaml
  <2>2. GetPathHashCount(0) = 0
    BY CountedLen, PacketConstants
  <2>3. Counted(out.pkt, n)
    BY <2>1, <2>2, FreshCounted
  <2> QED BY <1>2, <1>3, <2>3, BroadcastRoute DEF Send
<1>4. ASSUME NEW p \in ForeignPackets, ForeignSend(p) PROVE RouteInv'
  <2>1. /\ air' = air \cup {[to |-> n, from |-> n, frame |-> WriteTo(p.pkt)] : n \in p.to}
        /\ relaying' = relaying
    BY <1>4 DEF ForeignSend
  <2>2. p.pkt.path_len \in Nat
    BY MeshConstants, PacketConstants DEF ByteMod
  <2>3. \A n : Counted(p.pkt, n)
    BY <2>2, FreshCounted DEF OthersOriginate
  <2>4. p.pkt.path = <<>> \/ ~p.pkt.flood
    BY DEF OthersOriginate
  <2>5. \A f \in air' : f \in air \/ Good(f)
    BY <2>1, <2>3, <2>4 DEF WriteTo
  <2> QED BY <1>2, <2>1, <2>5
<1>5. ASSUME NEW n \in Nodes, Relay(n) PROVE RouteInv'
  <2>1. \A pkt \in relaying[n] : Counted(pkt, n)
    BY DEF RouteInv
  <2>2. /\ air' = air \cup UNION {Broadcast(n, pkt) : pkt \in relaying[n]}
        /\ relaying' = [relaying EXCEPT ![n] = {}]
    BY <1>5 DEF Relay
  <2>3. \A f \in air' : f \in air \/ Good(f)
    BY <2>1, <2>2, BroadcastRoute
  <2> QED BY <1>2, <2>2, <2>3
<1>6. ASSUME NEW n \in Nodes, NEW x, \/ DropMalformed(n, x) \/ DropDuplicate(n, x)
                                     \/ Setup(n) \/ SendFails(n)
                                     \/ RelayFails(n) \/ Reboot(n)
      PROVE  RouteInv'
  BY <1>2, <1>6 DEF DropMalformed, DropDuplicate, Setup, SendFails, RelayFails, Reboot
<1>7. ASSUME NEW x, Lose(x) \/ Tick \/ UNCHANGED vars PROVE RouteInv'
  BY <1>2, <1>7 DEF Lose, Tick, vars
<1> QED BY <1>1, <1>3, <1>4, <1>5, <1>6, <1>7 DEF Next, Receive

\* The path of a flood is the route it came: each node of it hears the one before,
\* and the last is the one that transmitted it; from any origin, over any relays,
\* with losses, duplicates and reboots, as long as no count overflows.
THEOREM PathsAreRoutes ==
  ASSUME AllConfigured, OthersOriginate
  PROVE  Spec /\ []PathsCounted => []PathIsRoute
<1> DEFINE Inv == TypeInv /\ ConfiguredInv /\ RouteInv
<1>1. Init => Inv
  BY InitTypeInv, InitConfiguredInv, InitRouteInv
<1>2. Inv /\ [Next]_vars => Inv'
  BY NextTypeInv, NextConfiguredInv, NextRouteInv
<1>3. Inv /\ PathsCounted => PathIsRoute
  <2> SUFFICES ASSUME Inv, PathsCounted, NEW f \in air, f.frame.pkt.flood,
                      f.frame.pkt.path # <<>>
               PROVE  LET path == f.frame.pkt.path IN
                      /\ path[Len(path)] = HashOf(f.from)
                      /\ \A i \in 1..(Len(path) - 1) :
                           \E m \in Nodes :
                             /\ HashOf(m) = path[i]
                             /\ \E k \in Neighbours[m] : HashOf(k) = path[i + 1]
    BY DEF PathIsRoute
  <2>1. RouteTo(f.frame.pkt.path, f.from)
    BY DEF PathsCounted, RouteInv, Counted
  <2>2. /\ f.from \in Nodes /\ \A n \in Nodes : HashOf(n) = Byte(n)
        /\ \A m \in Nodes : Neighbours[m] \subseteq Nodes
    BY MeshConstants DEF HashOf, Byte, ConfiguredInv, TypeInv, TrafficOK
  <2> QED BY <2>1, <2>2 DEF RouteTo
<1> QED BY <1>1, <1>2, <1>3, PTL DEF Spec
=============================================================================
