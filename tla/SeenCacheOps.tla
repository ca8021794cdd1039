---------------------------- MODULE SeenCacheOps ----------------------------
(***************************************************************************)
(* The dedup cache of MeshCoreComponent: already_seen_ and remember_seen_ *)
(* as operators on the value of seen_cache_.                               *)
(*                                                                         *)
(* seen_cache_ is a vector used as a queue: entries are appended, erased   *)
(* at the front when it is full, and erased anywhere when they expire. It  *)
(* is modelled as a set of entries that carry the ordinal of their         *)
(* insertion, so begin() is the entry with the least ordinal.              *)
(***************************************************************************)
EXTENDS Integers, FiniteSets

CONSTANTS
  DEDUP_CACHE_SIZE,  \* 64
  DEDUP_EXPIRE_MS,   \* 10 minutes
  MillisMod          \* 2^32: millis() is a uint32_t

ASSUME SeenCacheConstants ==
  /\ DEDUP_CACHE_SIZE \in Nat \ {0}
  /\ DEDUP_EXPIRE_MS \in Nat
  /\ MillisMod \in Nat \ {0}

\* The difference of two uint32_t time stamps.
Elapsed(now, then) == (now - then) % MillisMod

\* Mutants of Unexpired: the comparison without the unsigned
\* subtraction, which the wrap of millis() breaks; entries expire one tick early.
UnexpiredSigned(cache, now) ==
  {e \in cache : now <= e.seen_at_ms + DEDUP_EXPIRE_MS}
UnexpiredEarly(cache, now) ==
  {e \in cache : Elapsed(now, e.seen_at_ms) < DEDUP_EXPIRE_MS}

\* The entries the erase loop of already_seen_ leaves.
Unexpired(cache, now) ==
  {e \in cache : Elapsed(now, e.seen_at_ms) <= DEDUP_EXPIRE_MS}

\* The search of already_seen_.
Knows(cache, hash) == \E e \in cache : e.hash = hash

Oldest(cache) == CHOOSE e \in cache : \A f \in cache : e.ord <= f.ord

\* Mutants of Remember: eviction starts one entry early; nothing is ever
\* evicted; nothing is ever remembered.
RememberEvictEarly(cache, hash, now, ord) ==
  (IF Cardinality(cache) >= DEDUP_CACHE_SIZE - 1 /\ cache # {}
     THEN cache \ {Oldest(cache)} ELSE cache)
    \cup {[hash |-> hash, seen_at_ms |-> now, ord |-> ord]}
RememberUnbounded(cache, hash, now, ord) ==
  cache \cup {[hash |-> hash, seen_at_ms |-> now, ord |-> ord]}

RememberNothing(cache, hash, now, ord) == cache

\* remember_seen_: make room by erasing the front, then append.
Remember(cache, hash, now, ord) ==
  (IF Cardinality(cache) >= DEDUP_CACHE_SIZE
     THEN cache \ {Oldest(cache)} ELSE cache)
    \cup {[hash |-> hash, seen_at_ms |-> now, ord |-> ord]}
=============================================================================
