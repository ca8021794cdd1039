--------------------------- MODULE SeenCacheProofs ---------------------------
(***************************************************************************)
(* Theorems about SeenCache for every size of the cache, every expiry time,*)
(* every width of millis() and every number of packets.                    *)
(***************************************************************************)
EXTENDS SeenCache, FiniteSetTheorems, SequenceTheorems,
        WellFoundedInduction, TLAPS

\* The unsigned difference of two time stamps never exceeds the time that has
\* really passed between them.
LEMMA ElapsedBound ==
  ASSUME NEW x \in Nat, NEW y \in Nat, y <= x
  PROVE  /\ Elapsed(x % MillisMod, y % MillisMod) \in Nat
         /\ Elapsed(x % MillisMod, y % MillisMod) <= x - y
<1> DEFINE M == MillisMod
           qx == x \div M
           rx == x % M
           qy == y \div M
           ry == y % M
<1>1. M \in Nat \ {0}
  BY SeenCacheConstants
<1>2. /\ x = M * qx + rx /\ qx \in Nat /\ rx \in 0..(M - 1)
      /\ y = M * qy + ry /\ qy \in Nat /\ ry \in 0..(M - 1)
  BY <1>1, Z3
<1>3. \A q \in Nat, r \in 0..(M - 1) : (M * q + r) % M = r
  BY <1>1, Z3
<1> HIDE DEF qx, rx, qy, ry
<1>4. x - y = M * (qx - qy) + (rx - ry)
  BY <1>1, <1>2, SMT
<1>5. CASE rx >= ry
  <2>1. rx - ry \in 0..(M - 1)
    BY <1>1, <1>2, <1>5
  <2>2. (M * 0 + (rx - ry)) % M = rx - ry
    BY <2>1, <1>3
  <2>3. qx >= qy
    <3> SUFFICES ASSUME qx - qy <= -1 PROVE FALSE
      BY <1>2
    <3>1. M * (qx - qy) <= M * (-1)
      BY <1>1, <1>2, Z3
    <3> QED BY <3>1, <1>1, <1>2, <1>4
  <2>4. M * (qx - qy) >= 0
    BY <2>3, <1>1, <1>2, Z3
  <2>5. (rx - ry) % M = rx - ry
    BY <2>1, <2>2, <1>1
  <2> QED BY <2>1, <2>4, <2>5, <1>1, <1>2, <1>4 DEF Elapsed, rx, ry
<1>6. CASE rx < ry
  <2>1. rx - ry + M \in 0..(M - 1)
    BY <1>1, <1>2, <1>6
  <2>2. (rx - ry) % M = rx - ry + M
    BY <2>1, <1>1, <1>2, Z3
  <2>3. qx - qy >= 1
    <3> SUFFICES ASSUME qx - qy <= 0 PROVE FALSE
      BY <1>2
    <3>1. M * (qx - qy) <= 0
      BY <1>1, <1>2, Z3
    <3> QED BY <3>1, <1>1, <1>2, <1>4, <1>6
  <2>4. M * (qx - qy) >= M
    BY <2>3, <1>1, <1>2, Z3
  <2> QED BY <2>1, <2>2, <2>4, <1>1, <1>2, <1>4 DEF Elapsed, rx, ry
<1> QED BY <1>2, <1>5, <1>6

\* A set of natural numbers has a least one.
LEMMA LeastNat ==
  ASSUME NEW S \in SUBSET Nat, S # {}
  PROVE  \E x \in S : \A y \in S : x <= y
<1>1. IsWellFoundedOn(OpToRel(<, Nat), Nat)
  BY NatLessThanWellFounded
<1>2. PICK x \in S : \A y \in S : ~(<<y, x>> \in OpToRel(<, Nat))
  BY <1>1, WFMin
<1>3. \A y \in S : ~(y < x)
  BY <1>2 DEF OpToRel
<1> QED BY <1>3

\* begin() of a cache that is not empty.
LEMMA OldestIsFirst ==
  ASSUME NEW cache, cache # {}, \A e \in cache : e.ord \in Nat
  PROVE  Oldest(cache) \in cache /\ \A f \in cache : Oldest(cache).ord <= f.ord
<1>1. {e.ord : e \in cache} \in SUBSET Nat /\ {e.ord : e \in cache} # {}
  OBVIOUS
<1>2. PICK x \in {e.ord : e \in cache} : \A y \in {e.ord : e \in cache} : x <= y
  BY <1>1, LeastNat
<1>3. \E e \in cache : \A f \in cache : e.ord <= f.ord
  BY <1>2
<1> QED BY <1>3 DEF Oldest

\* Entries with different ordinals from an interval: no more than it is long.
LEMMA OrdinalsBound ==
  ASSUME NEW cache, NEW lo \in Nat, NEW hi \in Nat, lo <= hi + 1,
         \A e \in cache : e.ord \in lo..hi,
         \A e, f \in cache : e.ord = f.ord => e = f
  PROVE  IsFiniteSet(cache) /\ Cardinality(cache) <= hi - lo + 1
<1> DEFINE ord == [e \in cache |-> e.ord]
<1>1. ord \in Injection(cache, lo..hi)
  BY DEF Injection, IsInjective
<1>2. IsFiniteSet(lo..hi) /\ Cardinality(lo..hi) = hi - lo + 1
  BY FS_Interval
<1> QED BY <1>1, <1>2, FS_Injection

-----------------------------------------------------------------------------
\* What an entry stands for: the packet of the log that has its ordinal.
Entries ==
  \A e \in seen_cache :
    /\ e.ord \in 1..Len(log)
    /\ e = [hash |-> log[e.ord].hash, seen_at_ms |-> log[e.ord].at % MillisMod,
            ord |-> e.ord]

\* Packets are logged in the order of time.
Ordered ==
  /\ \A i, j \in 1..Len(log) : i <= j => log[i].at <= log[j].at
  /\ \A i \in 1..Len(log) : log[i].at <= now

\* A packet that is missing in the cache has expired, or so many have been let
\* through after it that it was evicted.
Covers(cache) ==
  \A i \in 1..Len(log) :
    \/ \E e \in cache : e.ord = i
    \/ now - log[i].at > DEDUP_EXPIRE_MS
    \/ Len(log) - i >= DEDUP_CACHE_SIZE

\* The inductive invariant.
IInv == TypeOK /\ Entries /\ Ordered /\ Covers(seen_cache) /\ NoEarlyRepeat

\* What is in the log was logged.
LEMMA LogType ==
  ASSUME log \in Seq(Logged), NEW i \in 1..Len(log)
  PROVE  log[i].hash \in Hashes /\ log[i].at \in Nat
<1>1. log[i] \in Logged
  BY ElementOfSeq
<1> QED BY <1>1 DEF Logged

\* The invariant holds of the empty cache.
LEMMA InitIInv == Init => IInv
<1> SUFFICES ASSUME Init PROVE IInv
  OBVIOUS
<1>1. seen_cache = {} /\ log = <<>> /\ Len(log) = 0
  BY DEF Init
<1>2. TypeOK
  BY <1>1, FS_EmptySet, SeenCacheConstants DEF Init, TypeOK
<1> QED BY <1>1, <1>2 DEF IInv, Entries, Ordered, Covers, NoEarlyRepeat

\* What the erase loop of already_seen_ leaves is still a finite set of entries
\* with different ordinals, and nothing is missing in it without reason.
LEMMA Pruned ==
  ASSUME IInv
  PROVE  LET kept == Unexpired(seen_cache, Millis) IN
         /\ kept \subseteq seen_cache
         /\ IsFiniteSet(kept)
         /\ Cardinality(kept) \in Nat
         /\ Cardinality(kept) <= DEDUP_CACHE_SIZE
         /\ \A e \in kept : e.ord \in 1..Len(log) /\ e.hash = log[e.ord].hash
         /\ \A e, f \in kept : e.ord = f.ord => e = f
         /\ Covers(kept)
<1> DEFINE kept == Unexpired(seen_cache, Millis)
<1>1. kept \subseteq seen_cache
  BY DEF Unexpired
<1>2. IsFiniteSet(seen_cache) /\ Cardinality(seen_cache) <= DEDUP_CACHE_SIZE
  BY DEF IInv, TypeOK
<1>3. /\ IsFiniteSet(kept) /\ Cardinality(kept) \in Nat
      /\ Cardinality(kept) <= DEDUP_CACHE_SIZE
  <2>1. IsFiniteSet(kept) /\ Cardinality(kept) <= Cardinality(seen_cache)
    BY <1>1, <1>2, FS_Subset
  <2>2. Cardinality(kept) \in Nat /\ Cardinality(seen_cache) \in Nat
    BY <2>1, <1>2, FS_CardinalityType
  <2> QED BY <2>1, <2>2, <1>2, SeenCacheConstants
<1>4. \A e \in kept : e.ord \in 1..Len(log) /\ e.hash = log[e.ord].hash
  BY <1>1 DEF IInv, Entries
<1>5. \A e, f \in kept : e.ord = f.ord => e = f
  BY <1>1 DEF IInv, Entries
<1>6. Covers(kept)
  <2> SUFFICES ASSUME NEW i \in 1..Len(log), ~(\E e \in kept : e.ord = i),
                      ~(Len(log) - i >= DEDUP_CACHE_SIZE)
               PROVE  now - log[i].at > DEDUP_EXPIRE_MS
    BY DEF Covers
  <2>1. CASE ~(\E e \in seen_cache : e.ord = i)
    BY <2>1 DEF IInv, Covers
  <2>2. CASE \E e \in seen_cache : e.ord = i
    <3>1. PICK e \in seen_cache : e.ord = i
      BY <2>2
    <3>2. now \in Nat /\ log[i].at \in Nat /\ log[i].at <= now
      BY LogType DEF IInv, TypeOK, Ordered
    <3>3. e.seen_at_ms = log[i].at % MillisMod
      BY <3>1 DEF IInv, Entries
    <3>4. ~(Elapsed(Millis, e.seen_at_ms) <= DEDUP_EXPIRE_MS)
      BY <3>1 DEF Unexpired
    <3>5. /\ Elapsed(Millis, e.seen_at_ms) \in Nat
          /\ Elapsed(Millis, e.seen_at_ms) <= now - log[i].at
      BY <3>2, <3>3, ElapsedBound DEF Millis
    <3> QED BY <3>2, <3>4, <3>5, SeenCacheConstants
  <2> QED BY <2>1, <2>2
<1> QED BY <1>1, <1>3, <1>4, <1>5, <1>6

\* remember_seen_ keeps the cache within its size. What it evicts is so old
\* that the whole cache has been let through after it.
LEMMA Remembered ==
  ASSUME NEW kept, NEW n \in Nat, NEW h, NEW ms,
         IsFiniteSet(kept), Cardinality(kept) \in Nat,
         Cardinality(kept) <= DEDUP_CACHE_SIZE,
         \A e \in kept : e.ord \in 1..n,
         \A e, f \in kept : e.ord = f.ord => e = f
  PROVE  LET new  == [hash |-> h, seen_at_ms |-> ms, ord |-> n + 1]
             next == Remember(kept, h, ms, n + 1) IN
         /\ new \in next
         /\ next \subseteq kept \cup {new}
         /\ IsFiniteSet(next)
         /\ Cardinality(next) <= DEDUP_CACHE_SIZE
         /\ \A e \in kept : e \in next \/ n + 1 - e.ord >= DEDUP_CACHE_SIZE
<1> DEFINE new == [hash |-> h, seen_at_ms |-> ms, ord |-> n + 1]
           next == Remember(kept, h, ms, n + 1)
<1>1. DEDUP_CACHE_SIZE \in Nat \ {0}
  BY SeenCacheConstants
<1>2. CASE Cardinality(kept) >= DEDUP_CACHE_SIZE
  <2> DEFINE old == Oldest(kept)
  <2>1. kept # {}
    BY <1>1, <1>2, FS_EmptySet
  <2>2. old \in kept /\ \A e \in kept : old.ord <= e.ord
    BY <2>1, OldestIsFirst
  <2>3. Cardinality(kept) <= n - old.ord + 1
    <3>1. old.ord \in Nat /\ old.ord <= n + 1
      BY <2>2
    <3>2. \A e \in kept : e.ord \in old.ord..n
      BY <2>2
    <3> QED BY <3>1, <3>2, OrdinalsBound
  <2>4. next = (kept \ {old}) \cup {new}
    BY <1>2 DEF Remember
  <2>5. IsFiniteSet(kept \ {old}) /\ Cardinality(kept \ {old}) = Cardinality(kept) - 1
    BY <2>2, FS_RemoveElement
  <2>6. /\ IsFiniteSet(next)
        /\ Cardinality(next) \in {Cardinality(kept) - 1, Cardinality(kept)}
    BY <2>4, <2>5, FS_AddElement
  <2>7. n + 1 - old.ord >= DEDUP_CACHE_SIZE
    BY <1>1, <1>2, <2>2, <2>3
  <2> QED BY <1>1, <2>4, <2>6, <2>7
<1>3. CASE ~(Cardinality(kept) >= DEDUP_CACHE_SIZE)
  <2>1. next = kept \cup {new}
    BY <1>3 DEF Remember
  <2>2. /\ IsFiniteSet(kept \cup {new})
        /\ Cardinality(kept \cup {new})
             = IF new \in kept THEN Cardinality(kept) ELSE Cardinality(kept) + 1
    BY FS_AddElement
  <2> HIDE DEF new, next
  <2>3. Cardinality(next) <= DEDUP_CACHE_SIZE
    BY <1>1, <1>3, <2>1, <2>2
  <2>4. new \in next /\ next \subseteq kept \cup {new} /\ kept \subseteq next
    BY <2>1
  <2> QED BY <2>1, <2>2, <2>3, <2>4 DEF new, next
<1> QED BY <1>2, <1>3

\* A duplicate only removes what has expired.
LEMMA DuplicateIInv ==
  ASSUME IInv, NEW h \in Hashes, Duplicate(h)
  PROVE  IInv'
<1> DEFINE kept == Unexpired(seen_cache, Millis)
<1>1. /\ seen_cache' = kept /\ now' = now /\ log' = log /\ heard' = now
      /\ verdict' = "duplicate"
  BY DEF Duplicate
<1>2. kept \subseteq seen_cache /\ Covers(kept)
      /\ IsFiniteSet(kept) /\ Cardinality(kept) <= DEDUP_CACHE_SIZE
  BY Pruned
<1> HIDE DEF kept
<1>3. TypeOK'
  BY <1>1, <1>2 DEF IInv, TypeOK
<1>4. Entries' /\ Ordered' /\ NoEarlyRepeat'
  BY <1>1, <1>2 DEF IInv, Entries, Ordered, NoEarlyRepeat
<1>5. Covers(seen_cache)'
  BY <1>1, <1>2 DEF Covers
<1> QED BY <1>3, <1>4, <1>5 DEF IInv

\* A new packet takes the place of the oldest, at the end of the log.
LEMMA FreshIInv ==
  ASSUME IInv, NEW h \in Hashes, Fresh(h)
  PROVE  IInv'
<1> DEFINE kept == Unexpired(seen_cache, Millis)
           n    == Len(log)
           pkt  == [hash |-> h, at |-> now]
           new  == [hash |-> h, seen_at_ms |-> Millis, ord |-> n + 1]
<1>1. /\ seen_cache' = Remember(kept, h, Millis, n + 1)
      /\ log' = Append(log, pkt) /\ now' = now /\ heard' = now
      /\ verdict' = "fresh" /\ ~Knows(kept, h)
  BY DEF Fresh
<1>2. /\ now \in Nat /\ log \in Seq(Logged) /\ n \in Nat
      /\ pkt \in Logged
  BY DEF IInv, TypeOK, Logged
<1>3. /\ log' \in Seq(Logged) /\ Len(log') = n + 1
      /\ \A i \in 1..n : log'[i] = log[i]
      /\ log'[n + 1] = pkt
      /\ \A i \in 1..n : log[i].hash \in Hashes /\ log[i].at \in Nat
  <2> HIDE DEF pkt
  <2>1. /\ log' \in Seq(Logged) /\ Len(log') = n + 1
        /\ \A i \in 1..n : log'[i] = log[i]
        /\ log'[n + 1] = pkt
    BY <1>1, <1>2, AppendProperties
  <2> QED BY <2>1, <1>2, LogType
<1>4. /\ kept \subseteq seen_cache /\ Covers(kept)
      /\ IsFiniteSet(kept) /\ Cardinality(kept) \in Nat
      /\ Cardinality(kept) <= DEDUP_CACHE_SIZE
      /\ \A e \in kept : e.ord \in 1..n /\ e.hash = log[e.ord].hash
      /\ \A e, f \in kept : e.ord = f.ord => e = f
  BY Pruned
<1> HIDE DEF kept
<1>5. /\ new \in seen_cache' /\ seen_cache' \subseteq kept \cup {new}
      /\ IsFiniteSet(seen_cache') /\ Cardinality(seen_cache') <= DEDUP_CACHE_SIZE
      /\ \A e \in kept : e \in seen_cache' \/ n + 1 - e.ord >= DEDUP_CACHE_SIZE
  BY <1>1, <1>2, <1>4, Remembered
<1>6. Millis \in 0..(MillisMod - 1) /\ Millis = now % MillisMod
  BY <1>2, SeenCacheConstants, Z3 DEF Millis
<1>7. TypeOK'
  <2>1. new \in Entry
    BY <1>2, <1>6 DEF Entry
  <2>2. seen_cache' \in SUBSET Entry
    BY <2>1, <1>4, <1>5 DEF IInv, TypeOK
  <2> QED BY <2>2, <1>1, <1>2, <1>3, <1>5 DEF TypeOK
<1>8. Entries'
  <2> SUFFICES ASSUME NEW e \in seen_cache'
               PROVE  /\ e.ord \in 1..(n + 1)
                      /\ e = [hash |-> log'[e.ord].hash,
                              seen_at_ms |-> log'[e.ord].at % MillisMod,
                              ord |-> e.ord]
    BY <1>3 DEF Entries
  <2>1. CASE e = new
    BY <2>1, <1>2, <1>3, <1>6
  <2>2. CASE e \in kept
    <3>1. /\ e.ord \in 1..n
          /\ e = [hash |-> log[e.ord].hash, seen_at_ms |-> log[e.ord].at % MillisMod,
                  ord |-> e.ord]
      BY <2>2, <1>4 DEF IInv, Entries
    <3>2. log'[e.ord] = log[e.ord]
      BY <3>1, <1>3
    <3> QED BY <3>1, <3>2, <1>2
  <2> QED BY <2>1, <2>2, <1>5
<1>9. Ordered'
  <2>1. \A i \in 1..n : log[i].at <= now
    BY DEF IInv, Ordered
  <2>2. \A i, j \in 1..n : i <= j => log[i].at <= log[j].at
    BY DEF IInv, Ordered
  <2> QED BY <2>1, <2>2, <1>1, <1>2, <1>3 DEF Ordered
<1>10. Covers(seen_cache)'
  <2> SUFFICES ASSUME NEW i \in 1..(n + 1)
               PROVE  \/ \E e \in seen_cache' : e.ord = i
                      \/ now - log'[i].at > DEDUP_EXPIRE_MS
                      \/ n + 1 - i >= DEDUP_CACHE_SIZE
    BY <1>1, <1>3 DEF Covers
  <2>1. CASE i = n + 1
    BY <2>1, <1>5
  <2>2. CASE i \in 1..n
    <3>1. \/ \E e \in kept : e.ord = i
          \/ now - log[i].at > DEDUP_EXPIRE_MS
          \/ n - i >= DEDUP_CACHE_SIZE
      BY <2>2, <1>4 DEF Covers
    <3>2. CASE \E e \in kept : e.ord = i
      BY <3>2, <1>5
    <3>3. CASE ~(\E e \in kept : e.ord = i)
      BY <3>1, <3>3, <2>2, <1>2, <1>3, SeenCacheConstants
    <3> QED BY <3>2, <3>3
  <2> QED BY <2>1, <2>2, <1>2
<1>11. NoEarlyRepeat'
  <2> SUFFICES ASSUME NEW i \in 1..(n + 1), NEW j \in 1..(n + 1), i < j,
                      log'[i].hash = log'[j].hash
               PROVE  \/ log'[j].at - log'[i].at > DEDUP_EXPIRE_MS
                      \/ j - i > DEDUP_CACHE_SIZE
    BY <1>3 DEF NoEarlyRepeat
  <2>1. i \in 1..n
    BY <1>2
  <2>2. CASE j \in 1..n
    BY <2>1, <2>2, <1>3 DEF IInv, NoEarlyRepeat
  <2>3. CASE j = n + 1
    <3>1. ~(\E e \in kept : e.ord = i)
      BY <2>1, <2>3, <1>1, <1>3, <1>4 DEF Knows
    <3>2. \/ now - log[i].at > DEDUP_EXPIRE_MS
          \/ n - i >= DEDUP_CACHE_SIZE
      BY <2>1, <3>1, <1>4 DEF Covers
    <3> QED BY <2>1, <2>3, <3>2, <1>2, <1>3, SeenCacheConstants
  <2> QED BY <2>2, <2>3, <1>2
<1> QED BY <1>7, <1>8, <1>9, <1>10, <1>11 DEF IInv

\* Time takes entries out of the window but not out of the cache.
LEMMA TickIInv ==
  ASSUME IInv, Tick
  PROVE  IInv'
<1>1. /\ now' = now + 1 /\ now \in Nat /\ verdict' = "none"
      /\ seen_cache' = seen_cache /\ heard' = heard /\ log' = log
  BY DEF Tick, IInv, TypeOK
<1>2. TypeOK'
  BY <1>1 DEF IInv, TypeOK
<1>3. Entries' /\ NoEarlyRepeat'
  BY <1>1 DEF IInv, Entries, NoEarlyRepeat
<1>4. \A i \in 1..Len(log) : log[i].at \in Nat
  BY LogType DEF IInv, TypeOK
<1>5. Ordered'
  <2>1. \A i, j \in 1..Len(log') : i =< j => log'[i].at =< log'[j].at
    BY <1>1 DEF IInv, Ordered
  <2>2. \A i \in 1..Len(log) : log[i].at =< now
    BY DEF IInv, Ordered
  <2>3. \A i \in 1..Len(log) : log[i].at =< now + 1
    BY <2>2, <1>1, <1>4
  <2> QED BY <2>1, <2>3, <1>1 DEF Ordered
<1>6. Covers(seen_cache)'
  BY <1>1, <1>4, SeenCacheConstants DEF IInv, Covers
<1> QED BY <1>2, <1>3, <1>5, <1>6 DEF IInv

\* A reboot forgets the packets and starts the clock anew.
LEMMA RebootIInv ==
  ASSUME IInv, Reboot
  PROVE  IInv'
<1>1. /\ seen_cache' = {} /\ log' = <<>> /\ Len(log') = 0 /\ now' = 0 /\ heard' = 0
      /\ verdict' = "none"
  BY DEF Reboot
<1>2. TypeOK'
  BY <1>1, FS_EmptySet, SeenCacheConstants DEF TypeOK
<1> QED BY <1>1, <1>2 DEF IInv, Entries, Ordered, Covers, NoEarlyRepeat

\* Every step keeps the invariant.
LEMMA NextIInv == IInv /\ [Next]_vars => IInv'
<1> SUFFICES ASSUME IInv, [Next]_vars PROVE IInv'
  OBVIOUS
<1>1. ASSUME NEW h \in Hashes, Duplicate(h) PROVE IInv'
  BY <1>1, DuplicateIInv
<1>2. ASSUME NEW h \in Hashes, Fresh(h) PROVE IInv'
  BY <1>2, FreshIInv
<1>3. CASE Tick
  BY <1>3, TickIInv
<1>4. CASE Reboot
  BY <1>4, RebootIInv
<1>5. CASE UNCHANGED vars
  BY <1>5 DEF vars, IInv, TypeOK, Entries, Ordered, Covers, NoEarlyRepeat
<1> QED BY <1>1, <1>2, <1>3, <1>4, <1>5 DEF Next

-----------------------------------------------------------------------------
\* The cache never holds more than DEDUP_CACHE_SIZE entries, each of them a hash
\* that was let through and a time stamp of the width of millis().
THEOREM CacheTypeOK == Spec => []TypeOK
<1>1. IInv => TypeOK
  BY DEF IInv
<1> QED BY InitIInv, NextIInv, <1>1, PTL DEF Spec

\* already_seen_ and remember_seen_ let the same packet through again only
\* after DEDUP_EXPIRE_MS or DEDUP_CACHE_SIZE other packets, for any sizes and
\* times, across any number of wraps of millis().
THEOREM NoRepeatTooEarly == Spec => []NoEarlyRepeat
<1>1. IInv => NoEarlyRepeat
  BY DEF IInv
<1> QED BY InitIInv, NextIInv, <1>1, PTL DEF Spec

-----------------------------------------------------------------------------
\* The environment under which the cache is exactly the window: a packet
\* arrives before millis() catches up with an entry that was unexpired when
\* the last one did (MaxSilence is below 49.7 days less 10 minutes).
SilenceBound == MaxSilence + DEDUP_EXPIRE_MS < MillisMod

\* While less time than a wrap has passed, the unsigned difference is exact.
LEMMA ElapsedExact ==
  ASSUME NEW x \in Nat, NEW y \in Nat, y <= x, x - y < MillisMod
  PROVE  Elapsed(x % MillisMod, y % MillisMod) = x - y
<1> DEFINE M == MillisMod
           qx == x \div M
           rx == x % M
           qy == y \div M
           ry == y % M
<1>1. M \in Nat \ {0}
  BY SeenCacheConstants
<1>2. /\ x = M * qx + rx /\ qx \in Nat /\ rx \in 0..(M - 1)
      /\ y = M * qy + ry /\ qy \in Nat /\ ry \in 0..(M - 1)
  BY <1>1, Z3
<1>3. Elapsed(rx, ry) \in Nat /\ Elapsed(rx, ry) <= x - y
  BY ElapsedBound
<1>4. \A q \in Int, r \in 0..(M - 1) : (M * q + r) % M = r
  BY <1>1, Z3
<1> HIDE DEF qx, rx, qy, ry
<1>5. x - y = M * (qx - qy) + (rx - ry)
  BY <1>1, <1>2, SMT
<1>6. rx - ry = M * (qy - qx) + (x - y)
  BY <1>1, <1>2, <1>5, SMT
<1>7. x - y \in 0..(M - 1) /\ qy - qx \in Int
  BY <1>1, <1>2
<1>8. (M * (qy - qx) + (x - y)) % M = x - y
  BY <1>4, <1>7
<1> QED BY <1>1, <1>6, <1>8 DEF Elapsed, rx, ry

\* When the last packet was heard, nothing expired was left in the cache, and
\* nothing older than the last DEDUP_CACHE_SIZE packets is ever in it.
Recent ==
  /\ heard <= now
  /\ now - heard <= MaxSilence
  /\ \A e \in seen_cache :
       /\ log[e.ord].at <= heard
       /\ heard - log[e.ord].at <= DEDUP_EXPIRE_MS
       /\ e.ord > Len(log) - DEDUP_CACHE_SIZE

\* The unsigned age of a cached entry is its real age.
LEMMA AgeOfEntry ==
  ASSUME SilenceBound, IInv, Recent, NEW e \in seen_cache
  PROVE  /\ e.ord \in 1..Len(log)
         /\ e.hash = log[e.ord].hash
         /\ log[e.ord].at \in Nat
         /\ Elapsed(Millis, e.seen_at_ms) = now - log[e.ord].at
<1>1. /\ e.ord \in 1..Len(log)
      /\ e.hash = log[e.ord].hash
      /\ e.seen_at_ms = log[e.ord].at % MillisMod
  BY DEF IInv, Entries
<1>2. /\ now \in Nat /\ heard \in Nat /\ log[e.ord].at \in Nat
      /\ log[e.ord].at <= now
  BY <1>1, LogType DEF IInv, TypeOK, Ordered
<1>3. now - log[e.ord].at < MillisMod
  <2>1. now - heard <= MaxSilence /\ heard - log[e.ord].at <= DEDUP_EXPIRE_MS
    BY DEF Recent
  <2> QED BY <2>1, <1>2, SeenCacheConstants, SeenCacheBounds DEF SilenceBound
<1> QED BY <1>1, <1>2, <1>3, ElapsedExact DEF Millis

\* A cache of which that is true holds the recent packets, and no others, once
\* the erase loop has run.
LEMMA WindowOfCache ==
  ASSUME SilenceBound, IInv, Recent
  PROVE  LET kept == Unexpired(seen_cache, Millis) IN
         /\ CacheIsWindow
         /\ \A e \in kept :
              /\ e.ord \in 1..Len(log) /\ e.hash = log[e.ord].hash
              /\ now - log[e.ord].at <= DEDUP_EXPIRE_MS
              /\ e.ord > Len(log) - DEDUP_CACHE_SIZE
         /\ \A i \in Window!Window : \E e \in kept : e.ord = i
<1> DEFINE kept == Unexpired(seen_cache, Millis)
<1>1. ASSUME NEW e \in kept
      PROVE  /\ e.ord \in 1..Len(log) /\ e.hash = log[e.ord].hash
             /\ now - log[e.ord].at <= DEDUP_EXPIRE_MS
             /\ e.ord > Len(log) - DEDUP_CACHE_SIZE
  <2>1. e \in seen_cache /\ Elapsed(Millis, e.seen_at_ms) <= DEDUP_EXPIRE_MS
    BY <1>1 DEF Unexpired
  <2> QED BY <2>1, AgeOfEntry DEF Recent
<1>2. ASSUME NEW i \in Window!Window
      PROVE  \E e \in kept : e.ord = i
  <2>1. /\ i \in 1..Len(log) /\ now - log[i].at <= DEDUP_EXPIRE_MS
        /\ i > Len(log) - DEDUP_CACHE_SIZE
    BY <1>2 DEF Window!Window
  <2>2. /\ log[i].at \in Nat /\ now \in Nat /\ log \in Seq(Logged)
    BY <2>1, LogType DEF IInv, TypeOK
  <2>3. Covers(kept)
    BY Pruned
  <2> HIDE DEF kept
  <2> QED BY <2>1, <2>2, <2>3, SeenCacheConstants DEF Covers
<1>3. CacheIsWindow
  <2>1. {e.ord : e \in kept} = Window!Window
    <3>1. ASSUME NEW e \in kept PROVE e.ord \in Window!Window
      BY <1>1 DEF Window!Window
    <3> QED BY <3>1, <1>2
  <2> QED BY <2>1 DEF CacheIsWindow, Window!Window
<1> QED BY <1>1, <1>2, <1>3

-----------------------------------------------------------------------------
\* The cache starts recent: it is empty.
LEMMA InitRecent == Init => Recent
BY SeenCacheBounds DEF Init, Recent

\* A duplicate has just thrown out what is not recent.
LEMMA DuplicateRecent ==
  ASSUME SilenceBound, IInv, Recent, NEW h \in Hashes, Duplicate(h)
  PROVE  Recent'
<1> DEFINE kept == Unexpired(seen_cache, Millis)
<1>1. seen_cache' = kept /\ now' = now /\ log' = log /\ heard' = now
  BY DEF Duplicate
<1>2. \A e \in kept :
        /\ e.ord \in 1..Len(log)
        /\ now - log[e.ord].at <= DEDUP_EXPIRE_MS
        /\ e.ord > Len(log) - DEDUP_CACHE_SIZE
  BY WindowOfCache
<1>3. \A i \in 1..Len(log) : log[i].at <= now
  BY DEF IInv, Ordered
<1>4. now \in Nat
  BY DEF IInv, TypeOK
<1> HIDE DEF kept
<1> QED BY <1>1, <1>2, <1>3, <1>4, SeenCacheBounds DEF Recent

\* A new packet drives out the one that is DEDUP_CACHE_SIZE packets older: if
\* that one is still cached, all later ones are, so the cache is full.
LEMMA FreshRecent ==
  ASSUME SilenceBound, IInv, Recent, NEW h \in Hashes, Fresh(h)
  PROVE  Recent'
<1> DEFINE kept == Unexpired(seen_cache, Millis)
           n    == Len(log)
           pkt  == [hash |-> h, at |-> now]
           new  == [hash |-> h, seen_at_ms |-> Millis, ord |-> n + 1]
           S    == DEDUP_CACHE_SIZE
<1>1. /\ seen_cache' = Remember(kept, h, Millis, n + 1)
      /\ log' = Append(log, pkt) /\ now' = now /\ heard' = now
  BY DEF Fresh
<1>2. /\ now \in Nat /\ log \in Seq(Logged) /\ n \in Nat /\ pkt \in Logged
      /\ S \in Nat \ {0}
  BY SeenCacheConstants DEF IInv, TypeOK, Logged
<1>3. /\ Len(log') = n + 1
      /\ \A i \in 1..n : log'[i] = log[i]
      /\ log'[n + 1] = pkt
      /\ \A i \in 1..n : log[i].at \in Nat /\ log[i].at <= now
  <2> HIDE DEF pkt
  <2>1. /\ Len(log') = n + 1
        /\ \A i \in 1..n : log'[i] = log[i]
        /\ log'[n + 1] = pkt
    BY <1>1, <1>2, AppendProperties
  <2> QED BY <2>1, <1>2, LogType DEF IInv, Ordered
<1>4. /\ \A e \in kept :
           /\ e.ord \in 1..n
           /\ now - log[e.ord].at <= DEDUP_EXPIRE_MS
           /\ e.ord > n - S
      /\ \A i \in Window!Window : \E e \in kept : e.ord = i
  BY WindowOfCache
<1>5. /\ IsFiniteSet(kept) /\ Cardinality(kept) \in Nat
      /\ Cardinality(kept) <= S
      /\ \A e, f \in kept : e.ord = f.ord => e = f
  BY Pruned
<1> HIDE DEF kept
<1>6. seen_cache' \subseteq kept \cup {new}
  BY <1>2, <1>4, <1>5, Remembered, <1>1
<1>7. ASSUME NEW e \in seen_cache', e \in kept
      PROVE  e.ord > n + 1 - S
  <2> SUFFICES ASSUME e.ord = n + 1 - S PROVE FALSE
    BY <1>2, <1>4, <1>7
  <2>1. \A i \in (n + 1 - S)..n : i \in Window!Window
    <3> SUFFICES ASSUME NEW i \in (n + 1 - S)..n PROVE i \in Window!Window
      OBVIOUS
    <3>1. e.ord \in 1..n /\ i \in 1..n /\ e.ord <= i
      BY <1>2, <1>4, <1>7
    <3>2. log[e.ord].at <= log[i].at
      BY <3>1 DEF IInv, Ordered
    <3>3. now - log[i].at <= DEDUP_EXPIRE_MS
      BY <3>1, <3>2, <1>2, <1>3, <1>4, <1>7, SeenCacheConstants
    <3> QED BY <3>1, <3>3, <1>2 DEF Window!Window
  <2>2. Cardinality(kept) >= S
    <3> DEFINE atOrd == [i \in (n + 1 - S)..n |-> CHOOSE f \in kept : f.ord = i]
    <3>1. \A i \in (n + 1 - S)..n : atOrd[i] \in kept /\ atOrd[i].ord = i
      BY <2>1, <1>4
    <3>2. atOrd \in Injection((n + 1 - S)..n, kept)
      BY <3>1 DEF Injection, IsInjective
    <3>3. /\ IsFiniteSet((n + 1 - S)..n)
          /\ Cardinality((n + 1 - S)..n) = S
      BY <1>2, FS_Interval
    <3> QED BY <3>2, <3>3, <1>5, FS_Injection
  <2>3. e # Oldest(kept) /\ kept # {}
    <3>1. seen_cache' = (kept \ {Oldest(kept)}) \cup {new}
      BY <2>2, <1>1 DEF Remember
    <3>2. e # new
      BY <1>2, <1>4, <1>7
    <3> QED BY <3>1, <3>2, <1>7
  <2>4. Oldest(kept) \in kept /\ Oldest(kept).ord <= e.ord
    BY <2>3, <1>4, <1>7, OldestIsFirst
  <2>5. Oldest(kept).ord = e.ord
    BY <2>4, <1>2, <1>4
  <2> QED BY <2>3, <2>4, <2>5, <1>5, <1>7
<1>8. ASSUME NEW e \in seen_cache'
      PROVE  /\ log'[e.ord].at <= now
             /\ now - log'[e.ord].at <= DEDUP_EXPIRE_MS
             /\ e.ord \in Nat /\ e.ord > n + 1 - S
  <2>1. CASE e = new
    BY <2>1, <1>2, <1>3, SeenCacheConstants
  <2>2. CASE e \in kept
    BY <2>2, <1>3, <1>4, <1>7, <1>8
  <2> QED BY <2>1, <2>2, <1>6, <1>8
<1>9. heard' <= now' /\ now' - heard' <= MaxSilence
  BY <1>1, <1>2, SeenCacheBounds
<1>10. ASSUME NEW e \in seen_cache'
       PROVE  /\ log'[e.ord].at <= heard'
              /\ heard' - log'[e.ord].at <= DEDUP_EXPIRE_MS
              /\ e.ord > Len(log') - DEDUP_CACHE_SIZE
  <2>1. /\ heard' = now /\ Len(log') = n + 1
    BY <1>1, <1>3
  <2>2. /\ log'[e.ord].at <= now
        /\ now - log'[e.ord].at <= DEDUP_EXPIRE_MS
        /\ e.ord \in Nat /\ e.ord > n + 1 - S
    BY <1>8, <1>10
  <2> HIDE DEF n, S
  <2>3. /\ log'[e.ord].at <= heard'
        /\ heard' - log'[e.ord].at <= DEDUP_EXPIRE_MS
    BY <2>1, <2>2
  <2>4. e.ord > Len(log') - S
    BY <2>1, <2>2, <1>2
  <2> QED BY <2>3, <2>4 DEF S
<1> QED BY <1>9, <1>10 DEF Recent

\* Every step keeps the cache recent.
LEMMA NextRecent ==
  SilenceBound /\ IInv /\ Recent /\ [Next]_vars => Recent'
<1> SUFFICES ASSUME SilenceBound, IInv, Recent, [Next]_vars PROVE Recent'
  OBVIOUS
<1>1. ASSUME NEW h \in Hashes, Duplicate(h) PROVE Recent'
  BY <1>1, DuplicateRecent
<1>2. ASSUME NEW h \in Hashes, Fresh(h) PROVE Recent'
  BY <1>2, FreshRecent
<1>3. CASE Tick
  <2>1. /\ now' = now + 1 /\ now - heard < MaxSilence
        /\ seen_cache' = seen_cache /\ heard' = heard /\ log' = log
    BY <1>3 DEF Tick
  <2>2. now \in Nat /\ heard \in Nat /\ MaxSilence \in Nat
    BY SeenCacheBounds DEF IInv, TypeOK
  <2>3. heard' <= now' /\ now' - heard' <= MaxSilence
    BY <2>1, <2>2 DEF Recent
  <2> QED BY <2>1, <2>3 DEF Recent
<1>4. CASE Reboot
  BY <1>4, SeenCacheBounds DEF Reboot, Recent
<1>5. CASE UNCHANGED vars
  BY <1>5 DEF vars, Recent
<1> QED BY <1>1, <1>2, <1>3, <1>4, <1>5 DEF Next

-----------------------------------------------------------------------------
\* Every step of the cache is a step of the window, or changes nothing there.
LEMMA StepImplementsWindow ==
  SilenceBound /\ IInv /\ Recent /\ [Next]_vars => [Window!Next]_(Window!vars)
<1> SUFFICES ASSUME SilenceBound, IInv, Recent, [Next]_vars
             PROVE  [Window!Next]_(Window!vars)
  OBVIOUS
<1> DEFINE kept == Unexpired(seen_cache, Millis)
<1>1. /\ \A e \in kept :
           /\ e.ord \in 1..Len(log) /\ e.hash = log[e.ord].hash
           /\ now - log[e.ord].at <= DEDUP_EXPIRE_MS
           /\ e.ord > Len(log) - DEDUP_CACHE_SIZE
      /\ \A i \in Window!Window : \E e \in kept : e.ord = i
  BY WindowOfCache
<1>2. ASSUME NEW h
      PROVE  Knows(kept, h) <=> \E i \in Window!Window : log[i].hash = h
  <2>1. ASSUME NEW e \in kept PROVE e.ord \in Window!Window
    BY <1>1 DEF Window!Window
  <2> HIDE DEF kept
  <2> QED BY <2>1, <1>1 DEF Knows
<1>3. ASSUME NEW h \in Hashes, Duplicate(h) PROVE Window!Packet(h)
  BY <1>2, <1>3 DEF Duplicate, Window!Packet
<1>4. ASSUME NEW h \in Hashes, Fresh(h) PROVE Window!Packet(h)
  BY <1>2, <1>4 DEF Fresh, Window!Packet
<1>5. CASE Tick
  <2>1. now' = now + 1 /\ now \in Nat /\ verdict' = "none" /\ log' = log
    BY <1>5 DEF Tick, IInv, TypeOK
  <2> QED BY <2>1 DEF Window!Pass, Window!Next
<1>6. CASE Reboot
  BY <1>6 DEF Reboot, Window!Reboot, Window!Next
<1>7. CASE UNCHANGED vars
  BY <1>7 DEF vars, Window!vars
<1> QED BY <1>3, <1>4, <1>5, <1>6, <1>7 DEF Next, Window!Next

\* Whatever the sizes and however often millis() wraps, what already_seen_
\* searches is the last DEDUP_CACHE_SIZE packets let through, as far as they
\* are no older than DEDUP_EXPIRE_MS.
THEOREM CacheHoldsWindow == SilenceBound => (Spec => []CacheIsWindow)
<1> SUFFICES ASSUME SilenceBound PROVE Spec => []CacheIsWindow
  OBVIOUS
<1>1. Init => IInv /\ Recent
  BY InitIInv, InitRecent
<1>2. IInv /\ Recent /\ [Next]_vars => IInv' /\ Recent'
  BY NextIInv, NextRecent
<1>3. IInv /\ Recent => CacheIsWindow
  BY WindowOfCache
<1> QED BY <1>1, <1>2, <1>3, PTL DEF Spec

\* already_seen_ and remember_seen_ implement the window of recent packets:
\* every answer they give is the answer of DedupWindow, for all constants.
THEOREM CacheImplementsWindow == SilenceBound => (Spec => ImplementsWindow)
<1> SUFFICES ASSUME SilenceBound PROVE Spec => ImplementsWindow
  OBVIOUS
<1>1. Init => IInv /\ Recent
  BY InitIInv, InitRecent
<1>2. IInv /\ Recent /\ [Next]_vars => IInv' /\ Recent'
  BY NextIInv, NextRecent
<1>3. Init => Window!Init
  BY DEF Init, Window!Init
<1>4. IInv /\ Recent /\ [Next]_vars => [Window!Next]_(Window!vars)
  BY StepImplementsWindow
<1> QED BY <1>1, <1>2, <1>3, <1>4, PTL DEF Spec, ImplementsWindow, Window!Spec
=============================================================================
