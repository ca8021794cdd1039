------------------------------ MODULE SeenCache ------------------------------
(***************************************************************************)
(* The dedup cache of one node over time: packets arrive, time passes,     *)
(* millis() wraps around, the node reboots. handle_packet_ asks            *)
(* already_seen_ and, if the answer is no, calls remember_seen_ with       *)
(* nothing between the two.                                                *)
(***************************************************************************)
EXTENDS SeenCacheOps, Sequences

CONSTANTS
  Hashes,      \* packet hashes (8 bytes of SHA-256, taken as collision-free)
  MaxNow,      \* bound on the time since boot
  MaxFresh,    \* bound on the packets let through since boot
  MaxSilence   \* the environment: no more time than this between two packets

ASSUME SeenCacheBounds ==
  MaxNow \in Nat /\ MaxFresh \in Nat /\ MaxSilence \in Nat

VARIABLES
  seen_cache,  \* seen_cache_
  now,         \* milliseconds since boot
  heard,       \* when already_seen_ last ran, for MaxSilence
  log,         \* history: every packet let through since boot, hash and time
  verdict      \* history: the answer to the packet just heard, or "none"

vars == <<seen_cache, now, heard, log, verdict>>

Millis == now % MillisMod

Init ==
  /\ seen_cache = {}
  /\ now = 0
  /\ heard = 0
  /\ log = <<>>
  /\ verdict = "none"

\* already_seen_ answers yes and handle_packet_ returns.
Duplicate(h) ==
  LET kept == Unexpired(seen_cache, Millis) IN
  /\ Knows(kept, h)
  /\ seen_cache' = kept
  /\ heard' = now
  /\ verdict' = "duplicate"
  /\ UNCHANGED <<now, log>>

\* already_seen_ answers no and remember_seen_ follows.
Fresh(h) ==
  LET kept == Unexpired(seen_cache, Millis) IN
  /\ Len(log) < MaxFresh
  /\ ~Knows(kept, h)
  /\ seen_cache' = Remember(kept, h, Millis, Len(log) + 1)
  /\ heard' = now
  /\ log' = Append(log, [hash |-> h, at |-> now])
  /\ verdict' = "fresh"
  /\ UNCHANGED now

Tick ==
  /\ now < MaxNow
  /\ now - heard < MaxSilence
  /\ now' = now + 1
  /\ verdict' = "none"
  /\ UNCHANGED <<seen_cache, heard, log>>

\* The cache is in RAM.
Reboot ==
  /\ seen_cache' = {}
  /\ now' = 0
  /\ heard' = 0
  /\ log' = <<>>
  /\ verdict' = "none"

Next == Tick \/ Reboot \/ \E h \in Hashes : Duplicate(h) \/ Fresh(h)

Spec == Init /\ [][Next]_vars

-----------------------------------------------------------------------------
Logged == [hash : Hashes, at : Nat]

Entry == [hash : Hashes, seen_at_ms : 0..(MillisMod - 1), ord : Nat \ {0}]

TypeOK ==
  /\ seen_cache \in SUBSET Entry
  /\ IsFiniteSet(seen_cache)
  /\ Cardinality(seen_cache) <= DEDUP_CACHE_SIZE
  /\ now \in Nat
  /\ heard \in Nat
  /\ log \in Seq(Logged)
  /\ verdict \in {"none", "fresh", "duplicate"}

\* The same packet is let through a second time only when more than
\* DEDUP_EXPIRE_MS have passed since the first, or when DEDUP_CACHE_SIZE others
\* have been let through in between; no wrap of millis() changes that.
NoEarlyRepeat ==
  \A i, j \in 1..Len(log) :
    i < j /\ log[i].hash = log[j].hash =>
      \/ log[j].at - log[i].at > DEDUP_EXPIRE_MS
      \/ j - i > DEDUP_CACHE_SIZE

\* What the cache stands for at any time is the last DEDUP_CACHE_SIZE packets
\* let through, as far as they are not older than DEDUP_EXPIRE_MS. Holds while
\* no silence is so long that millis() catches up with an unexpired entry.
CacheIsWindow ==
  {e.ord : e \in Unexpired(seen_cache, Millis)} =
    {i \in 1..Len(log) : /\ now - log[i].at <= DEDUP_EXPIRE_MS
                         /\ i > Len(log) - DEDUP_CACHE_SIZE}

Window == INSTANCE DedupWindow
            WITH Size <- DEDUP_CACHE_SIZE, Expire <- DEDUP_EXPIRE_MS

\* The cache implements the window of recent packets it is meant to be.
ImplementsWindow == Window!Spec
=============================================================================
