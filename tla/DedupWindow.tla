----------------------------- MODULE DedupWindow -----------------------------
(***************************************************************************)
(* What the dedup cache promises, without a cache: a packet is a duplicate *)
(* exactly if the same hash is among the last Size packets that were let   *)
(* through, and was let through at most Expire milliseconds ago.           *)
(***************************************************************************)
EXTENDS Integers, Sequences

CONSTANTS Hashes, Size, Expire

VARIABLES
  log,      \* every packet let through since boot, in order: hash and time
  now,      \* milliseconds since boot, without wrap-around
  verdict   \* the answer to the last packet, or "none" after time passed

vars == <<log, now, verdict>>

\* The packets a repetition of which is a duplicate.
Window ==
  {i \in 1..Len(log) : now - log[i].at <= Expire /\ i > Len(log) - Size}

Init == log = <<>> /\ now = 0 /\ verdict = "none"

Packet(h) ==
  /\ IF \E i \in Window : log[i].hash = h
       THEN log' = log /\ verdict' = "duplicate"
       ELSE log' = Append(log, [hash |-> h, at |-> now]) /\ verdict' = "fresh"
  /\ UNCHANGED now

Pass ==
  /\ now' \in Nat
  /\ now' > now
  /\ verdict' = "none"
  /\ UNCHANGED log

Reboot == log' = <<>> /\ now' = 0 /\ verdict' = "none"

Next == Pass \/ Reboot \/ \E h \in Hashes : Packet(h)

Spec == Init /\ [][Next]_vars
=============================================================================
