----------------------------- MODULE AdvertTimer -----------------------------
(***************************************************************************)
(* When a node advertises by itself: the timer that setup() arms and       *)
(* loop() tests, over a millis() that wraps around and a loop that other   *)
(* work holds up: the delay() of a relay, a transmission, other components.*)
(***************************************************************************)
EXTENDS Integers

CONSTANTS
  MillisMod,   \* 2^32: millis() is a uint32_t
  Intervals,   \* values of advertise_interval_ms_
  MaxGap,      \* the environment: no more time than this between two loop()s
  MaxRefused   \* bound: how many adverts in a row the radio refuses

\* The longest interval leaves a late loop() the room to notice that it is over.
ASSUME TimerConstants ==
  /\ MillisMod \in Nat \ {0}
  /\ MaxGap \in Nat \ {0}
  /\ MaxRefused \in Nat
  /\ Intervals \subseteq 0..(MillisMod - 1)
  /\ \A i \in Intervals : i + MaxGap < MillisMod

VARIABLES
  interval,        \* advertise_interval_ms_, 0 when the node does not advertise
  millis,          \* millis()
  last_advert_ms,  \* last_advert_ms_
  pc,              \* "starting", "looping", or inside loop(): "due", "send"
  lag,             \* time since loop() last tested the timer
  since,           \* history: time since the last advert on the air, or setup()
  refused,         \* history: how many adverts the radio has refused since then
  adverts          \* history: 0, 1 or 2 for more adverts on the air since boot

vars == <<interval, millis, last_advert_ms, pc, lag, since, refused, adverts>>

\* No difference is made between longer times.
MaxSince == 2 * (MaxRefused + 1) * MillisMod

Init ==
  /\ interval \in Intervals
  /\ millis = 0
  /\ last_advert_ms = 0
  /\ pc = "starting"
  /\ lag = 0
  /\ since = 0
  /\ refused = 0
  /\ adverts = 0

\* Mutant of Start: the subtraction is a signed one.
StartSigned(now) == now - interval

\* "advertise soon after boot"
Start(now) == (now - interval) % MillisMod

\* setup(), after however long the components before it took.
Setup ==
  /\ pc = "starting"
  /\ last_advert_ms' = IF interval > 0 THEN Start(millis) ELSE last_advert_ms
  /\ pc' = "looping"
  /\ lag' = 0
  /\ since' = 0
  /\ UNCHANGED <<interval, millis, refused, adverts>>

\* Mutants of Due: a comparison of time stamps; `>`.
DueByStamp(now) == interval > 0 /\ now >= last_advert_ms + interval
DueAfter(now) == interval > 0 /\ (now - last_advert_ms) % MillisMod > interval

Due(now) == interval > 0 /\ (now - last_advert_ms) % MillisMod >= interval

\* loop() tests the timer and returns.
Wait ==
  /\ pc = "looping"
  /\ ~Due(millis)
  /\ lag' = 0
  /\ UNCHANGED <<interval, millis, last_advert_ms, pc, since, refused, adverts>>

\* loop() tests the timer and goes on.
Test ==
  /\ pc = "looping"
  /\ Due(millis)
  /\ pc' = "due"
  /\ lag' = 0
  /\ UNCHANGED <<interval, millis, last_advert_ms, since, refused, adverts>>

\* Mutant of Restart: the timer is not restarted.
RestartNot ==
  /\ pc = "due"
  /\ pc' = "send"
  /\ UNCHANGED <<interval, millis, last_advert_ms, lag, since, refused, adverts>>

\* It reads millis() again.
Restart ==
  /\ pc = "due"
  /\ last_advert_ms' = millis
  /\ pc' = "send"
  /\ UNCHANGED <<interval, millis, lag, since, refused, adverts>>

\* send_advert, and the radio takes the packet.
SendAdvert ==
  /\ pc = "send"
  /\ pc' = "looping"
  /\ since' = 0
  /\ refused' = 0
  /\ adverts' = IF adverts = 2 THEN 2 ELSE adverts + 1
  /\ UNCHANGED <<interval, millis, last_advert_ms, lag>>

\* send_advert, and transmit_ returns false: loop() has no result to look at, so
\* the timer runs on as if the advert were on the air.
AdvertRefused ==
  /\ pc = "send"
  /\ refused < MaxRefused
  /\ pc' = "looping"
  /\ refused' = refused + 1
  /\ UNCHANGED <<interval, millis, last_advert_ms, lag, since, adverts>>

Tick ==
  /\ pc = "starting" \/ lag < MaxGap
  /\ millis' = (millis + 1) % MillisMod
  /\ lag' = IF pc = "starting" THEN 0 ELSE lag + 1
  /\ since' = IF since = MaxSince THEN since ELSE since + 1
  /\ UNCHANGED <<interval, last_advert_ms, pc, refused, adverts>>

Reboot ==
  /\ millis' = 0
  /\ last_advert_ms' = 0
  /\ pc' = "starting"
  /\ lag' = 0
  /\ since' = 0
  /\ refused' = 0
  /\ adverts' = 0
  /\ UNCHANGED interval

Loop == Setup \/ Wait \/ Test \/ Restart \/ SendAdvert \/ AdvertRefused

Next == Loop \/ Tick \/ Reboot

Spec == Init /\ [][Next]_vars

\* Time passes, loop() is called again and again, and at some point the node
\* is not rebooted any more.
FairSpec == Spec /\ WF_vars(Tick) /\ WF_vars(Loop) /\ <>[][~Reboot]_vars

-----------------------------------------------------------------------------
TypeOK ==
  /\ interval \in Intervals
  /\ millis \in 0..(MillisMod - 1)
  /\ last_advert_ms \in 0..(MillisMod - 1)
  /\ pc \in {"starting", "looping", "due", "send"}
  /\ lag \in 0..MaxGap
  /\ since \in 0..MaxSince
  /\ refused \in 0..MaxRefused
  /\ adverts \in 0..2

\* A node does not try to advertise more often than every interval, less the
\* time a loop() is held up between noting the time and sending, also when the
\* radio has refused the adverts before.
NotTooSoon ==
  [][SendAdvert \/ AdvertRefused =>
       since >= IF adverts = 0 THEN refused * interval
                ELSE (refused + 1) * interval - MaxGap]_vars

\* The longest that one try comes after the one before.
Period == interval + 2 * MaxGap - 1

\* An advert that the radio refuses is made up for after an interval: what a node
\* is silent for is an interval for every refused advert and one more, each late
\* by no more than the loop was held up before the test and between test and
\* sending; the first one is tried at once after setup(). No wrap of millis()
\* skips one.
NotTooLate ==
  interval > 0 /\ pc # "starting" =>
    since <= IF adverts = 0 THEN 2 * MaxGap + refused * Period
             ELSE (refused + 1) * Period

\* A node that stays up goes on advertising.
KeepsAdvertising == interval > 0 ~> [](<>(pc = "send"))
=============================================================================
