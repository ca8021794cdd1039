-------------------------- MODULE AdvertTimerProofs -------------------------
(***************************************************************************)
(* The advert timer keeps its intervals for every width of millis() and    *)
(* every interval that leaves a late loop() the room to notice its end.    *)
(*                                                                         *)
(* The argument is that the difference of time stamps modulo MillisMod is  *)
(* the time that has really passed, as that never reaches MillisMod: when  *)
(* loop() last tested the timer less than an interval had passed, and since*)
(* then no more than MaxGap has.                                           *)
(***************************************************************************)
EXTENDS AdvertTimer, TLAPS

\* The time since the timer was restarted, as loop() computes it.
Running == (millis - last_advert_ms) % MillisMod

\* When the timer was last restarted after k tries, counted from the last advert
\* on the air, or from setup(): no earlier and no later than this. The tries
\* of the radio's refusals are Period apart at the most.
Earliest(k) == IF adverts = 0 THEN (k - 1) * interval ELSE k * interval - MaxGap
Latest(k) == IF adverts = 0 THEN 2 * MaxGap + (k - 1) * Period ELSE k * Period

\* No advert has been tried since setup().
Untried == adverts = 0 /\ refused = 0

\* setup() starts the timer an interval ago; before the first test it has been
\* running for that and for the lag. Later it has been running since the last
\* try, for an interval and the lag of one loop() at the most.
Looping ==
  pc = "looping" =>
    IF Untried
      THEN Running = interval + lag /\ since <= lag
      ELSE /\ Running < interval + lag
           /\ Running + Earliest(refused) <= since /\ since <= Running + Latest(refused)

\* Inside loop() the interval is over, by no more than the lags allow.
Sending ==
  pc \in {"due", "send"} =>
    IF Untried
      THEN since <= MaxGap + lag
      ELSE /\ since < interval + MaxGap + lag + Latest(refused)
           /\ interval + Earliest(refused) <= since

\* The timer has been restarted for the next try.
Restarted ==
  pc = "send" =>
    /\ Running <= lag
    /\ Running + Earliest(refused + 1) <= since /\ since <= Running + Latest(refused + 1)

\* Between boot and setup() nothing is sent.
Fresh == pc = "starting" => adverts = 0 /\ refused = 0

IInv == TypeOK /\ Fresh /\ (interval > 0 => Looping /\ Sending /\ Restarted)

-----------------------------------------------------------------------------
\* The difference and the sum of two numbers below the modulus.
LEMMA Difference ==
  ASSUME NEW m \in Nat \ {0}, NEW a \in Nat, NEW b \in Nat, a < m, b < m
  PROVE  (a - b) % m = IF a < b THEN a - b + m ELSE a - b
BY Z3

\* The next value of an unsigned counter.
LEMMA Successor ==
  ASSUME NEW m \in Nat \ {0}, NEW a \in Nat, a < m
  PROVE  (a + 1) % m = IF a + 1 < m THEN a + 1 ELSE 0
BY Z3

\* The unsigned arithmetic of the timer without remainders.
LEMMA Unsigned ==
  ASSUME TypeOK
  PROVE  /\ MillisMod \in Nat \ {0} /\ MaxGap \in Nat \ {0}
         /\ MaxRefused \in Nat
         /\ interval \in Nat /\ interval + MaxGap < MillisMod
         /\ millis \in Nat /\ millis < MillisMod
         /\ last_advert_ms \in Nat /\ last_advert_ms < MillisMod
         /\ Running = IF millis < last_advert_ms THEN millis - last_advert_ms + MillisMod
                      ELSE millis - last_advert_ms
         /\ (millis + 1) % MillisMod = IF millis + 1 < MillisMod THEN millis + 1 ELSE 0
         /\ Start(millis) = IF millis < interval THEN millis - interval + MillisMod
                            ELSE millis - interval
<1>1. /\ MillisMod \in Nat \ {0} /\ MaxGap \in Nat \ {0} /\ MaxRefused \in Nat
      /\ interval \in Nat /\ interval + MaxGap < MillisMod
      /\ millis \in Nat /\ millis < MillisMod
      /\ last_advert_ms \in Nat /\ last_advert_ms < MillisMod
  BY TimerConstants, SMT DEF TypeOK
<1>2. Running = IF millis < last_advert_ms THEN millis - last_advert_ms + MillisMod
                ELSE millis - last_advert_ms
  BY <1>1, Difference DEF Running
<1>3. (millis + 1) % MillisMod = IF millis + 1 < MillisMod THEN millis + 1 ELSE 0
  BY <1>1, Successor
<1>4. Start(millis) = IF millis < interval THEN millis - interval + MillisMod
                      ELSE millis - interval
  <2>1. interval < MillisMod
    BY <1>1, SMT
  <2> QED BY <1>1, <2>1, Difference DEF Start
<1> QED BY <1>1, <1>2, <1>3, <1>4


\* Where the longest time that is told apart lies.
LEMMA Longest ==
  ASSUME TypeOK
  PROVE  /\ MaxSince \in Nat
         /\ refused \in Nat /\ refused <= MaxRefused
         /\ \A k \in 0..MaxRefused : (k + 1) * interval + MillisMod <= MaxSince
<1>1. /\ MillisMod \in Nat \ {0} /\ MaxGap \in Nat \ {0} /\ MaxRefused \in Nat
      /\ interval \in Nat /\ interval + MaxGap < MillisMod
  BY Unsigned
<1>2. refused \in Nat /\ refused <= MaxRefused
  BY <1>1 DEF TypeOK
<1> DEFINE most == (MaxRefused + 1) * MillisMod
<1>3. MaxSince = 2 * most /\ most \in Nat /\ MillisMod <= most
  BY <1>1, Z3 DEF MaxSince
<1>4. ASSUME NEW k \in 0..MaxRefused PROVE (k + 1) * interval <= most
  BY <1>1, Z3
<1>5. ASSUME NEW k \in 0..MaxRefused PROVE (k + 1) * interval \in Int
  BY <1>1, Z3
<1> HIDE DEF most
<1>6. ASSUME NEW k \in 0..MaxRefused PROVE (k + 1) * interval + MillisMod <= 2 * most
  <2> DEFINE mine == (k + 1) * interval
  <2>1. mine <= most /\ mine \in Int
    BY <1>4, <1>5
  <2> HIDE DEF mine
  <2>2. mine + MillisMod <= 2 * most
    BY <2>1, <1>1, <1>3
  <2> QED BY <2>2 DEF mine
<1> QED BY <1>2, <1>3, <1>6

\* From one try to the next.
LEMMA NextTry ==
  ASSUME TypeOK, interval > 0
  PROVE  /\ Earliest(refused) \in Int /\ Latest(refused) \in Int
         /\ Earliest(refused + 1) = Earliest(refused) + interval
         /\ Latest(refused + 1) = Latest(refused) + interval + 2 * MaxGap - 1
         /\ Untried => Earliest(refused + 1) = 0 /\ Latest(refused + 1) = 2 * MaxGap
         /\ adverts # 0 /\ refused = 0 =>
              Earliest(refused) = 0 - MaxGap /\ Latest(refused) = 0
         /\ Earliest(refused + 1) + MillisMod <= MaxSince
<1>1. /\ MillisMod \in Nat \ {0} /\ MaxGap \in Nat \ {0} /\ MaxRefused \in Nat
      /\ interval \in Nat /\ refused \in Nat /\ refused <= MaxRefused
      /\ MaxSince \in Nat
  BY Unsigned, Longest
<1>2. Period \in Int /\ Period = interval + 2 * MaxGap - 1
  BY <1>1 DEF Period
<1> DEFINE e0 == refused * interval
           e1 == (refused + 1) * interval
           em == (refused - 1) * interval
           l0 == refused * Period
           l1 == (refused + 1) * Period
           lm == (refused - 1) * Period
<1>3. /\ e0 \in Int /\ e1 = e0 + interval /\ em = e0 - interval
      /\ refused = 0 => e0 = 0
  BY <1>1, Z3
<1>4. /\ l0 \in Int /\ l1 = l0 + Period /\ lm = l0 - Period
      /\ refused = 0 => l0 = 0
  BY <1>1, <1>2, Z3
<1>5. (refused + 1) - 1 = refused
  BY <1>1
<1>6. e1 + MillisMod <= MaxSince
  BY <1>1, Longest
<1>7. /\ Earliest(refused) = IF adverts = 0 THEN em ELSE e0 - MaxGap
      /\ Earliest(refused + 1) = IF adverts = 0 THEN e0 ELSE e1 - MaxGap
      /\ Latest(refused) = IF adverts = 0 THEN 2 * MaxGap + lm ELSE l0
      /\ Latest(refused + 1) = IF adverts = 0 THEN 2 * MaxGap + l0 ELSE l1
  <2>1. ((refused + 1) - 1) * interval = e0 /\ ((refused + 1) - 1) * Period = l0
    BY <1>5
  <2> HIDE DEF Period
  <2>2. CASE adverts = 0
    BY <2>1, <2>2, Zenon DEF Earliest, Latest
  <2>3. CASE adverts # 0
    BY <2>3, Zenon DEF Earliest, Latest
  <2> QED BY <2>2, <2>3
<1> HIDE DEF e0, e1, em, l0, l1, lm, Period, Earliest, Latest
<1> QED BY <1>1, <1>2, <1>3, <1>4, <1>6, <1>7 DEF Untried

-----------------------------------------------------------------------------
\* Initially the timer has not been started.
LEMMA InitIInv == Init => IInv
<1> SUFFICES ASSUME Init PROVE IInv
  OBVIOUS
<1>1. MaxSince \in Nat
  BY TimerConstants, Z3 DEF MaxSince
<1> HIDE DEF MaxSince
<1> QED BY <1>1, TimerConstants, SMT
        DEF Init, IInv, Fresh, TypeOK, Looping, Sending, Restarted

\* Types are kept by every step.
LEMMA TypeStep ==
  ASSUME TypeOK, Next
  PROVE  TypeOK'
<1> USE Longest
<1> HIDE DEF MaxSince
<1>0. MaxSince' = MaxSince
  BY DEF MaxSince
<1>1. CASE Setup
  BY <1>0, <1>1, Unsigned, SMT DEF Setup, TypeOK
<1>2. CASE Wait \/ Test \/ Restart \/ SendAdvert \/ AdvertRefused
  BY <1>0, <1>2, Unsigned, SMT DEF Wait, Test, Restart, SendAdvert, AdvertRefused, TypeOK
<1>3. CASE Tick
  BY <1>0, <1>3, Unsigned, SMT DEF Tick, TypeOK
<1>4. CASE Reboot
  BY <1>0, <1>4, Unsigned, SMT DEF Reboot, TypeOK
<1> QED BY <1>1, <1>2, <1>3, <1>4 DEF Next, Loop

\* Every step keeps the times within their bounds.
LEMMA NextIInv == IInv /\ [Next]_vars => IInv'
<1> SUFFICES ASSUME IInv, [Next]_vars PROVE IInv'
  OBVIOUS
<1>1. CASE UNCHANGED vars
  BY <1>1 DEF vars, IInv, Fresh, TypeOK, Looping, Sending, Restarted, Running, Untried,
              Earliest, Latest, Period
<1>2. CASE Next
  <2>1. TypeOK /\ TypeOK'
    BY <1>2, TypeStep DEF IInv
  <2>0. Fresh'
    BY <1>2 DEF IInv, Fresh, Next, Loop, Setup, Wait, Test, Restart, SendAdvert,
                AdvertRefused, Tick, Reboot
  <2>00. interval' = interval
    BY <1>2 DEF Next, Loop, Setup, Wait, Test, Restart, SendAdvert, AdvertRefused, Tick,
                Reboot
  <2> SUFFICES ASSUME interval > 0 PROVE Looping' /\ Sending' /\ Restarted'
    BY <2>0, <2>00, <2>1 DEF IInv
  <2>2. Looping /\ Sending /\ Restarted /\ Fresh
    BY DEF IInv
  <2> DEFINE now  == Running
             next == Running'
             e0   == Earliest(refused)
             e1   == Earliest(refused + 1)
             l0   == Latest(refused)
             l1   == Latest(refused + 1)
  <2>3. /\ MillisMod \in Nat \ {0} /\ MaxGap \in Nat \ {0}
        /\ interval \in Nat /\ interval + MaxGap < MillisMod
        /\ millis \in Nat /\ millis < MillisMod
        /\ last_advert_ms \in Nat /\ last_advert_ms < MillisMod
        /\ now = IF millis < last_advert_ms THEN millis - last_advert_ms + MillisMod
                 ELSE millis - last_advert_ms
        /\ (millis + 1) % MillisMod = IF millis + 1 < MillisMod THEN millis + 1 ELSE 0
        /\ Start(millis) = IF millis < interval THEN millis - interval + MillisMod
                           ELSE millis - interval
    BY <2>1, Unsigned
  <2>4. next = IF millis' < last_advert_ms' THEN millis' - last_advert_ms' + MillisMod
               ELSE millis' - last_advert_ms'
    <3>1. /\ millis' \in Nat /\ millis' < MillisMod
          /\ last_advert_ms' \in Nat /\ last_advert_ms' < MillisMod
      BY <2>1, <2>3, SMT DEF TypeOK
    <3>2. (millis' - last_advert_ms') % MillisMod =
            IF millis' < last_advert_ms' THEN millis' - last_advert_ms' + MillisMod
            ELSE millis' - last_advert_ms'
      BY <2>3, <3>1, Difference
    <3> QED BY <3>2 DEF Running
  <2>5. /\ lag \in Nat /\ lag <= MaxGap /\ since \in Nat /\ since <= MaxSince
        /\ MaxSince \in Nat /\ adverts \in 0..2 /\ refused \in Nat
    BY <2>1, Longest, SMT DEF TypeOK
  <2>6. /\ e0 \in Int /\ l0 \in Int
        /\ e1 = e0 + interval /\ l1 = l0 + interval + 2 * MaxGap - 1
        /\ Untried => e1 = 0 /\ l1 = 2 * MaxGap
        /\ e1 + MillisMod <= MaxSince
    BY <2>1, NextTry
  <2>7. Looping /\ Sending /\ Restarted <=>
          /\ pc = "looping" =>
               IF Untried
                 THEN now = interval + lag /\ since <= lag
                 ELSE now < interval + lag /\ now + e0 <= since /\ since <= now + l0
          /\ pc \in {"due", "send"} =>
               IF Untried
                 THEN since <= MaxGap + lag
                 ELSE since < interval + MaxGap + lag + l0 /\ interval + e0 <= since
          /\ pc = "send" => now <= lag /\ now + e1 <= since /\ since <= now + l1
    BY DEF Looping, Sending, Restarted
  <2>8. ASSUME refused' = refused, adverts' = adverts
        PROVE  Looping' /\ Sending' /\ Restarted' <=>
          /\ pc' = "looping" =>
               IF Untried
                 THEN next = interval + lag' /\ since' <= lag'
                 ELSE next < interval + lag' /\ next + e0 <= since' /\ since' <= next + l0
          /\ pc' \in {"due", "send"} =>
               IF Untried
                 THEN since' <= MaxGap + lag'
                 ELSE since' < interval + MaxGap + lag' + l0 /\ interval + e0 <= since'
          /\ pc' = "send" => next <= lag' /\ next + e1 <= since' /\ since' <= next + l1
    <3>1. /\ Earliest(refused)' = e0 /\ Latest(refused)' = l0
          /\ Earliest(refused + 1)' = e1 /\ Latest(refused + 1)' = l1
          /\ Untried' = Untried
      BY <2>8, <2>00 DEF Earliest, Latest, Period, Untried
    <3> HIDE DEF now, next, e0, e1, l0, l1
    <3> QED BY <3>1, <2>00 DEF Looping, Sending, Restarted, next
  <2> HIDE DEF now, next, e0, e1, l0, l1
  <2>9. CASE Setup
    <3>1. next = interval
      BY <2>3, <2>4, <2>9, SMT DEF Setup
    <3>2. Untried /\ refused' = refused /\ adverts' = adverts
      BY <2>2, <2>9 DEF Setup, Fresh, Untried
    <3> QED BY <2>3, <2>5, <2>8, <2>9, <3>1, <3>2, SMT DEF Setup
  <2>10. CASE Wait
    <3>1. next = now /\ now < interval
      BY <2>3, <2>4, <2>10, SMT DEF Wait, Due, Running, now
    <3> QED BY <2>2, <2>3, <2>5, <2>6, <2>7, <2>8, <2>10, <3>1, SMT DEF Wait
  <2>11. CASE Test
    <3>1. next = now /\ now >= interval
      BY <2>3, <2>4, <2>11, SMT DEF Test, Due, Running, now
    <3> QED BY <2>2, <2>3, <2>5, <2>6, <2>7, <2>8, <2>11, <3>1, SMT DEF Test
  <2>12. CASE Restart
    <3>1. next = 0
      BY <2>3, <2>4, <2>12, SMT DEF Restart
    <3> QED BY <2>2, <2>3, <2>5, <2>6, <2>7, <2>8, <2>12, <3>1, SMT DEF Restart
  <2>13. CASE SendAdvert
    <3>1. next = now
      BY <2>3, <2>4, <2>13, SMT DEF SendAdvert
    <3>2. ~Untried' /\ adverts' # 0 /\ refused' = 0
      BY <2>5, <2>13, SMT DEF SendAdvert, Untried
    <3>3. Earliest(refused)' = 0 - MaxGap /\ Latest(refused)' = 0
      <4>1. 0 * interval = 0
        BY <2>3
      <4>2. Period \in Int /\ Period' = Period
        BY <2>3, <2>00 DEF Period
      <4>3. 0 * Period = 0
        BY <4>2
      <4> HIDE DEF Period
      <4> QED BY <2>00, <3>2, <4>1, <4>2, <4>3 DEF Earliest, Latest
    <3>4. now <= lag /\ pc' = "looping" /\ since' = 0 /\ lag' = lag
      BY <2>2, <2>7, <2>13 DEF SendAdvert
    <3>5. now \in Nat
      BY <2>3, SMT
    <3> QED BY <2>00, <2>3, <2>5, <3>1, <3>2, <3>3, <3>4, <3>5, SMT
            DEF Looping, Sending, Restarted, next
  <2>14. CASE AdvertRefused
    <3>1. next = now
      BY <2>3, <2>4, <2>14, SMT DEF AdvertRefused
    <3>2. /\ refused' = refused + 1 /\ adverts' = adverts /\ pc = "send"
          /\ pc' = "looping" /\ since' = since /\ lag' = lag
      BY <2>14 DEF AdvertRefused
    <3>3. ~Untried'
      BY <2>5, <3>2, SMT DEF Untried
    <3>4. Earliest(refused)' = e1 /\ Latest(refused)' = l1
      BY <2>00, <3>2 DEF Earliest, Latest, Period, e1, l1
    <3>5. now <= lag /\ now + e1 <= since /\ since <= now + l1
      BY <2>2, <2>7, <3>2
    <3>6. now \in Nat
      BY <2>3, SMT
    <3> QED BY <2>00, <2>3, <2>5, <3>1, <3>2, <3>3, <3>4, <3>5, <3>6, SMT
            DEF Looping, Sending, Restarted, next
  <2>15. CASE Tick
    <3>1. now + 1 < MillisMod => next = now + 1
      BY <2>3, <2>4, <2>15, SMT DEF Tick
    <3>2. pc # "starting" => (lag' = lag + 1 /\ lag' <= MaxGap)
      BY <2>3, <2>5, <2>15, SMT DEF Tick
    <3>3. since' = since + 1 \/ (since' = since /\ since = MaxSince)
      BY <2>5, <2>15, SMT DEF Tick
    <3>4. pc' = pc /\ adverts' = adverts /\ refused' = refused
      BY <2>15 DEF Tick
    <3>5. now \in Nat /\ now < MillisMod
      BY <2>3, SMT
    <3>6. pc' = "looping" =>
            IF Untried
              THEN next = interval + lag' /\ since' <= lag'
              ELSE next < interval + lag' /\ next + e0 <= since' /\ since' <= next + l0
      BY <2>2, <2>3, <2>5, <2>6, <2>7, <3>1, <3>2, <3>3, <3>4, <3>5, SMT
    <3>7. pc' \in {"due", "send"} =>
            IF Untried
              THEN since' <= MaxGap + lag'
              ELSE since' < interval + MaxGap + lag' + l0 /\ interval + e0 <= since'
      BY <2>2, <2>3, <2>5, <2>6, <2>7, <3>2, <3>3, <3>4, SMT
    <3>8. pc' = "send" => next <= lag' /\ next + e1 <= since' /\ since' <= next + l1
      BY <2>2, <2>3, <2>5, <2>6, <2>7, <3>1, <3>2, <3>3, <3>4, <3>5, SMT
    <3> QED BY <2>8, <3>4, <3>6, <3>7, <3>8
  <2>16. CASE Reboot
    BY <2>16 DEF Reboot, Looping, Sending, Restarted
  <2> QED BY <1>2, <2>9, <2>10, <2>11, <2>12, <2>13, <2>14, <2>15, <2>16 DEF Next, Loop
<1> QED BY <1>1, <1>2

-----------------------------------------------------------------------------
\* The timer's variables keep their ranges: last_advert_ms_ too, though setup()
\* sets it to a time before boot.
THEOREM TimerTypeOK == Spec => []TypeOK
<1>1. IInv => TypeOK
  BY DEF IInv
<1> QED BY <1>1, InitIInv, NextIInv, PTL DEF Spec

\* No wrap of millis(), no lag up to MaxGap and no refusal of the radio makes an
\* advert later than an interval and the lags of two loop()s for every try.
THEOREM TimerNotTooLate == Spec => []NotTooLate
<1>1. IInv => NotTooLate
  <2> SUFFICES ASSUME IInv, interval > 0, pc # "starting" PROVE NotTooLate
    BY DEF NotTooLate
  <2>1. interval \in Nat /\ MaxGap \in Nat /\ Running \in Int /\ (refused + 1) - 1 = refused
    BY Unsigned, Longest, SMT DEF IInv
  <2>2. lag \in Nat /\ lag <= MaxGap /\ since \in Nat
    BY TimerConstants, Longest, SMT DEF IInv, TypeOK
  <2>3. /\ Latest(refused) \in Int
        /\ Latest(refused + 1) = Latest(refused) + interval + 2 * MaxGap - 1
        /\ Untried => Latest(refused + 1) = 2 * MaxGap
    BY NextTry DEF IInv
  <2>4. Looping /\ Sending /\ pc \in {"looping", "due", "send"}
    BY DEF IInv, TypeOK
  <2> HIDE DEF Period
  <2>5. since <= Latest(refused + 1)
    <3> HIDE DEF Latest, Earliest
    <3>1. CASE pc = "looping"
      BY <2>1, <2>2, <2>3, <2>4, <3>1, SMT DEF Looping
    <3>2. CASE pc \in {"due", "send"}
      BY <2>1, <2>2, <2>3, <2>4, <3>2, SMT DEF Sending
    <3> QED BY <3>1, <3>2, <2>4
  <2>6. Latest(refused + 1) = IF adverts = 0 THEN 2 * MaxGap + refused * Period
                              ELSE (refused + 1) * Period
    <3>1. ((refused + 1) - 1) * Period = refused * Period
      BY <2>1
    <3>2. CASE adverts = 0
      BY <3>1, <3>2, Zenon DEF Latest
    <3>3. CASE adverts # 0
      BY <3>3, Zenon DEF Latest
    <3> QED BY <3>2, <3>3
  <2> QED BY <2>5, <2>6, Zenon DEF NotTooLate
<1> QED BY <1>1, InitIInv, NextIInv, PTL DEF Spec

\* Tries are an interval apart, less one lag of loop(), whether the radio took
\* the adverts before or not.
THEOREM TimerNotTooSoon == Spec => NotTooSoon
<1> DEFINE Late == since >= IF adverts = 0 THEN refused * interval
                            ELSE (refused + 1) * interval - MaxGap
<1>1. IInv /\ [Next]_vars => [SendAdvert \/ AdvertRefused => Late]_vars
  <2> SUFFICES ASSUME IInv, SendAdvert \/ AdvertRefused PROVE Late
    OBVIOUS
  <2>1. pc = "send"
    BY DEF SendAdvert, AdvertRefused
  <2>2. CASE interval > 0
    <3>1. Running \in Nat /\ (refused + 1) - 1 = refused /\ since \in Nat
      <4>1. MillisMod \in Nat \ {0} /\ millis \in Nat /\ last_advert_ms \in Nat
            /\ millis < MillisMod /\ last_advert_ms < MillisMod
            /\ Running = IF millis < last_advert_ms
                         THEN millis - last_advert_ms + MillisMod
                         ELSE millis - last_advert_ms
        BY Unsigned DEF IInv
      <4> QED BY <4>1, Longest, SMT DEF IInv, TypeOK
    <3>2. Earliest(refused + 1) \in Int
      <4>1. /\ Earliest(refused) \in Int
            /\ Earliest(refused + 1) = Earliest(refused) + interval
            /\ interval \in Nat
        BY <2>2, NextTry, Unsigned DEF IInv
      <4> QED BY <4>1
    <3>3. Running + Earliest(refused + 1) <= since
      BY <2>1, <2>2 DEF IInv, Restarted
    <3>4. Earliest(refused + 1) <= since
      BY <3>1, <3>2, <3>3
    <3>5. Earliest(refused + 1) = IF adverts = 0 THEN refused * interval
                                  ELSE (refused + 1) * interval - MaxGap
      <4>1. ((refused + 1) - 1) * interval = refused * interval
        BY <3>1
      <4>2. CASE adverts = 0
        BY <4>1, <4>2, Zenon DEF Earliest
      <4>3. CASE adverts # 0
        BY <4>3, Zenon DEF Earliest
      <4> QED BY <4>2, <4>3
    <3>6. Earliest(refused + 1) <= since <=> Late
      <4> DEFINE e == IF adverts = 0 THEN refused * interval
                      ELSE (refused + 1) * interval - MaxGap
      <4>1. e \in Int
        BY <3>2, <3>5
      <4> HIDE DEF e
      <4>2. e <= since <=> since >= e
        BY <4>1, <3>1
      <4>3. Earliest(refused + 1) = e
        BY <3>5, Zenon DEF e
      <4> QED BY <4>2, <4>3, Zenon DEF e
    <3> HIDE DEF Late, Earliest
    <3> QED BY <3>4, <3>6, Zenon
  <2>3. CASE ~(interval > 0)
    <3>1. interval = 0 /\ refused \in Nat /\ MaxGap \in Nat /\ since \in Nat
      BY <2>3, Unsigned, Longest, SMT DEF IInv, TypeOK
    <3>2. refused * interval = 0 /\ (refused + 1) * interval = 0
      BY <3>1, Z3
    <3> QED BY <3>1, <3>2
  <2> QED BY <2>2, <2>3
<1> QED BY <1>1, InitIInv, NextIInv, PTL DEF Spec, NotTooSoon
=============================================================================
