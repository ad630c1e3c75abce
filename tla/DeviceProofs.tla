----------------------------- MODULE DeviceProofs -----------------------------
(****************************************************************************)
(* Proofs about three small devices: the sampling of the ADS1115, for any   *)
(* number of channels and samples and any failing transfers; the PWM of the *)
(* motors, for any timer clock up to 1 GHz, any limits near the driver's    *)
(* and any speeds; and the receiver of the UART, for every size of its      *)
(* buffer and every length of a read.                                       *)
(****************************************************************************)
EXTENDS Motor, Sampler, SerialRx, TLAPS

-----------------------------------------------------------------------------
(* Sampler.                                                                  *)

\* Once a channel has been selected, the chip converts that channel; there is
\* room for one more sample; and the data register is selected before it is
\* read.
AdsSelected ==
    /\ adsPc = "delay" => cnt = 0 /\ (rtn => mux = chl)
    /\ adsPc = "sample" /\ rtn => conv = chl
    /\ adsPc = "top" /\ cnt # 0 => rtn /\ conv = chl
    /\ adsPc \in {"point", "read", "next"} => conv = chl
    /\ adsPc \in {"top", "delay", "sample"} => cnt < MaxSamp
    /\ adsPc = "read" => ptr = "data"

AdsInv == AdsTypeOK /\ AdsSelected /\ AdsSampleOfChannel

LEMMA AdsInitInv == AdsInit => AdsInv
  <1> SUFFICES ASSUME AdsInit PROVE AdsInv
    OBVIOUS
  <1>1. AdsTypeOK
    <2>1. rtn \in BOOLEAN
      BY Zenon DEF AdsInit
    <2> QED
      BY <2>1, SamplerOK DEF AdsInit, AdsTypeOK, Zero, Other
  <1> QED
    BY <1>1, SamplerOK DEF AdsInit, AdsInv, AdsSelected, AdsSampleOfChannel

LEMMA AdsInvStep == AdsInv /\ [AdsNext]_adsVars => AdsInv'
  <1> SUFFICES ASSUME AdsInv, [AdsNext]_adsVars PROVE AdsInv'
    OBVIOUS
  <1>0. /\ AdsTypeOK /\ AdsSelected /\ AdsSampleOfChannel
        /\ Chls \in Nat /\ Chls >= 1 /\ MaxSamp \in Nat /\ MaxSamp >= 1
    BY SamplerOK DEF AdsInv
  <1> USE <1>0 DEF AdsInv, AdsTypeOK, AdsSelected, AdsSampleOfChannel
  <1>1. CASE AdsConfig
    <2>1. rtn' \in BOOLEAN /\ mux' \in {mux, chl} /\ (rtn' => mux' = chl)
      BY <1>1, Zenon DEF AdsConfig
    <2>2. mux' \in 0..Chls /\ ptr' \in {"conf", "data"}
      BY <1>1, <2>1 DEF AdsConfig
    <2> QED
      BY <1>1, <2>1, <2>2 DEF AdsConfig
  <1>2. CASE AdsNoConfig
    BY <1>2 DEF AdsNoConfig
  <1>3. CASE AdsDelay
    BY <1>3 DEF AdsDelay
  <1>4. CASE AdsSample
    BY <1>4 DEF AdsSample
  <1>5. CASE AdsPoint
    BY <1>5 DEF AdsPoint, Zero
  <1>6. CASE AdsRead
    BY <1>6 DEF AdsRead, Zero, Other
  <1>7. CASE AdsNextChannel
    <2>1. (chl + 1) % Chls \in 0..(Chls - 1)
      OBVIOUS
    <2>2. CASE ~rtn \/ cnt >= MaxSamp
      <3>1. cnt' = 0 /\ chl' = (chl + 1) % Chls
        BY <1>7, <2>2, Zenon DEF AdsNextChannel
      <3> QED
        BY <1>7, <2>1, <3>1 DEF AdsNextChannel
    <2>3. CASE ~(~rtn \/ cnt >= MaxSamp)
      <3>1. cnt' = cnt /\ chl' = chl /\ rtn /\ cnt < MaxSamp
        BY <1>7, <2>3 DEF AdsNextChannel
      <3> QED
        BY <1>7, <3>1 DEF AdsNextChannel
    <2> QED
      BY <2>2, <2>3
  <1>8. CASE UNCHANGED adsVars
    BY <1>8 DEF adsVars
  <1> QED
    BY <1>1, <1>2, <1>3, <1>4, <1>5, <1>6, <1>7, <1>8 DEF AdsNext

\* The invariant holds of every behaviour of the sampling task.
THEOREM AdsInvariant == AdsSpec => []AdsInv
  BY AdsInitInv, AdsInvStep, PTL DEF AdsSpec

\* What taski2c1_entry reports for a channel was converted from that channel,
\* or is the 0 of a failed transfer, whatever transfers failed before.
THEOREM SampleOfChannel == AdsSpec => []AdsSampleOfChannel
  <1>1. AdsInv => AdsSampleOfChannel
    BY DEF AdsInv
  <1> QED
    BY <1>1, AdsInvariant, PTL

-----------------------------------------------------------------------------
(* Motor: the arithmetic of drv_pwm_set.                                     *)

LEMMA DivFacts ==
    ASSUME NEW a \in Nat, NEW b \in Nat, b > 0
    PROVE  a \div b \in Nat /\ b * (a \div b) <= a /\ a < b * (a \div b) + b
  OBVIOUS

LEMMA MulLe ==
    ASSUME NEW a \in Nat, NEW b \in Nat, NEW c \in Nat, a <= b
    PROVE  c * a <= c * b
  OBVIOUS

LEMMA MulLess ==
    ASSUME NEW a \in Nat, NEW b \in Nat, NEW c \in Nat, c * a < c * b
    PROVE  a < b
  OBVIOUS

LEMMA Limits ==
    /\ PwmClock \in Nat /\ PwmClock <= 1000
    /\ MaxPeriod \in Nat /\ MinPeriod \in Nat /\ MinPulse \in Nat
    /\ MinPulse >= 1 /\ MinPeriod >= 1 /\ MinPulse <= MinPeriod
    /\ 2 * MinPeriod <= MaxPeriod
    /\ 2 * (MinPulse - 1) < MinPeriod /\ MinPeriod <= 2 * MinPulse + 2
    /\ MaxPsc \in Nat
  BY MotorOK DEF MaxPsc

\* The prescaled period fits the counter, and the prescaling alone never makes
\* it shorter than MIN_PERIOD.
LEMMA PrescaleFacts ==
    ASSUME NEW t \in Nat, NEW k, k = Prescale(t)
    PROVE  /\ k \in Nat /\ k >= 1
           /\ t \div k \in Nat /\ t \div k < MaxPeriod
           /\ k * (t \div k) <= t /\ t < k * (t \div k) + k
           /\ t >= MinPeriod => t \div k >= MinPeriod
           /\ t < MinPeriod => k = 1 /\ t \div k = t
  <1> DEFINE M == MaxPeriod
             e == t \div M
             d == t \div k
  <1>1. M \in Nat /\ M > 0 /\ M >= 2 * MinPeriod /\ MinPeriod \in Nat /\ MinPeriod >= 1
    BY Limits
  <1>2. e \in Nat /\ M * e <= t /\ t < M * e + M /\ k = e + 1
    BY <1>1, DivFacts DEF Prescale
  <1>3. k \in Nat /\ k >= 1
    BY <1>2
  <1>4. d \in Nat /\ k * d <= t /\ t < k * d + k
    BY <1>3, DivFacts
  <1> HIDE DEF M, e, d
  <1>5. M * e + M = M * k /\ M * k = k * M
    BY <1>1, <1>2, <1>3
  <1>6. d < M
    <2>1. k * d < k * M
      BY <1>1, <1>2, <1>3, <1>4, <1>5
    <2> QED
      BY <1>1, <1>3, <1>4, <2>1, MulLess
  <1>7. e = 0 => k = 1 /\ d = t
    BY <1>2, <1>4
  <1>8. t < MinPeriod => e = 0
    <2>1. e >= 1 => M * e >= M
      BY <1>1, <1>2
    <2> QED
      BY <1>1, <1>2, <2>1
  <1>9. t >= MinPeriod => d >= MinPeriod
    <2>1. CASE e = 0
      BY <1>7, <2>1
    <2>2. CASE e >= 1
      <3> SUFFICES ASSUME d + 1 <= MinPeriod PROVE FALSE
        BY <1>1, <1>4
      <3>1. k * (d + 1) <= k * MinPeriod /\ k * (d + 1) = k * d + k
        BY <1>1, <1>3, <1>4, MulLe
      <3>2. k * (2 * MinPeriod) <= k * M /\ k * (2 * MinPeriod) = 2 * (k * MinPeriod)
        BY <1>1, <1>3, MulLe
      <3>3. k * M = M * e + M /\ M * e >= M /\ k * d \in Nat /\ k * MinPeriod \in Nat
        BY <1>1, <1>2, <1>3, <1>4, <1>5, <2>2
      <3>4. 2 * t < k * M
        <4>1. t < k * MinPeriod
          BY <1>3, <1>4, <3>1, <3>3
        <4>2. 2 * (k * MinPeriod) <= k * M
          BY <3>2
        <4>3. k * M \in Nat
          BY <1>1, <1>3
        <4> QED
          BY <3>3, <4>1, <4>2, <4>3
      <3>5. 2 * t >= 2 * (M * e) /\ 2 * (M * e) >= M * e + M
        BY <1>1, <1>2, <3>3
      <3> QED
        BY <1>1, <1>2, <3>3, <3>4, <3>5
    <2> QED
      BY <1>2, <2>1, <2>2
  <1> QED
    BY <1>3, <1>4, <1>6, <1>7, <1>8, <1>9 DEF M, d

\* Half of the time n, prescaled by k, is half of the prescaled time but for
\* the roundings.
HalfPulse(n, k) ==
    LET d == ((n * PwmClock) \div 1000) \div k
        q == Pulse(n \div 2, k)
    IN  q \in Nat /\ 2 * q <= d /\ d <= 2 * q + 2

LEMMA PulseFacts ==
    \A n, k \in Nat : k >= 1 => HalfPulse(n, k)
  <1> SUFFICES ASSUME NEW n \in Nat, NEW k \in Nat, k >= 1
               PROVE  LET d == ((n * PwmClock) \div 1000) \div k
                          q == Pulse(n \div 2, k)
                      IN  q \in Nat /\ 2 * q <= d /\ d <= 2 * q + 2
    BY DEF HalfPulse
  <1> DEFINE t == (n * PwmClock) \div 1000
             d == t \div k
             q == Pulse(n \div 2, k)
             C == PwmClock
             h == n \div 2
             a == (h * C) \div k
             X == n * C
             Y == h * C
  <1>1. C \in Nat /\ C <= 1000
    BY Limits
  <1>2. h \in Nat /\ 2 * h <= n /\ n <= 2 * h + 1
    OBVIOUS
  <1>3. X \in Nat /\ Y \in Nat
    BY <1>1, <1>2
  <1>4. 2 * Y <= X /\ X <= 2 * Y + C
    <2> HIDE DEF h, C
    <2>1. C * (2 * h) <= C * n /\ C * n <= C * (2 * h + 1)
      BY <1>1, <1>2, MulLe
    <2>2. C * (2 * h) = 2 * (h * C) /\ C * n = n * C /\ C * (2 * h + 1) = 2 * (h * C) + C
      BY <1>1, <1>2
    <2> QED
      BY <2>1, <2>2
  <1>5. a \in Nat /\ k * a <= Y /\ Y < k * a + k
    BY <1>3, DivFacts
  <1>6. q \in Nat /\ 1000 * q <= a /\ a < 1000 * q + 1000
    <2>1. q = a \div 1000
      BY DEF Pulse
    <2> HIDE DEF a, q
    <2> QED
      BY <1>5, <2>1
  <1>7. t \in Nat /\ 1000 * t <= X /\ X < 1000 * t + 1000
    <2>1. t = X \div 1000
      OBVIOUS
    <2> HIDE DEF X
    <2> HIDE DEF t
    <2> QED
      BY <1>3, <2>1
  <1>8. d \in Nat /\ k * d <= t /\ t < k * d + k
    <2> HIDE DEF t
    <2> QED
      BY <1>7, DivFacts
  <1> HIDE DEF t, d, q, C, h, a, X, Y
  <1>9. k * q \in Nat /\ k * a >= 1000 * (k * q)
    <2>1. k * (1000 * q) <= k * a /\ k * (1000 * q) = 1000 * (k * q)
      BY <1>5, <1>6, MulLe
    <2> QED
      BY <1>6, <2>1
  <1>10. k * a + k <= 1000 * (k * q) + 1000 * k
    <2>1. k * (a + 1) <= k * (1000 * q + 1000)
      BY <1>5, <1>6, MulLe
    <2>2. k * (a + 1) = k * a + k /\ k * (1000 * q + 1000) = 1000 * (k * q) + 1000 * k
      BY <1>5, <1>6
    <2> QED
      BY <2>1, <2>2
  <1>11. 2 * q <= d
    <2>1. 2 * (k * q) <= t
      BY <1>3, <1>4, <1>5, <1>7, <1>9
    <2>2. k * (2 * q) < k * (d + 1)
      <3>1. k * (2 * q) = 2 * (k * q) /\ k * (d + 1) = k * d + k
        BY <1>6, <1>8
      <3> QED
        BY <1>7, <1>8, <1>9, <2>1, <3>1
    <2>3. 2 * q < d + 1
      BY <1>6, <1>8, <2>2, MulLess
    <2> QED
      BY <1>6, <1>8, <2>3
  <1>12. d <= 2 * q + 2
    <2>1. X < 2000 * (k * q) + 2000 * k + 1000
      BY <1>1, <1>3, <1>4, <1>5, <1>9, <1>10
    <2>2. t <= 2 * (k * q) + 2 * k
      BY <1>3, <1>7, <1>9, <2>1
    <2>3. k * d < k * (2 * q + 3)
      <3>1. k * (2 * q + 3) = 2 * (k * q) + 3 * k
        BY <1>6
      <3> QED
        BY <1>7, <1>8, <1>9, <2>2, <3>1
    <2>4. d < 2 * q + 3
      BY <1>6, <1>8, <2>3, MulLess
    <2> QED
      BY <1>6, <1>8, <2>4
  <1> QED
    BY <1>6, <1>11, <1>12 DEF t, d, q

-----------------------------------------------------------------------------
(* Motor.                                                                    *)

MotInv == MotTypeOK /\ MotLastWave

\* What drv_pwm_set leaves in the timer fits its registers.
LEMMA PwmSetTypes ==
    ASSUME MotTypeOK, NEW ch \in Motors, NEW ns \in Nat, NEW pulse \in Nat,
           ((ns * PwmClock) \div 1000) \div MaxPeriod <= MaxPsc,
           PwmSet(ch, ns, pulse)
    PROVE  /\ psc' \in 0..MaxPsc /\ arr' \in 0..MaxPeriod
           /\ ccr' \in [Motors -> 0..(MaxPeriod - 1)]
  <1> DEFINE t == (ns * PwmClock) \div 1000
             k == Prescale(t)
             p == IF t \div k < MinPeriod THEN MinPeriod ELSE t \div k
             q == Pulse(pulse, k)
             c == IF q < MinPulse THEN MinPulse ELSE IF q > p THEN p ELSE q
  <1>1. psc' = k - 1 /\ arr' = p - 1 /\ ccr' = [ccr EXCEPT ![ch] = c - 1]
    BY DEF PwmSet
  <1>2. t \in Nat /\ t \div MaxPeriod <= MaxPsc
    <2>1. ns * PwmClock \in Nat
      BY Limits
    <2> QED
      BY <2>1, DivFacts
  <1> HIDE DEF t
  <1>3. /\ k \in Nat /\ k >= 1 /\ t \div k \in Nat /\ t \div k < MaxPeriod
        /\ k = t \div MaxPeriod + 1 /\ t \div MaxPeriod \in Nat
    <2>1. k = t \div MaxPeriod + 1
      BY DEF Prescale
    <2>2. t \div MaxPeriod \in Nat
      BY <1>2, Limits, DivFacts
    <2> HIDE DEF k
    <2>3. k = Prescale(t)
      BY DEF k
    <2> QED
      BY <1>2, <2>1, <2>2, <2>3, PrescaleFacts
  <1>4. q \in Nat
    <2>1. pulse * PwmClock \in Nat
      BY Limits
    <2>2. (pulse * PwmClock) \div k \in Nat
      BY <1>3, <2>1, DivFacts
    <2> HIDE DEF k
    <2> QED
      BY <2>2, DivFacts DEF Pulse
  <1> HIDE DEF k, q
  <1>5. p \in Nat /\ p >= MinPeriod /\ p <= MaxPeriod
    BY <1>3, Limits
  <1> HIDE DEF p
  <1>6. c \in Nat /\ 1 <= c /\ c <= MaxPeriod
    BY <1>4, <1>5, Limits
  <1> HIDE DEF c
  <1>7. psc' \in 0..MaxPsc /\ arr' \in 0..MaxPeriod
    BY <1>1, <1>2, <1>3, <1>5, Limits
  <1>8. c - 1 \in 0..(MaxPeriod - 1)
    BY <1>6, Limits
  <1> QED
    BY <1>1, <1>7, <1>8 DEF MotTypeOK

\* The wave of a time of which half is the pulse.
LEMMA PwmSetWave ==
    ASSUME MotTypeOK, NEW ch \in Motors, NEW ns \in Nat,
           PwmSet(ch, ns, ns \div 2),
           NEW t, t = (ns * PwmClock) \div 1000
    PROVE  /\ arr' + 1 - 4 <= 2 * ccr'[ch] /\ 2 * ccr'[ch] < arr' + 1
           /\ t >= MinPeriod => /\ t - (psc' + 1) < (arr' + 1) * (psc' + 1)
                                /\ (arr' + 1) * (psc' + 1) <= t
  <1> DEFINE k == Prescale(t)
             d == t \div k
             p == IF d < MinPeriod THEN MinPeriod ELSE d
             q == Pulse(ns \div 2, k)
             c == IF q < MinPulse THEN MinPulse ELSE IF q > p THEN p ELSE q
  <1>1. psc' = k - 1 /\ arr' = p - 1 /\ ccr'[ch] = c - 1
    BY DEF PwmSet, MotTypeOK
  <1>2. t \in Nat
    <2>1. ns * PwmClock \in Nat
      BY Limits
    <2> QED
      BY <2>1, DivFacts
  <1>3. /\ k \in Nat /\ k >= 1 /\ d \in Nat /\ k * d <= t /\ t < k * d + k
        /\ t >= MinPeriod => d >= MinPeriod
        /\ t < MinPeriod => d = t
    BY <1>2, PrescaleFacts
  <1>4. q \in Nat /\ 2 * q <= d /\ d <= 2 * q + 2
    <2> HIDE DEF k, d, q
    <2>1. HalfPulse(ns, k)
      BY <1>3, PulseFacts
    <2> QED
      BY <2>1 DEF HalfPulse, d, q
  <1> HIDE DEF k, d, q
  <1>5. p \in Nat /\ p >= MinPeriod /\ p >= d /\ (t >= MinPeriod => p = d)
    BY <1>2, <1>3, Limits
  <1>6. p <= 2 * q + 2 \/ p = MinPeriod
    BY <1>3, <1>4, <1>5
  <1> HIDE DEF p
  <1>7. c \in Nat /\ (c = q \/ c = MinPulse) /\ c >= q /\ c >= MinPulse
    <2>1. q <= p
      BY <1>3, <1>4, <1>5
    <2> QED
      BY <1>4, <1>5, <2>1, Limits
  <1> HIDE DEF c
  <1>8. p - 4 <= 2 * (c - 1) /\ 2 * (c - 1) < p
    <2>1. 2 * (c - 1) < p
      BY <1>3, <1>4, <1>5, <1>7, Limits
    <2>2. p - 4 <= 2 * (c - 1)
      BY <1>4, <1>5, <1>6, <1>7, Limits
    <2> QED
      BY <2>1, <2>2
  <1>9. t >= MinPeriod => t - k < p * k /\ p * k <= t
    <2>1. d * k = k * d /\ k * d \in Nat
      BY <1>3
    <2> QED
      BY <1>2, <1>3, <1>5, <2>1
  <1>10. psc' + 1 = k /\ arr' + 1 = p
    BY <1>1, <1>3, <1>5
  <1> QED
    BY <1>1, <1>8, <1>9, <1>10

LEMMA MotInitInv == MotInit => MotInv
  <1> SUFFICES ASSUME MotInit PROVE MotInv
    OBVIOUS
  <1>1. MotTypeOK
    <2>1. /\ motEn \in [Motors -> BOOLEAN] /\ cw \in [Motors -> BOOLEAN]
          /\ pwmOn \in [Motors -> BOOLEAN]
      BY Zenon DEF MotInit
    <2>2. 0 \in 0..(MaxPeriod - 1)
      BY Limits
    <2>3. ccr \in [Motors -> 0..(MaxPeriod - 1)]
      BY <2>2 DEF MotInit
    <2>4. psc \in 0..MaxPsc /\ arr \in 0..MaxPeriod
      BY <2>2, Limits DEF MotInit, StartPeriods
    <2> QED
      BY <2>1, <2>3, <2>4 DEF MotInit, MotTypeOK
  <1>2. lastSet \notin Motors
    BY DEF MotInit, Motors
  <1> QED
    BY <1>1, <1>2 DEF MotInv, MotLastWave

LEMMA MotInvStep == MotInv /\ [MotNext]_motVars => MotInv'
  <1> SUFFICES ASSUME MotInv, [MotNext]_motVars PROVE MotInv'
    OBVIOUS
  <1>0. MotTypeOK /\ MotLastWave
    BY DEF MotInv
  <1>1. ASSUME UNCHANGED <<psc, arr, ccr, pwmOn, speed, lastSet>>
        PROVE  MotLastWave'
    BY <1>0, <1>1 DEF MotLastWave, Period, Ticks, AbsNs
  <1>2. ASSUME NEW m \in Motors, NEW on \in BOOLEAN, TestMotor(m, on)
        PROVE  MotInv'
    BY <1>0, <1>1, <1>2 DEF TestMotor, MotInv, MotTypeOK
  <1>3. ASSUME NEW m \in Motors, NEW on \in BOOLEAN, NEW dir \in BOOLEAN,
               TestMotorDir(m, on, dir)
        PROVE  MotInv'
    BY <1>0, <1>1, <1>3 DEF TestMotorDir, SetDir, MotInv, MotTypeOK
  <1>4. ASSUME NEW m \in Motors, NEW on \in BOOLEAN, NEW v \in Speeds,
               TestMotorSpeed(m, on, v)
        PROVE  MotInv'
    <2>1. v \in Int /\ AbsNs(v) \in Nat
      BY MotorOK DEF AbsNs
    <2>2. AbsNs(v) \div 2 \in Nat
      BY <2>1, DivFacts
    <2>3. PwmSet(m, AbsNs(v), AbsNs(v) \div 2) /\ speed' = v /\ lastSet' = m
      BY <1>4 DEF TestMotorSpeed, SetSpeed
    <2>4. /\ psc' \in 0..MaxPsc /\ arr' \in 0..MaxPeriod
          /\ ccr' \in [Motors -> 0..(MaxPeriod - 1)]
      BY <1>0, <2>1, <2>2, <2>3, PrescalerFits, PwmSetTypes
    <2>5. cw' = [cw EXCEPT ![m] = v > 0] /\ pwmOn' = [pwmOn EXCEPT ![m] = TRUE]
      BY <1>4 DEF TestMotorSpeed, SetSpeed
    <2>6. cw' \in [Motors -> BOOLEAN]
      <3>1. (v > 0) \in BOOLEAN
        BY <2>1
      <3> QED
        BY <1>0, <2>5, <3>1, Zenon DEF MotTypeOK
    <2>7. MotTypeOK'
      BY <1>0, <1>4, <2>3, <2>4, <2>5, <2>6 DEF MotTypeOK, TestMotorSpeed
    <2>8. (AbsNs(speed') * PwmClock) \div 1000 = (AbsNs(v) * PwmClock) \div 1000
      BY <2>3
    <2>9. pwmOn'[m]
      BY <1>0, <2>5 DEF MotTypeOK
    <2>10. MotLastWave'
      <3> DEFINE t == (AbsNs(v) * PwmClock) \div 1000
      <3>1. /\ arr' + 1 - 4 <= 2 * ccr'[m] /\ 2 * ccr'[m] < arr' + 1
            /\ t >= MinPeriod => /\ t - (psc' + 1) < (arr' + 1) * (psc' + 1)
                                 /\ (arr' + 1) * (psc' + 1) <= t
        BY <1>0, <2>1, <2>3, PwmSetWave
      <3>2. (AbsNs(speed') * PwmClock) \div 1000 = t
        BY <2>8
      <3>3. /\ arr' + 1 = Period' /\ pwmOn'[lastSet'] /\ ccr'[lastSet'] = ccr'[m]
            /\ Ticks(speed') = t
        BY <2>3, <2>9, <3>2 DEF Period, Ticks
      <3> HIDE DEF t
      <3>4. /\ pwmOn'[lastSet']
            /\ arr' + 1 - 4 <= 2 * ccr'[lastSet'] /\ 2 * ccr'[lastSet'] < arr' + 1
            /\ Ticks(speed') >= MinPeriod =>
                 /\ Ticks(speed') - (psc' + 1) < (arr' + 1) * (psc' + 1)
                 /\ (arr' + 1) * (psc' + 1) <= Ticks(speed')
        BY <3>1, <3>3
      <3>5. (Period - 4 <= 2 * ccr[lastSet] /\ 2 * ccr[lastSet] < Period)'
        <4>1. arr' \in Int /\ ccr'[lastSet'] \in Int
          BY <2>3, <2>4, Limits
        <4> QED
          BY <3>4, <4>1 DEF Period
      <3>6. (Ticks(speed) >= MinPeriod =>
               /\ Ticks(speed) - (psc + 1) < Period * (psc + 1)
               /\ Period * (psc + 1) <= Ticks(speed))'
        BY <3>4 DEF Period, Ticks
      <3>7. (pwmOn[lastSet])'
        BY <3>4
      <3> QED
        BY <3>5, <3>6, <3>7 DEF MotLastWave
    <2> QED
      BY <2>7, <2>10 DEF MotInv
  <1>5. ASSUME NEW m \in Motors, NEW a \in PwmArgs, TestPwm(m, a)
        PROVE  MotInv'
    <2>1. a[1] \in Nat /\ a[2] \in Nat
      BY MotorOK
    <2>2. PwmSet(m, a[1], a[2]) /\ lastSet' = 2 /\ speed' = 0
      BY <1>5 DEF TestPwm
    <2>3. /\ psc' \in 0..MaxPsc /\ arr' \in 0..MaxPeriod
          /\ ccr' \in [Motors -> 0..(MaxPeriod - 1)]
      BY <1>0, <2>1, <2>2, PrescalerFits, PwmSetTypes
    <2>4. MotTypeOK'
      BY <1>0, <1>5, <2>2, <2>3 DEF MotTypeOK, TestPwm
    <2>5. MotLastWave'
      BY <2>2 DEF MotLastWave, Motors
    <2> QED
      BY <2>4, <2>5 DEF MotInv
  <1>6. CASE UNCHANGED motVars
    BY <1>0, <1>1, <1>6 DEF motVars, MotInv, MotTypeOK
  <1> QED
    BY <1>2, <1>3, <1>4, <1>5, <1>6 DEF MotNext

\* The invariant holds of every behaviour of the motors.
THEOREM MotInvariant == MotSpec => []MotInv
  BY MotInitInv, MotInvStep, PTL DEF MotSpec

\* drv_pwm_set never writes a value that does not fit the timer's registers,
\* whatever period and pulse it is asked for.
THEOREM PwmFitsRegisters == MotSpec => []MotTypeOK
  <1>1. MotInv => MotTypeOK
    BY DEF MotInv
  <1> QED
    BY <1>1, MotInvariant, PTL

\* After setSpeed the motor's output is high for half of its period, up to the
\* roundings of drv_pwm_set, and its period is the one asked for, up to one
\* count of the prescaled clock, unless it is clipped to MIN_PERIOD.
THEOREM LastWave == MotSpec => []MotLastWave
  <1>1. MotInv => MotLastWave
    BY DEF MotInv
  <1> QED
    BY <1>1, MotInvariant, PTL

-----------------------------------------------------------------------------
(* SerialRx.                                                                 *)

\* is_full is set only while the buffer holds all it can, so that equal
\* indices mean an empty one.
FullIsFull == isFull => RxPending = Bufsz - 1

\* The inductive invariant of the receiver.
RxInv == RxTypeOK /\ RxKeepsLatest /\ FullIsFull

\* The numbers the steps compute with.
LEMMA RxNumbers ==
    ASSUME RxTypeOK
    PROVE  /\ Bufsz \in Nat /\ Bufsz >= 2
           /\ putIndex \in Nat /\ putIndex < Bufsz
           /\ getIndex \in Nat /\ getIndex < Bufsz
           /\ rxSent \in Nat /\ rxLast \in Nat
           /\ RxPending \in 0..(Bufsz - 1)
           /\ RxStep(getIndex) \in 0..(Bufsz - 1)
           /\ RxStep(putIndex) \in 0..(Bufsz - 1)
           /\ rxBuf[getIndex] \in Nat
  BY SerialOK DEF RxTypeOK, RxPending, RxStep

LEMMA RxInitInv == RxInit => RxInv
  <1> SUFFICES ASSUME RxInit PROVE RxInv
    OBVIOUS
  <1>1. RxTypeOK
    <2>1. rxBuf \in [0..(Bufsz - 1) -> Nat]
      BY DEF RxInit
    <2>2. putIndex \in 0..(Bufsz - 1) /\ getIndex \in 0..(Bufsz - 1) /\ rxLeft \in 0..ReadLen
      BY SerialOK DEF RxInit
    <2>3. rxSent \in Nat /\ rxLast \in Nat /\ isFull \in BOOLEAN
      BY DEF RxInit
    <2> QED
      BY <2>1, <2>2, <2>3 DEF RxTypeOK
  <1>2. RxPending = 0 /\ RxKept = 0
    BY SerialOK DEF RxInit, RxPending, RxKept
  <1>3. RxKeepsLatest
    BY <1>2 DEF RxKeepsLatest
  <1>4. FullIsFull
    BY DEF RxInit, FullIsFull
  <1> QED
    BY <1>1, <1>3, <1>4 DEF RxInv

\* An arriving character: the buffer takes it, and gives up its oldest when full.
LEMMA RxIsrInv == RxInv /\ RxIsr => RxInv'
  <1> SUFFICES ASSUME RxInv, RxIsr PROVE RxInv'
    OBVIOUS
  <1>0. RxTypeOK
    BY DEF RxInv
  <1> USE RxNumbers, <1>0
  <1>1. RxTypeOK'
    <2>1. putIndex' \in 0..(Bufsz - 1) /\ getIndex' \in 0..(Bufsz - 1)
      BY DEF RxIsr, RxTypeOK
    <2>2. rxBuf' \in [0..(Bufsz - 1) -> Nat] /\ rxSent' \in Nat
      BY DEF RxIsr, RxTypeOK
    <2>3. isFull' \in BOOLEAN
      BY Zenon DEF RxIsr, RxTypeOK
    <2> QED
      BY <2>1, <2>2, <2>3 DEF RxIsr, RxTypeOK
  <1>2. \/ /\ putIndex' # getIndex /\ getIndex' = getIndex /\ isFull' = isFull
           /\ RxPending' = RxPending + 1 /\ RxPending < Bufsz - 1
        \/ /\ putIndex' = getIndex /\ getIndex' = RxStep(getIndex)
           /\ RxPending' = RxPending /\ RxPending = Bufsz - 1
    BY DEF RxIsr, RxStep, RxPending
  <1>3. RxPending = RxKept
    BY DEF RxInv, RxKeepsLatest
  <1>4. RxPending' = RxKept'
    BY <1>2, <1>3 DEF RxIsr, RxKept
  <1>5. FullIsFull'
    <2>1. CASE RxPending' = RxPending /\ RxPending = Bufsz - 1
      BY <2>1 DEF FullIsFull
    <2>2. CASE isFull' = isFull /\ RxPending < Bufsz - 1
      <3>1. RxPending # Bufsz - 1
        BY <2>2
      <3> QED
        BY <2>2, <3>1, Zenon DEF RxInv, FullIsFull
    <2> QED
      BY <1>2, <2>1, <2>2
  <1>6. ASSUME NEW j \in 0..(Bufsz - 2), j < RxPending'
        PROVE  rxBuf'[RxSlot(j)'] = rxSent' - RxPending' + 1 + j
    <2>0. rxBuf' = [rxBuf EXCEPT ![putIndex] = rxSent + 1] /\ rxSent' = rxSent + 1
      BY DEF RxIsr
    <2>00. rxBuf \in [0..(Bufsz - 1) -> Nat]
      BY DEF RxTypeOK
    <2>p. \/ putIndex = getIndex + RxPending
          \/ putIndex = getIndex + RxPending - Bufsz
      BY DEF RxPending
    <2>s. \A i \in 0..(Bufsz - 1) :
             \/ getIndex + i < Bufsz /\ RxSlot(i) = getIndex + i
             \/ getIndex + i >= Bufsz /\ RxSlot(i) = getIndex + i - Bufsz
      BY DEF RxSlot
    <2>1. CASE getIndex' = getIndex /\ RxPending' = RxPending + 1 /\ RxPending < Bufsz - 1
      <3>1. RxSlot(j)' = RxSlot(j)
        BY <2>1 DEF RxSlot
      <3>2. CASE j = RxPending
        <4>1. RxSlot(j) = putIndex
          BY <3>2, <2>p, <2>s
        <4>2. rxBuf'[putIndex] = rxSent + 1
          BY <2>0, <2>00
        <4>3. rxSent' - RxPending' + 1 + j = rxSent + 1
          BY <2>0, <2>1, <3>2
        <4> QED
          BY <3>1, <4>1, <4>2, <4>3
      <3>3. CASE j < RxPending
        <4>1. RxSlot(j) # putIndex /\ RxSlot(j) \in 0..(Bufsz - 1)
          BY <3>3, <2>p, <2>s
        <4>2. rxBuf[RxSlot(j)] = rxSent - RxPending + 1 + j
          BY <3>3 DEF RxInv, RxKeepsLatest
        <4> QED
          BY <2>0, <2>00, <2>1, <3>1, <4>1, <4>2
      <3> QED
        BY <1>6, <2>1, <3>2, <3>3
    <2>2. CASE getIndex' = RxStep(getIndex) /\ RxPending' = RxPending /\ RxPending = Bufsz - 1
      <3>1. RxSlot(j)' = RxSlot(j + 1)
        BY <2>2 DEF RxSlot, RxStep
      <3>2. CASE j = Bufsz - 2
        <4>1. RxSlot(j + 1) = putIndex
          BY <2>2, <3>2, <2>p, <2>s
        <4>2. rxBuf'[putIndex] = rxSent + 1
          BY <2>0, <2>00
        <4>3. rxSent' - RxPending' + 1 + j = rxSent + 1
          BY <2>0, <2>2, <3>2
        <4> QED
          BY <3>1, <4>1, <4>2, <4>3
      <3>3. CASE j < Bufsz - 2
        <4>1. RxSlot(j + 1) # putIndex /\ RxSlot(j + 1) \in 0..(Bufsz - 1)
          BY <2>2, <3>3, <2>p, <2>s
        <4>2. rxBuf[RxSlot(j + 1)] = rxSent - RxPending + 1 + (j + 1)
          BY <2>2, <3>3 DEF RxInv, RxKeepsLatest
        <4>3. rxBuf'[RxSlot(j + 1)] = rxBuf[RxSlot(j + 1)]
          BY <2>0, <2>00, <4>1
        <4>4. rxSent' - RxPending' + 1 + j = rxSent - RxPending + 1 + (j + 1)
          BY <2>0, <2>2
        <4> QED
          BY <3>1, <4>2, <4>3, <4>4
      <3> QED
        BY <3>2, <3>3
    <2> QED
      BY <1>2, <2>1, <2>2
  <1> QED
    BY <1>1, <1>4, <1>5, <1>6 DEF RxInv, RxKeepsLatest

\* The character handed to the task is the oldest one kept.
LEMMA RxTakeOldest ==
    ASSUME RxInv, RxTake
    PROVE  RxPending > 0 /\ rxLast' = rxSent - RxPending + 1
  <1>0. RxTypeOK
    BY DEF RxInv
  <1> USE RxNumbers, <1>0
  <1>1. RxPending > 0 /\ 0 \in 0..(Bufsz - 2)
    <2>1. CASE isFull
      BY <2>1 DEF RxInv, FullIsFull
    <2>2. CASE getIndex # putIndex
      BY <2>2 DEF RxPending
    <2> QED
      BY <2>1, <2>2 DEF RxTake, RxEmpty
  <1>2. rxBuf[RxSlot(0)] = rxSent - RxPending + 1 + 0
    BY <1>1 DEF RxInv, RxKeepsLatest
  <1>3. RxSlot(0) = getIndex
    BY DEF RxSlot
  <1> QED
    BY <1>1, <1>2, <1>3 DEF RxTake

LEMMA RxTakeInv == RxInv /\ RxTake => RxInv'
  <1> SUFFICES ASSUME RxInv, RxTake PROVE RxInv'
    OBVIOUS
  <1>0. RxTypeOK
    BY DEF RxInv
  <1> USE RxNumbers, <1>0
  <1>1. rxLast' = rxSent - RxPending + 1 /\ RxPending > 0
    BY RxTakeOldest
  <1>2. RxTypeOK'
    <2>1. rxLast' \in Nat /\ getIndex' \in 0..(Bufsz - 1)
      BY DEF RxTake, RxTypeOK
    <2>2. rxLeft' \in 0..ReadLen
      BY SerialOK DEF RxTake, RxTypeOK
    <2> QED
      BY <2>1, <2>2 DEF RxTake, RxTypeOK
  <1>3. RxPending' = RxPending - 1
    BY <1>1 DEF RxTake, RxStep, RxPending
  <1>4. RxPending' = RxKept'
    <2>1. rxSent' = rxSent
      BY DEF RxTake
    <2> QED
      BY <1>1, <1>3, <2>1 DEF RxKept
  <1>5. ASSUME NEW j \in 0..(Bufsz - 2), j < RxPending'
        PROVE  rxBuf'[RxSlot(j)'] = rxSent' - RxPending' + 1 + j
    <2>1. getIndex' = RxStep(getIndex) /\ rxBuf' = rxBuf /\ rxSent' = rxSent
      BY DEF RxTake
    <2>2. RxSlot(j)' = RxSlot(j + 1)
      BY <2>1 DEF RxStep, RxSlot
    <2>3. j + 1 < RxPending /\ j + 1 \in 0..(Bufsz - 2)
      BY <1>3, <1>5
    <2>4. rxBuf[RxSlot(j + 1)] = rxSent - RxPending + 1 + (j + 1)
      BY <2>3 DEF RxInv, RxKeepsLatest
    <2> QED
      BY <1>3, <2>1, <2>2, <2>4
  <1>6. FullIsFull'
    BY DEF RxTake, FullIsFull
  <1> QED
    BY <1>2, <1>4, <1>5, <1>6 DEF RxInv, RxKeepsLatest

\* The other steps change only the length of the read.
LEMMA RxOtherInv == RxInv /\ (RxRead \/ RxReadEnd \/ UNCHANGED rxVars) => RxInv'
  <1> SUFFICES ASSUME RxInv, RxRead \/ RxReadEnd \/ UNCHANGED rxVars PROVE RxInv'
    OBVIOUS
  <1>1. UNCHANGED <<rxBuf, putIndex, getIndex, isFull, rxSent, rxLast>>
    BY DEF RxRead, RxReadEnd, rxVars
  <1>2. rxLeft' \in 0..ReadLen
    BY SerialOK DEF RxRead, RxReadEnd, rxVars, RxInv, RxTypeOK
  <1>3. RxTypeOK'
    BY <1>1, <1>2 DEF RxInv, RxTypeOK
  <1>4. RxPending' = RxPending /\ RxKept' = RxKept
    BY <1>1 DEF RxPending, RxKept
  <1>5. \A j : RxSlot(j)' = RxSlot(j)
    BY <1>1 DEF RxSlot
  <1>6. RxKeepsLatest'
    BY <1>1, <1>4, <1>5 DEF RxInv, RxKeepsLatest
  <1>7. FullIsFull'
    BY <1>1, <1>4 DEF RxInv, FullIsFull
  <1> QED
    BY <1>3, <1>6, <1>7 DEF RxInv

LEMMA RxInvStep == RxInv /\ [RxNext]_rxVars => RxInv'
  BY RxIsrInv, RxTakeInv, RxOtherInv DEF RxNext

\* The invariant holds of every behaviour of the receiver.
THEOREM RxInvariant == RxSpec => []RxInv
  BY RxInitInv, RxInvStep, PTL DEF RxSpec

\* _serial_int_rx and rt_hw_serial_isr index inside the buffer.
THEOREM RxTypes == RxSpec => []RxTypeOK
  BY RxInvariant, PTL DEF RxInv

\* The buffer holds exactly the latest characters not yet read.
THEOREM RxLatest == RxSpec => []RxKeepsLatest
  BY RxInvariant, PTL DEF RxInv

\* The receive path of the serial driver implements LossyFifo: characters are
\* delivered once and in order, and only overrun ones are missing.
THEOREM RxImplementsFifo == RxSpec => RxRefines
  <1>1. RxInit => Lossy!LossyInit
    BY DEF RxInit, Lossy!LossyInit
  <1>2. RxInv /\ [RxNext]_rxVars => [Lossy!LossyNext]_<<rxSent, rxLast>>
    <2> SUFFICES ASSUME RxInv, [RxNext]_rxVars
                 PROVE  [Lossy!LossyNext]_<<rxSent, rxLast>>
      OBVIOUS
    <2> USE SerialOK
    <2>1. CASE RxIsr
      BY <2>1 DEF RxIsr, Lossy!LossyNext, Lossy!Arrive
    <2>2. CASE RxTake
      <3>1. rxLast' = rxSent - RxPending + 1 /\ RxPending > 0
        BY <2>2, RxTakeOldest
      <3>2. RxPending = RxKept
        BY DEF RxInv, RxKeepsLatest
      <3>3. /\ rxLast < rxSent
            /\ rxLast' = (IF rxLast + (Bufsz - 1) < rxSent
                          THEN rxSent - (Bufsz - 1) ELSE rxLast) + 1
        BY <3>1, <3>2 DEF RxKept, RxInv, RxTypeOK
      <3> QED
        BY <2>2, <3>3 DEF RxTake, Lossy!LossyNext, Lossy!Deliver
    <2>3. CASE RxRead \/ RxReadEnd \/ UNCHANGED rxVars
      BY <2>3 DEF RxRead, RxReadEnd, rxVars
    <2> QED
      BY <2>1, <2>2, <2>3 DEF RxNext
  <1> QED
    BY <1>1, <1>2, RxInvariant, PTL DEF RxSpec, RxRefines, Lossy!LossySpec
=============================================================================
