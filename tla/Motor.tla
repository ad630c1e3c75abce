-------------------------------- MODULE Motor --------------------------------
(****************************************************************************)
(* The two motors: an enable pin and a direction pin each, and a channel    *)
(* each of one PWM timer (TIM8).  Only the shell drives them, with the      *)
(* commands test_motor and test_pwm.                                        *)
(****************************************************************************)
EXTENDS Integers

CONSTANTS
    PwmClock,    \* tim_clock in MHz
    MaxPeriod, MinPeriod, MinPulse,
    Speeds,      \* speeds tried, in ns per pulse
    PwmArgs      \* <<period, pulse>> tried with test_pwm, in ns

ASSUME MotorOK ==
    /\ PwmClock \in 1..1000
    /\ MaxPeriod \in Nat /\ MinPeriod \in Nat /\ MinPulse \in Nat \ {0}
    /\ 2 * MinPeriod <= MaxPeriod
    /\ 2 * (MinPulse - 1) < MinPeriod /\ MinPeriod <= 2 * MinPulse + 2
    /\ Speeds \subseteq Int /\ PwmArgs \subseteq (Nat \X Nat)

Motors == {0, 1}
MaxPsc == 65535   \* the largest value of the 16-bit prescaler register

VARIABLES
    motEn, cw,       \* the pins: motor enabled, direction CW
    psc, arr, ccr,   \* TIM8: prescaler, period (both shared), compare values
    pwmOn,           \* channels started
    lastSet,         \* the motor whose speed was set last; 2: test_pwm, or none
    speed            \* the speed it was given

motVars == <<motEn, cw, psc, arr, ccr, pwmOn, speed, lastSet>>

\* The values fit the timer's 16-bit registers.
MotTypeOK ==
    /\ motEn \in [Motors -> BOOLEAN] /\ cw \in [Motors -> BOOLEAN]
    /\ psc \in 0..MaxPsc /\ arr \in 0..MaxPeriod
    /\ ccr \in [Motors -> 0..(MaxPeriod - 1)]
    /\ pwmOn \in [Motors -> BOOLEAN]
    /\ speed \in Speeds \union {0} /\ lastSet \in Motors \union {2}

\* stm32_hw_pwm_init and MX_TIM8_Init set up the timer at the same level of
\* initialisation: the linker decides which of them leaves its period.
StartPeriods == {0, MaxPeriod}

\* CCtrlMotor::init.
MotInit ==
    /\ motEn = [m \in Motors |-> FALSE] /\ cw = [m \in Motors |-> TRUE]
    /\ psc = 0 /\ arr \in StartPeriods /\ ccr = [m \in Motors |-> 0]
    /\ pwmOn = [m \in Motors |-> FALSE]
    /\ speed = 0 /\ lastSet = 2

\* Mutant: the prescaler is rounded down.
Prescale_Down(t) == IF t < MaxPeriod THEN 1 ELSE t \div MaxPeriod

Prescale(t) == t \div MaxPeriod + 1

\* Mutant: the prescaler is forgotten.
Pulse_Unscaled(pulse, k) == (pulse * PwmClock) \div 1000

Pulse(pulse, k) == ((pulse * PwmClock) \div k) \div 1000

\* drv_pwm_set: nanoseconds to counts of the prescaled clock.
PwmSet(ch, ns, pulse) ==
    LET t == (ns * PwmClock) \div 1000
        k == Prescale(t)
        p == IF t \div k < MinPeriod THEN MinPeriod ELSE t \div k
        q == Pulse(pulse, k)
        c == IF q < MinPulse THEN MinPulse ELSE IF q > p THEN p ELSE q
    IN  /\ psc' = k - 1 /\ arr' = p - 1
        /\ ccr' = [ccr EXCEPT ![ch] = c - 1]

AbsNs(v) == IF v > 0 THEN v ELSE -v

\* The prescaler of the times tried fits its 16 bits, as that of every 32-bit
\* number of nanoseconds does.
ASSUME PrescalerFits ==
    /\ \A v \in Speeds : ((AbsNs(v) * PwmClock) \div 1000) \div MaxPeriod <= MaxPsc
    /\ \A a \in PwmArgs : ((a[1] * PwmClock) \div 1000) \div MaxPeriod <= MaxPsc

\* setSpeed: half of the period is the pulse; the sign is the direction.
SetSpeed(m, v) ==
    /\ PwmSet(m, AbsNs(v), AbsNs(v) \div 2)
    /\ pwmOn' = [pwmOn EXCEPT ![m] = TRUE]
    /\ cw' = [cw EXCEPT ![m] = v > 0]
    /\ speed' = v /\ lastSet' = m

SetDir(m, dir) == cw' = [cw EXCEPT ![m] = dir]

\* test_motor <idx> <on/off> ...
TestMotor(m, on) ==
    /\ motEn' = [motEn EXCEPT ![m] = on]
    /\ UNCHANGED <<cw, psc, arr, ccr, pwmOn, speed, lastSet>>

\* ... with a direction ...
TestMotorDir(m, on, dir) ==
    /\ motEn' = [motEn EXCEPT ![m] = on]
    /\ SetDir(m, dir)
    /\ UNCHANGED <<psc, arr, ccr, pwmOn, speed, lastSet>>

\* ... and a speed, whose sign replaces the direction.
TestMotorSpeed(m, on, v) ==
    /\ motEn' = [motEn EXCEPT ![m] = on]
    /\ SetSpeed(m, v)

\* test_pwm <idx> <period> <plus>
TestPwm(ch, a) ==
    /\ PwmSet(ch, a[1], a[2])
    /\ pwmOn' = [pwmOn EXCEPT ![ch] = TRUE]
    /\ lastSet' = 2 /\ speed' = 0
    /\ UNCHANGED <<motEn, cw>>

MotNext ==
    \E m \in Motors :
        \/ \E on \in BOOLEAN : TestMotor(m, on)
        \/ \E on, dir \in BOOLEAN : TestMotorDir(m, on, dir)
        \/ \E on \in BOOLEAN, v \in Speeds : TestMotorSpeed(m, on, v)
        \/ \E a \in PwmArgs : TestPwm(m, a)

MotSpec == MotInit /\ [][MotNext]_motVars

-----------------------------------------------------------------------------
(* Properties.                                                               *)

Period == arr + 1
Ticks(v) == (AbsNs(v) * PwmClock) \div 1000

\* The motor whose speed was set last gets a wave that is high for half of
\* its period, up to the roundings of the conversion (four counts), and whose
\* period is the speed, up to one count of the prescaled clock, however its
\* conversion was prescaled and clipped.  The output is high while the counter
\* is below the compare value.
MotLastWave ==
    lastSet \in Motors =>
        LET t == Ticks(speed)
            k == psc + 1
        IN  /\ pwmOn[lastSet]
            /\ Period - 4 <= 2 * ccr[lastSet] /\ 2 * ccr[lastSet] < Period
            /\ t >= MinPeriod => t - k < Period * k /\ Period * k <= t
=============================================================================
