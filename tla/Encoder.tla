------------------------------- MODULE Encoder -------------------------------
(****************************************************************************)
(* A rotary encoder: the timer that counts its edges, the update interrupt  *)
(* that counts turns (HAL_TIM_PeriodElapsedCallback) and the task that      *)
(* reads both (getEncoder).  The board has two, alike and independent.      *)
(* The direction getEncoder stores is only printed, and is left out.        *)
(****************************************************************************)
EXTENDS Integers

CONSTANTS
    MaxTimval,   \* MAX_TIMVAL, the timer's period: it counts 0..MaxTimval
    Half,        \* circle holds -Half..(Half - 1): 128 for an rt_int8_t
    Bound,       \* positions explored: -Bound..Bound
    MaxWraps,    \* wraps explored between the two reads of getEncoder
    Prompt       \* TRUE: the interrupt is served before the next edge

ASSUME EncoderOK ==
    /\ MaxTimval \in Nat \ {0} /\ Half \in Nat \ {0}
    /\ Bound \in Nat /\ MaxWraps \in Nat /\ Prompt \in BOOLEAN

VARIABLES
    pos,         \* the position of the shaft, in edges
    down,        \* the timer's direction bit
    uif,         \* the timer's update flag
    circle,      \* g_ctrlEnc[].circle
    val,         \* g_ctrlEnc[].val
    encPc, reg,  \* getEncoder: its step and the operand it has read
    at,          \* the position at which the counter was read last
    wraps,       \* turns not yet counted when getEncoder read first or since
    fits         \* ... and whether circle could hold the turns all the time

encVars == <<pos, down, uif, circle, val, encPc, reg, at, wraps, fits>>

Turn(p) == p \div (MaxTimval + 1)
Cnt(p) == p % (MaxTimval + 1)
Fits(p) == -Half <= Turn(p) /\ Turn(p) < Half

\* The counter register, the turns and what is read of them have their widths.
EncTypeOK ==
    /\ pos \in Int /\ val \in Int /\ at \in Int /\ wraps \in Nat
    /\ down \in BOOLEAN /\ uif \in BOOLEAN /\ fits \in BOOLEAN
    /\ circle \in -Half..(Half - 1)
    /\ encPc \in {"idle", "cnt", "circle"}
    /\ reg \in 0..MaxTimval \union -Half..(Half - 1)

\* encoderInit.
EncInit ==
    /\ pos = 0 /\ down = FALSE /\ uif = FALSE
    /\ circle = 0 /\ val = 0
    /\ encPc = "idle" /\ reg = 0 /\ at = 0 /\ wraps = 0 /\ fits = TRUE

\* An edge: the timer counts, and sets its flag when it wraps.
Edge(step) ==
    /\ Prompt => ~uif
    /\ pos + step \in -Bound..Bound
    /\ pos' = pos + step /\ down' = (step < 0)
    /\ uif' = (uif \/ Turn(pos') # Turn(pos))
    /\ IF encPc # "idle" /\ Turn(pos') # Turn(pos)
       THEN wraps < MaxWraps /\ wraps' = wraps + 1
       ELSE UNCHANGED wraps
    /\ fits' = (fits /\ Fits(pos'))
    /\ UNCHANGED <<circle, val, encPc, reg, at>>

\* Assignment to an rt_int8_t.
Int8(n) == ((n + Half) % (2 * Half)) - Half

\* Mutant: the direction bit is not looked at.
PeriodElapsed_Up ==
    /\ uif /\ uif' = FALSE
    /\ circle' = Int8(circle + 1)
    /\ UNCHANGED <<pos, down, val, encPc, reg, at, wraps, fits>>

\* The interrupt clears the flag and counts by the direction of this moment.
PeriodElapsed ==
    /\ uif /\ uif' = FALSE
    /\ circle' = Int8(IF down THEN circle - 1 ELSE circle + 1)
    /\ UNCHANGED <<pos, down, val, encPc, reg, at, wraps, fits>>

\* Mutant: the turns are added as they are.
Value_NoFactor(cnt, turns) == cnt + turns

Value(cnt, turns) == cnt + turns * MaxTimval

\* getEncoder reads the counter and circle, in an order the language leaves
\* open; edges and the interrupt may come between the two.
ReadFirst ==
    /\ encPc = "idle"
    /\ wraps' = (IF uif THEN 1 ELSE 0)
    /\ fits' = (Fits(pos) /\ (uif => Fits(pos - 1) /\ Fits(pos + 1)))
    /\ \/ encPc' = "cnt" /\ reg' = Cnt(pos) /\ at' = pos
       \/ encPc' = "circle" /\ reg' = circle /\ UNCHANGED at
    /\ UNCHANGED <<pos, down, uif, circle, val>>

ReadSecond ==
    /\ encPc # "idle"
    /\ \/ encPc = "cnt" /\ val' = Value(reg, circle) /\ UNCHANGED at
       \/ encPc = "circle" /\ val' = Value(Cnt(pos), reg) /\ at' = pos
    /\ encPc' = "idle"
    /\ UNCHANGED <<pos, down, uif, circle, reg, wraps, fits>>

EncNext == Edge(1) \/ Edge(-1) \/ PeriodElapsed \/ ReadFirst \/ ReadSecond

EncSpec == EncInit /\ [][EncNext]_encVars

-----------------------------------------------------------------------------
(* Properties.                                                               *)

\* Whenever no interrupt is pending, circle is the number of turns the shaft
\* has made, as far as eight bits go: no wrap is lost or counted in the wrong
\* direction.
TurnsCounted == ~uif => circle = Int8(Turn(pos))

Abs(n) == IF n < 0 THEN -n ELSE n

\* A sample is off by at most one count for every turn made (a turn has one
\* count more than MAX_TIMVAL) and one turn for every wrap that was pending at
\* its first read or came before its second, while the turns fit in circle.
SampleNear ==
    [][ReadSecond /\ fits =>
          Abs(val' - at') <= Abs(Turn(at')) + wraps * MaxTimval]_encVars
=============================================================================
