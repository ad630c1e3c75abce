---------------------------- MODULE EncoderProofs ----------------------------
(****************************************************************************)
(* Proofs about Encoder for every timer period and every width of circle:   *)
(* types, and that no turn is lost and no sample is far off when the        *)
(* interrupt is prompt.                                                     *)
(****************************************************************************)
EXTENDS Encoder, TLAPS

-----------------------------------------------------------------------------
(* Division.                                                                 *)

LEMMA DivMod ==
    ASSUME NEW x \in Int, NEW d \in Nat \ {0}
    PROVE  /\ x = d * (x \div d) + (x % d)
           /\ x \div d \in Int /\ x % d \in 0..(d - 1)
  BY Z3

LEMMA NoMultiple ==
    ASSUME NEW d \in Nat \ {0}, NEW k \in Int, d * k < d, d * k > -d
    PROVE  k = 0
  <1>1. CASE k >= 1
    BY <1>1, Z3
  <1>2. CASE k <= -1
    BY <1>2, Z3
  <1> QED
    BY <1>1, <1>2

\* Quotient and remainder are determined by what they add up to.
LEMMA DivUnique ==
    ASSUME NEW d \in Nat \ {0}, NEW q \in Int, NEW r \in 0..(d - 1),
           NEW x \in Int, x = d * q + r
    PROVE  x \div d = q /\ x % d = r
  <1>1. /\ x = d * (x \div d) + (x % d)
        /\ x \div d \in Int /\ x % d \in 0..(d - 1)
    BY DivMod
  <1>2. d * ((x \div d) - q) = r - (x % d)
    BY <1>1
  <1>3. (x \div d) - q = 0
    BY <1>1, <1>2, NoMultiple
  <1> QED
    BY <1>1, <1>3

LEMMA ModSmall ==
    ASSUME NEW d \in Nat \ {0}, NEW r \in 0..(d - 1)
    PROVE  r % d = r
  <1>1. 0 \in Int /\ r \in Int /\ r = d * 0 + r
    OBVIOUS
  <1> QED
    BY <1>1, DivUnique

\* One step further the quotient is the same, or one more.
LEMMA DivNext ==
    ASSUME NEW x \in Int, NEW d \in Nat \ {0}
    PROVE  \/ /\ (x + 1) \div d = x \div d /\ (x + 1) % d = (x % d) + 1
              /\ (x % d) + 1 \in 0..(d - 1)
           \/ /\ (x + 1) \div d = (x \div d) + 1 /\ (x + 1) % d = 0
              /\ (x % d) + 1 = d
  <1>1. /\ x = d * (x \div d) + (x % d)
        /\ x \div d \in Int /\ x % d \in 0..(d - 1)
    BY DivMod
  <1>2. CASE (x % d) + 1 < d
    <2>1. PICK q \in Int, r \in 0..(d - 1) : q = x \div d /\ r = (x % d) + 1
      BY <1>1, <1>2
    <2>2. x + 1 \in Int /\ x + 1 = d * q + r
      BY <1>1, <2>1
    <2>3. (x + 1) \div d = q /\ (x + 1) % d = r
      BY <2>2, DivUnique
    <2> QED
      BY <2>1, <2>3
  <1>3. CASE (x % d) + 1 = d
    <2>1. 0 \in 0..(d - 1) /\ (x \div d) + 1 \in Int /\ x + 1 \in Int
      BY <1>1
    <2>2. x + 1 = d * ((x \div d) + 1) + 0
      BY <1>1, <1>3
    <2>3. (x + 1) \div d = (x \div d) + 1 /\ (x + 1) % d = 0
      BY <2>1, <2>2, DivUnique
    <2> QED
      BY <1>3, <2>3
  <1> QED
    BY <1>1, <1>2, <1>3

-----------------------------------------------------------------------------
(* The operators of Encoder.                                                 *)

LEMMA TurnNext ==
    ASSUME NEW p \in Int
    PROVE  Turn(p + 1) = Turn(p) \/ Turn(p + 1) = Turn(p) + 1
  <1>1. MaxTimval + 1 \in Nat \ {0}
    BY EncoderOK
  <1> QED
    BY <1>1, DivNext DEF Turn

LEMMA TurnPrev ==
    ASSUME NEW p \in Int
    PROVE  Turn(p - 1) = Turn(p) \/ Turn(p - 1) = Turn(p) - 1
  <1>1. p - 1 \in Int /\ (p - 1) + 1 = p
    OBVIOUS
  <1>2. Turn(p) = Turn(p - 1) \/ Turn(p) = Turn(p - 1) + 1
    BY <1>1, TurnNext
  <1>3. Turn(p - 1) \in Int
    BY <1>1, DivMod, EncoderOK DEF Turn
  <1> QED
    BY <1>2, <1>3

LEMMA TurnCntTypes ==
    ASSUME NEW p \in Int
    PROVE  Turn(p) \in Int /\ Cnt(p) \in 0..MaxTimval
  <1>1. MaxTimval + 1 \in Nat \ {0} /\ (MaxTimval + 1) - 1 = MaxTimval
    BY EncoderOK
  <1> QED
    BY <1>1, DivMod DEF Turn, Cnt

LEMMA Int8Range ==
    ASSUME NEW n \in Int
    PROVE  Int8(n) \in -Half..(Half - 1)
  <1>1. 2 * Half \in Nat \ {0} /\ n + Half \in Int /\ Half \in Int
    BY EncoderOK
  <1>2. (n + Half) % (2 * Half) \in 0..(2 * Half - 1)
    BY <1>1, DivMod
  <1> QED
    BY <1>1, <1>2 DEF Int8

\* Counting up in eight bits, and keeping the low eight bits of a count.
LEMMA Int8Next ==
    ASSUME NEW n \in Int
    PROVE  Int8(Int8(n) + 1) = Int8(n + 1)
  <1> DEFINE m == 2 * Half
             x == n + Half
  <1>1. m \in Nat \ {0} /\ x \in Int /\ Half \in Nat
    BY EncoderOK
  <1>2. Int8(n) + 1 + Half = (x % m) + 1 /\ (n + 1) + Half = x + 1
    <2>1. x % m \in 0..(m - 1)
      BY <1>1, DivMod
    <2> QED
      BY <1>1, <2>1 DEF Int8
  <1>3. ((x % m) + 1) % m = (x + 1) % m
    <2> HIDE DEF m, x
    <2>1. CASE (x + 1) % m = (x % m) + 1 /\ (x % m) + 1 \in 0..(m - 1)
      <3>1. ((x % m) + 1) % m = (x % m) + 1
        BY <1>1, <2>1, ModSmall, Zenon
      <3> QED
        BY <2>1, <3>1, Zenon
    <2>2. CASE (x + 1) % m = 0 /\ (x % m) + 1 = m
      <3>1. 1 \in Int /\ 0 \in 0..(m - 1) /\ m \in Int /\ m = m * 1 + 0
        BY <1>1
      <3>2. m % m = 0
        BY <1>1, <3>1, DivUnique
      <3> QED
        BY <2>2, <3>2
    <2> QED
      BY <1>1, <2>1, <2>2, DivNext
  <1> QED
    BY <1>2, <1>3 DEF Int8

\* ... and counting down.
LEMMA Int8Prev ==
    ASSUME NEW n \in Int
    PROVE  Int8(Int8(n) - 1) = Int8(n - 1)
  <1> DEFINE m == 2 * Half
             x == (n - 1) + Half
  <1>1. m \in Nat \ {0} /\ x \in Int /\ Half \in Nat /\ m = 2 * Half
    BY EncoderOK
  <1>2. x % m \in 0..(m - 1) /\ (x + 1) % m \in 0..(m - 1)
    BY <1>1, DivMod
  <1>3. Int8(n - 1) = (x % m) - Half /\ Int8(n) = ((x + 1) % m) - Half
    BY <1>1 DEF Int8
  <1>4. Int8(Int8(n) - 1) = ((((x + 1) % m) - 1) % m) - Half
    <2>1. (Int8(n) - 1) + Half = ((x + 1) % m) - 1
      BY <1>1, <1>2, <1>3
    <2> QED
      BY <2>1 DEF Int8
  <1> HIDE DEF m, x
  <1>5. (((x + 1) % m) - 1) % m = x % m
    <2>1. CASE (x + 1) % m = (x % m) + 1
      <3>1. ((x + 1) % m) - 1 = x % m
        BY <1>2, <2>1
      <3>2. (x % m) % m = x % m
        BY <1>1, <1>2, ModSmall, Zenon
      <3> QED
        BY <3>1, <3>2, Zenon
    <2>2. CASE (x + 1) % m = 0 /\ (x % m) + 1 = m
      <3>1. ((x + 1) % m) - 1 = -1 /\ x % m = m - 1
        BY <1>1, <1>2, <2>2
      <3>2. -1 \in Int /\ m - 1 \in 0..(m - 1) /\ -1 = m * (-1) + (m - 1)
        BY <1>1
      <3>3. (-1) % m = m - 1
        BY <1>1, <3>2, DivUnique
      <3> QED
        BY <3>1, <3>3
    <2> QED
      BY <1>1, <2>1, <2>2, DivNext
  <1> QED
    BY <1>3, <1>4, <1>5

-----------------------------------------------------------------------------
(* Types.                                                                    *)

LEMMA EncStepTypes == EncTypeOK /\ [EncNext]_encVars => EncTypeOK'
  <1> SUFFICES ASSUME EncTypeOK, [EncNext]_encVars PROVE EncTypeOK'
    OBVIOUS
  <1>1. ASSUME NEW step \in {1, -1}, Edge(step) PROVE EncTypeOK'
    <2>1. pos' \in Int /\ wraps' \in Nat
      BY <1>1 DEF EncTypeOK, Edge
    <2>2. down' \in BOOLEAN /\ uif' \in BOOLEAN /\ fits' \in BOOLEAN
      <3>1. (step < 0) \in BOOLEAN
        OBVIOUS
      <3> QED
        BY <1>1, <3>1, Zenon DEF EncTypeOK, Edge
    <2>3. UNCHANGED <<circle, val, encPc, reg, at>>
      BY <1>1 DEF Edge
    <2> QED
      BY <2>1, <2>2, <2>3 DEF EncTypeOK
  <1>2. CASE PeriodElapsed
    <2>1. circle \in Int
      BY EncoderOK DEF EncTypeOK
    <2>2. circle' \in -Half..(Half - 1)
      BY <1>2, <2>1, Int8Range DEF PeriodElapsed
    <2>3. uif' \in BOOLEAN
      BY <1>2 DEF PeriodElapsed
    <2> QED
      BY <1>2, <2>2, <2>3 DEF EncTypeOK, PeriodElapsed
  <1>3. CASE ReadFirst
    <2>1. Cnt(pos) \in 0..MaxTimval
      BY TurnCntTypes DEF EncTypeOK
    <2>2. reg' \in 0..MaxTimval \union -Half..(Half - 1)
      BY <1>3, <2>1 DEF EncTypeOK, ReadFirst
    <2>3. wraps' \in Nat /\ at' \in Int
      BY <1>3 DEF EncTypeOK, ReadFirst
    <2>4. fits' \in BOOLEAN
      BY <1>3, Zenon DEF ReadFirst
    <2>5. encPc' \in {"idle", "cnt", "circle"}
      BY <1>3 DEF ReadFirst
    <2> QED
      BY <1>3, <2>2, <2>3, <2>4, <2>5 DEF EncTypeOK, ReadFirst
  <1>4. CASE ReadSecond
    <2>1. Cnt(pos) \in Int /\ reg \in Int /\ circle \in Int
      BY TurnCntTypes, EncoderOK DEF EncTypeOK
    <2>2. val' \in Int /\ at' \in Int
      BY <1>4, <2>1, EncoderOK DEF EncTypeOK, ReadSecond, Value
    <2> QED
      BY <1>4, <2>2 DEF EncTypeOK, ReadSecond
  <1>5. CASE UNCHANGED encVars
    BY <1>5 DEF EncTypeOK, encVars
  <1> QED
    BY <1>1, <1>2, <1>3, <1>4, <1>5 DEF EncNext

LEMMA EncInitTypes == EncInit => EncTypeOK
  <1>1. 0 \in -Half..(Half - 1) /\ 0 \in 0..MaxTimval
    BY EncoderOK
  <1>2. EncInit => /\ pos \in Int /\ val \in Int /\ at \in Int /\ wraps \in Nat
                   /\ circle \in -Half..(Half - 1)
                   /\ reg \in 0..MaxTimval \union -Half..(Half - 1)
    BY <1>1 DEF EncInit
  <1>3. EncInit => /\ down \in BOOLEAN /\ uif \in BOOLEAN /\ fits \in BOOLEAN
                   /\ encPc \in {"idle", "cnt", "circle"}
    BY DEF EncInit
  <1> QED
    BY <1>2, <1>3 DEF EncTypeOK

\* circle keeps its eight bits and the operand read its range, whatever the
\* order of edges, interrupts and reads (getEncoder, the callback).
THEOREM EncTypes == EncSpec => []EncTypeOK
  BY EncInitTypes, EncStepTypes, PTL DEF EncSpec

-----------------------------------------------------------------------------
(* Turns.                                                                    *)

\* The inductive invariant: while the interrupt is pending, circle is one turn
\* behind in the direction of the timer.
Behind == IF down THEN Turn(pos) + 1 ELSE Turn(pos) - 1
TurnsInv ==
    /\ ~uif => circle = Int8(Turn(pos))
    /\ uif => circle = Int8(Behind)

LEMMA TurnsInit == EncInit => TurnsInv
  <1> SUFFICES ASSUME EncInit PROVE circle = Int8(Turn(pos))
    BY DEF EncInit, TurnsInv
  <1>1. MaxTimval + 1 \in Nat \ {0} /\ 2 * Half \in Nat \ {0} /\ Half \in Nat
    BY EncoderOK
  <1>2. 0 \in Int /\ 0 \in 0..((MaxTimval + 1) - 1) /\ 0 = (MaxTimval + 1) * 0 + 0
    BY <1>1
  <1>3. Turn(0) = 0
    BY <1>1, <1>2, DivUnique DEF Turn
  <1>4. Half \in 0..(2 * Half - 1) /\ Half = (2 * Half) * 0 + Half /\ Half \in Int
    BY EncoderOK
  <1>5. Half % (2 * Half) = Half
    BY <1>1, <1>2, <1>4, DivUnique
  <1>6. Int8(0) = 0
    BY <1>1, <1>5 DEF Int8
  <1> QED
    BY <1>3, <1>6 DEF EncInit

LEMMA TurnsEdge ==
    ASSUME Prompt, EncTypeOK, TurnsInv, NEW step \in {1, -1}, Edge(step)
    PROVE  TurnsInv'
  <1>1. ~uif /\ circle' = circle /\ circle = Int8(Turn(pos))
    BY DEF Edge, TurnsInv
  <1>2. pos \in Int /\ pos' = pos + step /\ Turn(pos) \in Int
    BY TurnCntTypes DEF Edge, EncTypeOK
  <1>3. Turn(pos') = Turn(pos)' /\ Behind' = IF down' THEN Turn(pos') + 1 ELSE Turn(pos') - 1
    BY DEF Turn, Behind
  <1>4. (uif' <=> Turn(pos') # Turn(pos)) /\ (down' <=> step < 0)
    BY <1>1 DEF Edge
  <1>5. CASE step = 1
    <2>1. Turn(pos') = Turn(pos) \/ Turn(pos') = Turn(pos) + 1
      BY <1>2, <1>5, TurnNext
    <2>2. ~down'
      BY <1>4, <1>5
    <2>3. uif' => Turn(pos') - 1 = Turn(pos)
      BY <1>2, <1>4, <2>1
    <2> QED
      BY <1>1, <1>3, <1>4, <2>2, <2>3 DEF TurnsInv
  <1>6. CASE step = -1
    <2>1. Turn(pos') = Turn(pos) \/ Turn(pos') = Turn(pos) - 1
      BY <1>2, <1>6, TurnPrev
    <2>2. down'
      BY <1>4, <1>6
    <2>3. uif' => Turn(pos') + 1 = Turn(pos)
      BY <1>2, <1>4, <2>1
    <2> QED
      BY <1>1, <1>3, <1>4, <2>2, <2>3 DEF TurnsInv
  <1> QED
    BY <1>5, <1>6

LEMMA TurnsElapsed ==
    ASSUME EncTypeOK, TurnsInv, PeriodElapsed
    PROVE  TurnsInv'
  <1>1. /\ circle = Int8(Behind) /\ ~uif' /\ pos' = pos
        /\ circle' = Int8(IF down THEN circle - 1 ELSE circle + 1)
    BY DEF PeriodElapsed, TurnsInv
  <1>2. Turn(pos) \in Int /\ Turn(pos)' = Turn(pos)
    BY <1>1, TurnCntTypes DEF EncTypeOK, Turn
  <1>3. CASE down
    <2>1. Turn(pos) + 1 \in Int /\ (Turn(pos) + 1) - 1 = Turn(pos)
      BY <1>2
    <2>2. circle' = Int8((Turn(pos) + 1) - 1)
      BY <1>1, <1>3, <2>1, Int8Prev DEF Behind
    <2> QED
      BY <1>1, <1>2, <2>1, <2>2 DEF TurnsInv
  <1>4. CASE ~down
    <2>1. Turn(pos) - 1 \in Int /\ (Turn(pos) - 1) + 1 = Turn(pos)
      BY <1>2
    <2>2. circle' = Int8((Turn(pos) - 1) + 1)
      BY <1>1, <1>4, <2>1, Int8Next DEF Behind
    <2> QED
      BY <1>1, <1>2, <2>1, <2>2 DEF TurnsInv
  <1> QED
    BY <1>3, <1>4

LEMMA TurnsInductive ==
    ASSUME Prompt
    PROVE  EncTypeOK /\ TurnsInv /\ [EncNext]_encVars => TurnsInv'
  <1> SUFFICES ASSUME EncTypeOK, TurnsInv, [EncNext]_encVars PROVE TurnsInv'
    OBVIOUS
  <1>1. CASE Edge(1) \/ Edge(-1)
    BY <1>1, TurnsEdge
  <1>2. CASE PeriodElapsed
    BY <1>2, TurnsElapsed
  <1>3. CASE ReadFirst \/ ReadSecond \/ UNCHANGED encVars
    <2>1. UNCHANGED <<pos, down, uif, circle>>
      BY <1>3 DEF ReadFirst, ReadSecond, encVars
    <2> QED
      BY <2>1 DEF TurnsInv, Behind, Turn
  <1> QED
    BY <1>1, <1>2, <1>3 DEF EncNext

\* If the update interrupt is served before the next edge, circle counts every
\* turn of the shaft in the right direction, as far as its bits go.
THEOREM NoTurnLost ==
    ASSUME Prompt
    PROVE  EncSpec => []TurnsCounted
  <1>1. TurnsInv => TurnsCounted
    BY DEF TurnsInv, TurnsCounted
  <1> QED
    BY <1>1, TurnsInductive, TurnsInit, EncTypes, PTL DEF EncSpec

-----------------------------------------------------------------------------
(* Samples.                                                                  *)

\* The turns that circle has counted, or has still to count.
Counted == IF uif THEN Behind ELSE Turn(pos)
Within(a, b, n) == a - b <= n /\ b - a <= n
InCircle(n) == -Half <= n /\ n < Half

\* While a sample is taken and circle can hold the turns, what was read first
\* is at most wraps turns away from what will be read second; a pending
\* interrupt belongs to the edge before.
NearInv ==
    /\ uif => Turn(IF down THEN pos + 1 ELSE pos - 1) = Behind
    /\ encPc # "idle" /\ fits => InCircle(Turn(pos)) /\ InCircle(Counted)
    /\ encPc = "cnt" /\ fits => /\ reg = Cnt(at)
                                /\ Within(Turn(pos), Turn(at), wraps)
                                /\ Within(Counted, Turn(at), wraps)
    /\ encPc = "circle" /\ fits => Within(reg, Turn(pos), wraps)

LEMMA Int8Same ==
    ASSUME NEW n \in Int, InCircle(n)
    PROVE  Int8(n) = n
  <1>1. /\ Half \in Nat \ {0} /\ 2 * Half \in Nat \ {0}
        /\ n + Half \in 0..(2 * Half - 1)
    BY EncoderOK DEF InCircle
  <1>2. (n + Half) % (2 * Half) = n + Half
    BY <1>1, ModSmall
  <1> QED
    BY <1>1, <1>2 DEF Int8

\* What circle holds, where it can hold the turns.
LEMMA CircleCounts ==
    ASSUME EncTypeOK, TurnsInv, InCircle(Counted)
    PROVE  circle = Counted /\ Counted \in Int
  <1>1. Turn(pos) \in Int
    BY TurnCntTypes DEF EncTypeOK
  <1>2. Counted \in Int
    BY <1>1 DEF Counted, Behind
  <1>3. circle = Int8(Counted)
    BY DEF TurnsInv, Counted
  <1> QED
    BY <1>2, <1>3, Int8Same

LEMMA NearEdge ==
    ASSUME Prompt, EncTypeOK, NearInv, NEW step \in {1, -1}, Edge(step)
    PROVE  NearInv'
  <1>1. /\ pos \in Int /\ pos' = pos + step /\ pos' \in Int /\ at \in Int
        /\ Turn(pos) \in Int /\ Turn(pos') \in Int /\ Turn(at) \in Int
        /\ wraps \in Int /\ reg \in Int
    <2>1. pos \in Int /\ pos' = pos + step /\ at \in Int /\ wraps \in Int
      BY DEF EncTypeOK, Edge
    <2>2. reg \in Int
      BY EncoderOK DEF EncTypeOK
    <2> QED
      BY <2>1, <2>2, TurnCntTypes
  <1>2. ~uif /\ UNCHANGED <<encPc, reg, at>> /\ Counted = Turn(pos)
    BY DEF Edge, Counted
  <1>3. (uif' <=> Turn(pos') # Turn(pos)) /\ (down' <=> step = -1)
    <2>1. (step < 0) <=> step = -1
      OBVIOUS
    <2> QED
      BY <1>2, <2>1 DEF Edge
  <1>4. /\ Turn(pos)' = Turn(pos') /\ Turn(at)' = Turn(at) /\ Cnt(at)' = Cnt(at)
        /\ Behind' = IF down' THEN Turn(pos') + 1 ELSE Turn(pos') - 1
        /\ Counted' = IF uif' THEN Behind' ELSE Turn(pos')
    BY <1>2 DEF Turn, Cnt, Behind, Counted
  \* An edge leaves to circle what it had counted before.
  <1>5. /\ Counted' = Turn(pos)
        /\ uif' => (step = 1 /\ Turn(pos') = Turn(pos) + 1)
                     \/ (step = -1 /\ Turn(pos') = Turn(pos) - 1)
    <2>1. CASE step = 1
      <3>1. Turn(pos') = Turn(pos) \/ Turn(pos') = Turn(pos) + 1
        BY <1>1, <2>1, TurnNext
      <3> QED
        BY <1>1, <1>3, <1>4, <2>1, <3>1
    <2>2. CASE step = -1
      <3>1. Turn(pos') = Turn(pos) \/ Turn(pos') = Turn(pos) - 1
        BY <1>1, <2>2, TurnPrev
      <3> QED
        BY <1>1, <1>3, <1>4, <2>2, <3>1
    <2> QED
      BY <2>1, <2>2
  <1>6. uif' => Turn(IF down' THEN pos' + 1 ELSE pos' - 1) = Behind'
    <2>1. ASSUME uif' PROVE (IF down' THEN pos' + 1 ELSE pos' - 1) = pos
      BY <1>1, <1>3
    <2>2. ASSUME uif' PROVE Behind' = Turn(pos)
      BY <1>4, <1>5, <2>2
    <2> QED
      BY <2>1, <2>2
  <1>7. /\ fits' => fits /\ InCircle(Turn(pos'))
        /\ encPc # "idle" /\ uif' => wraps' = wraps + 1
        /\ ~(encPc # "idle" /\ uif') => wraps' = wraps
    BY <1>3 DEF Edge, Fits, InCircle
  <1>8. encPc # "idle" /\ fits' => InCircle(Turn(pos)') /\ InCircle(Counted)'
    <2>1. InCircle(Counted)' <=> InCircle(Counted')
      BY DEF InCircle
    <2> QED
      BY <1>2, <1>4, <1>5, <1>7, <2>1 DEF NearInv, InCircle
  <1>9. \/ Turn(pos') = Turn(pos)
        \/ uif' /\ (Turn(pos') = Turn(pos) + 1 \/ Turn(pos') = Turn(pos) - 1)
    BY <1>3, <1>5
  <1>10. encPc = "cnt" /\ fits' => /\ reg = Cnt(at)
                                   /\ Within(Turn(pos'), Turn(at), wraps')
                                   /\ Within(Counted', Turn(at), wraps')
    <2> SUFFICES ASSUME encPc = "cnt", fits'
                 PROVE  /\ reg = Cnt(at)
                        /\ Within(Turn(pos'), Turn(at), wraps')
                        /\ Within(Counted', Turn(at), wraps')
      OBVIOUS
    <2>1. reg = Cnt(at) /\ Within(Turn(pos), Turn(at), wraps)
      BY <1>7 DEF NearInv
    <2> QED
      BY <1>1, <1>5, <1>7, <1>9, <2>1 DEF Within
  <1>11. encPc = "circle" /\ fits' => Within(reg, Turn(pos'), wraps')
    <2> SUFFICES ASSUME encPc = "circle", fits' PROVE Within(reg, Turn(pos'), wraps')
      OBVIOUS
    <2>1. Within(reg, Turn(pos), wraps)
      BY <1>7 DEF NearInv
    <2> QED
      BY <1>1, <1>7, <1>9, <2>1 DEF Within
  <1>12. Turn(IF down THEN pos + 1 ELSE pos - 1)' = Turn(IF down' THEN pos' + 1 ELSE pos' - 1)
    BY DEF Turn
  <1> QED
    BY <1>2, <1>4, <1>6, <1>8, <1>10, <1>11, <1>12 DEF NearInv, Within

LEMMA NearElapsed ==
    ASSUME EncTypeOK, NearInv, PeriodElapsed
    PROVE  NearInv'
  <1>1. /\ uif /\ ~uif' /\ UNCHANGED <<pos, down, encPc, reg, at, wraps, fits>>
    BY DEF PeriodElapsed
  <1>2. /\ Turn(pos)' = Turn(pos) /\ Turn(at)' = Turn(at) /\ Cnt(at)' = Cnt(at)
        /\ Counted' = Turn(pos)
    BY <1>1 DEF Turn, Cnt, Counted
  <1>3. encPc = "cnt" /\ fits => /\ Within(Counted, Turn(at), wraps)'
                                 /\ Within(Turn(pos), Turn(at), wraps)'
    BY <1>1, <1>2 DEF NearInv, Within
  <1>4. encPc = "circle" /\ fits => Within(reg, Turn(pos), wraps)'
    BY <1>1, <1>2 DEF NearInv, Within
  <1>5. encPc # "idle" /\ fits => InCircle(Turn(pos))' /\ InCircle(Counted)'
    BY <1>1, <1>2 DEF NearInv, InCircle
  <1> QED
    BY <1>1, <1>2, <1>3, <1>4, <1>5 DEF NearInv

LEMMA NearReadFirst ==
    ASSUME EncTypeOK, TurnsInv, NearInv, ReadFirst
    PROVE  NearInv'
  <1>1. /\ UNCHANGED <<pos, down, uif, circle>> /\ wraps' = (IF uif THEN 1 ELSE 0)
        /\ fits' => Fits(pos) /\ (uif => Fits(pos - 1) /\ Fits(pos + 1))
        /\ \/ encPc' = "cnt" /\ reg' = Cnt(pos) /\ at' = pos
           \/ encPc' = "circle" /\ reg' = circle /\ at' = at
    BY DEF ReadFirst
  <1>2. pos \in Int /\ Turn(pos) \in Int
    BY TurnCntTypes DEF EncTypeOK
  <1>3. /\ Counted' = Counted /\ Turn(pos)' = Turn(pos) /\ Behind' = Behind
        /\ encPc' = "cnt" => Turn(at)' = Turn(pos) /\ Cnt(at)' = Cnt(pos)
    BY <1>1 DEF Counted, Behind, Turn, Cnt
  <1>4. fits' => InCircle(Turn(pos)) /\ InCircle(Counted)
    <2>1. CASE uif
      <3>1. fits' => InCircle(Turn(pos)) /\ InCircle(Turn(pos - 1)) /\ InCircle(Turn(pos + 1))
        BY <1>1, <2>1 DEF Fits, InCircle
      <3>2. Behind = Turn(pos + 1) \/ Behind = Turn(pos - 1)
        BY <2>1 DEF NearInv
      <3> QED
        BY <2>1, <3>1, <3>2 DEF Counted
    <2>2. CASE ~uif
      BY <1>1, <2>2 DEF Fits, InCircle, Counted
    <2> QED
      BY <2>1, <2>2
  <1>5. Within(Counted, Turn(pos), wraps') /\ Within(Turn(pos), Turn(pos), wraps')
    BY <1>1, <1>2 DEF Within, Counted, Behind
  <1>6. fits' /\ encPc' = "circle" => reg' = Counted
    BY <1>1, <1>4, CircleCounts
  <1>7. InCircle(Turn(pos))' = InCircle(Turn(pos)) /\ InCircle(Counted)' = InCircle(Counted)
    BY <1>3 DEF InCircle
  <1>8. encPc' = "cnt" /\ fits' => /\ reg' = Cnt(at)'
                                   /\ Within(Turn(pos), Turn(at), wraps)'
                                   /\ Within(Counted, Turn(at), wraps)'
    BY <1>1, <1>3, <1>5 DEF Within
  <1>9. encPc' = "circle" /\ fits' => Within(reg, Turn(pos), wraps)'
    BY <1>3, <1>5, <1>6 DEF Within
  <1>10. uif' => Turn(IF down THEN pos + 1 ELSE pos - 1)' = Behind'
    BY <1>1, <1>3 DEF NearInv, Turn
  <1> QED
    BY <1>4, <1>7, <1>8, <1>9, <1>10 DEF NearInv

\* The value of a sample whose turns are off by at most w.
LEMMA ValueNear ==
    ASSUME NEW p \in Int, NEW n \in Int, NEW w \in Nat, Within(n, Turn(p), w)
    PROVE  Abs(Value(Cnt(p), n) - p) <= Abs(Turn(p)) + w * MaxTimval
  <1>1. /\ MaxTimval \in Nat /\ MaxTimval + 1 \in Nat \ {0}
    BY EncoderOK
  <1>2. Turn(p) \in Int /\ Cnt(p) \in Int
    BY <1>1, TurnCntTypes
  <1>3. p = (MaxTimval + 1) * Turn(p) + Cnt(p)
    BY <1>1, DivMod DEF Turn, Cnt
  <1>4. PICK d \in Int : d = n - Turn(p) /\ d <= w /\ -d <= w
    BY <1>2 DEF Within
  <1>5. Value(Cnt(p), n) - p = d * MaxTimval - Turn(p)
    BY <1>1, <1>2, <1>3, <1>4, Z3 DEF Value
  <1>6. d * MaxTimval <= w * MaxTimval /\ -(d * MaxTimval) <= w * MaxTimval
    <2>1. (w - d) * MaxTimval >= 0 /\ (w + d) * MaxTimval >= 0
      BY <1>1, <1>4, Z3
    <2> QED
      BY <1>1, <1>4, <2>1, Z3
  <1>7. PICK a \in Int, b \in Int : a = d * MaxTimval /\ b = w * MaxTimval
    BY <1>1, <1>4
  <1> QED
    BY <1>2, <1>5, <1>6, <1>7 DEF Abs

\* If the interrupt is prompt, a sample of getEncoder differs from the position
\* at which the counter was read by at most one count for every turn made and
\* one turn for every wrap not counted yet, whatever comes between its two
\* reads and in whichever order it makes them.
THEOREM SamplesNear ==
    ASSUME Prompt
    PROVE  EncSpec => SampleNear
  <1>1. EncInit => NearInv
    BY DEF EncInit, NearInv
  <1>2. EncTypeOK /\ TurnsInv /\ NearInv /\ [EncNext]_encVars => NearInv'
    <2> SUFFICES ASSUME EncTypeOK, TurnsInv, NearInv, [EncNext]_encVars PROVE NearInv'
      OBVIOUS
    <2>1. CASE Edge(1) \/ Edge(-1)
      BY <2>1, NearEdge
    <2>2. CASE PeriodElapsed
      BY <2>2, NearElapsed
    <2>3. CASE ReadFirst
      BY <2>3, NearReadFirst
    <2>4. CASE ReadSecond
      BY <2>4 DEF ReadSecond, NearInv, Behind, Turn
    <2>5. CASE UNCHANGED encVars
      BY <2>5 DEF encVars, NearInv, Behind, Turn, Cnt, Counted, Within, InCircle
    <2> QED
      BY <2>1, <2>2, <2>3, <2>4, <2>5 DEF EncNext
  <1>3. EncTypeOK /\ TurnsInv /\ NearInv =>
          (ReadSecond /\ fits => Abs(val' - at') <= Abs(Turn(at')) + wraps * MaxTimval)
    <2> SUFFICES ASSUME EncTypeOK, TurnsInv, NearInv, ReadSecond, fits
                 PROVE  Abs(val' - at') <= Abs(Turn(at')) + wraps * MaxTimval
      OBVIOUS
    <2>1. pos \in Int /\ at \in Int /\ wraps \in Nat /\ reg \in Int
      BY EncoderOK DEF EncTypeOK
    <2>2. CASE encPc = "cnt"
      <3>1. val' = Value(Cnt(at), circle) /\ at' = at
        BY <2>2 DEF ReadSecond, NearInv
      <3>2. circle \in Int /\ Within(circle, Turn(at), wraps)
        BY <2>2, CircleCounts DEF NearInv
      <3> QED
        BY <2>1, <3>1, <3>2, ValueNear
    <2>3. CASE encPc = "circle"
      <3>1. val' = Value(Cnt(pos), reg) /\ at' = pos /\ Within(reg, Turn(pos), wraps)
        BY <2>3 DEF ReadSecond, NearInv
      <3> QED
        BY <2>1, <3>1, ValueNear
    <2> QED
      BY <2>2, <2>3 DEF ReadSecond
  <1> QED
    BY <1>1, <1>2, <1>3, TurnsInductive, TurnsInit, EncTypes, PTL DEF EncSpec, SampleNear
=============================================================================
