--------------------------------- MODULE Dio ---------------------------------
(****************************************************************************)
(* The digital outputs and inputs: classes CCtrlGpioDO and CCtrlGpioDI      *)
(* (src/bsp/bspDIO.cpp), the polling task taskDio_entry and the shell       *)
(* command test_do (src/applications/demoDIO.cpp).                          *)
(****************************************************************************)
EXTENDS Naturals

CONSTANTS
    Num,        \* entries of DO_PIN and of DI_PIN, at least one
    Null

Pins == 0..(Num - 1)
Level == {0, 1}                 \* PIN_LOW, PIN_HIGH

VARIABLES
    up,       \* taskDio_entry has done its initialisation
    mPins,    \* CCtrlGpioDO::m_pPins # RT_NULL
    mNum,     \* CCtrlGpioDO::m_num
    doSet,    \* the bits of CCtrlGpioDO::m_doSet that are set
    pin,      \* the level of the output pins
    diDat,    \* the bits of CCtrlGpioDI::m_diDat that are set
    in,       \* the level of the input pins
    want      \* the level last asked for with test_do

vars == <<up, mPins, mNum, doSet, pin, diDat, in, want>>

\* Out of reset nothing drives the output pins: they may be at any level.
Init ==
    /\ up = FALSE /\ mPins = FALSE /\ mNum = 0 /\ doSet = {} /\ diDat = {}
    /\ pin \in [Pins -> Level] /\ in \in [Pins -> Level]
    /\ want = [i \in Pins |-> Null]

\* CCtrlGpioDO::init returns at once when it is given a list of pins; without
\* one it would set every pin up and drive it high.
DOInit(hasList) ==
    \/ hasList /\ UNCHANGED <<mPins, mNum, doSet, pin>>
    \/ /\ ~hasList
       /\ mPins' = TRUE /\ mNum' = Num
       /\ doSet' = Pins /\ pin' = [i \in Pins |-> 1]

Read == {i \in Pins : in[i] = 1}

\* taskDio_entry up to its loop: the outputs with DO_PIN, then the inputs.
TaskInit ==
    /\ ~up /\ up' = TRUE
    /\ DOInit(TRUE)
    /\ diDat' = Read
    /\ UNCHANGED <<in, want>>

\* outputDO(0xFF) drives the first m_num pins from m_doSet.
OutputDO == pin' = [i \in Pins |-> IF i < mNum THEN (IF i \in doSet THEN 1 ELSE 0)
                                   ELSE pin[i]]

\* The loop of taskDio_entry, every 200 ms: outputDO and updataDI.
Poll ==
    /\ up
    /\ OutputDO
    /\ diDat' = (diDat \ Pins) \union Read
    /\ UNCHANGED <<up, mPins, mNum, doSet, in, want>>

\* CCtrlGpioDO::setRtDO, with its early return.
SetRtDO(i, level) ==
    \/ i >= mNum /\ UNCHANGED <<doSet, pin>>
    \/ /\ i < mNum
       /\ doSet' = IF level = 0 THEN doSet \ {i} ELSE doSet \union {i}
       /\ pin' = [pin EXCEPT ![i] = level]

TestDo(i, level) ==
    /\ up
    /\ SetRtDO(i, level)
    /\ want' = [want EXCEPT ![i] = level]
    /\ UNCHANGED <<up, mPins, mNum, diDat, in>>

InputChanges ==
    /\ in' \in [Pins -> Level]
    /\ UNCHANGED <<up, mPins, mNum, doSet, pin, diDat, want>>

Next ==
    \/ TaskInit \/ Poll \/ InputChanges
    \/ \E i \in Pins, level \in Level : TestDo(i, level)

Spec == Init /\ [][Next]_vars

\* What setRtDO says of itself: the level asked for is on the pin at once, and
\* the polling task's outputDO does not take it away again.
OutputTakesEffect == \A i \in Pins : want[i] # Null => pin[i] = want[i]
=============================================================================
