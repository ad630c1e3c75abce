------------------------------ MODULE SerialRx ------------------------------
(****************************************************************************)
(* Receiving on uart2: the interrupt puts characters into the ring buffer   *)
(* of the serial driver, and the task taskUart_entry takes them out, one    *)
(* with interrupts disabled at a time.  A full buffer discards its oldest   *)
(* character.  A character is represented by its number.                    *)
(****************************************************************************)
EXTENDS Integers

CONSTANTS
    Bufsz,       \* config.bufsz, RT_SERIAL_RB_BUFSZ: 64 in the firmware
    ReadLen,     \* characters asked for by one rt_device_read: 256
    MaxChars     \* characters explored

ASSUME SerialOK ==
    /\ Bufsz \in Nat /\ Bufsz >= 2
    /\ ReadLen \in Nat \ {0} /\ MaxChars \in Nat

VARIABLES
    rxBuf, putIndex, getIndex, isFull,   \* struct rt_serial_rx_fifo
    rxLeft,      \* characters _serial_int_rx still wants; 0: the task sleeps
    rxSent,      \* the number of the last character that arrived
    rxLast       \* the number of the last character the task was given

rxVars == <<rxBuf, putIndex, getIndex, isFull, rxLeft, rxSent, rxLast>>

\* Both indices stay inside the buffer.
RxTypeOK ==
    /\ rxBuf \in [0..(Bufsz - 1) -> Nat]
    /\ putIndex \in 0..(Bufsz - 1) /\ getIndex \in 0..(Bufsz - 1)
    /\ isFull \in BOOLEAN
    /\ rxLeft \in 0..ReadLen
    /\ rxSent \in Nat /\ rxLast \in Nat

\* rt_serial_open with RT_DEVICE_FLAG_INT_RX.
RxInit ==
    /\ rxBuf = [i \in 0..(Bufsz - 1) |-> 0]
    /\ putIndex = 0 /\ getIndex = 0 /\ isFull = FALSE
    /\ rxLeft = 0 /\ rxSent = 0 /\ rxLast = 0

RxStep(i) == IF i + 1 >= Bufsz THEN 0 ELSE i + 1

\* Mutant: a full buffer keeps its read index.
RxIsr_NoDiscard ==
    /\ rxSent < MaxChars
    /\ rxSent' = rxSent + 1
    /\ rxBuf' = [rxBuf EXCEPT ![putIndex] = rxSent']
    /\ putIndex' = RxStep(putIndex)
    /\ isFull' = (isFull \/ putIndex' = getIndex)
    /\ UNCHANGED <<getIndex, rxLeft, rxLast>>

\* rt_hw_serial_isr: a character arrives.
RxIsr ==
    /\ rxSent < MaxChars
    /\ rxSent' = rxSent + 1
    /\ rxBuf' = [rxBuf EXCEPT ![putIndex] = rxSent']
    /\ putIndex' = RxStep(putIndex)
    /\ IF putIndex' = getIndex
       THEN getIndex' = RxStep(getIndex) /\ isFull' = TRUE
       ELSE UNCHANGED <<getIndex, isFull>>
    /\ UNCHANGED <<rxLeft, rxLast>>

\* The task calls rt_device_read.
RxRead ==
    /\ rxLeft = 0
    /\ rxLeft' = ReadLen
    /\ UNCHANGED <<rxBuf, putIndex, getIndex, isFull, rxSent, rxLast>>

\* Mutant: a buffer that was full is taken for an empty one.
RxEmpty_Full == getIndex = putIndex \/ isFull

RxEmpty == getIndex = putIndex /\ ~isFull

\* Mutant: the character is read at the index already advanced.
RxTake_Next ==
    /\ rxLeft > 0 /\ ~RxEmpty
    /\ getIndex' = RxStep(getIndex)
    /\ rxLast' = rxBuf[getIndex']
    /\ isFull' = FALSE
    /\ rxLeft' = rxLeft - 1
    /\ UNCHANGED <<rxBuf, putIndex, rxSent>>

\* One turn of the loop of _serial_int_rx ...
RxTake ==
    /\ rxLeft > 0 /\ ~RxEmpty
    /\ rxLast' = rxBuf[getIndex]
    /\ getIndex' = RxStep(getIndex)
    /\ isFull' = FALSE
    /\ rxLeft' = rxLeft - 1
    /\ UNCHANGED <<rxBuf, putIndex, rxSent>>

\* ... which ends when there is no character left.
RxReadEnd ==
    /\ rxLeft > 0 /\ RxEmpty
    /\ rxLeft' = 0
    /\ UNCHANGED <<rxBuf, putIndex, getIndex, isFull, rxSent, rxLast>>

RxNext == RxIsr \/ RxRead \/ RxTake \/ RxReadEnd

RxSpec == RxInit /\ [][RxNext]_rxVars

\* The task is scheduled again after each of its delays.
RxFair == WF_rxVars(RxRead) /\ WF_rxVars(RxTake) /\ WF_rxVars(RxReadEnd)

-----------------------------------------------------------------------------
(* Properties.                                                               *)

RxPending ==
    IF putIndex >= getIndex
    THEN putIndex - getIndex ELSE putIndex - getIndex + Bufsz

RxSlot(j) ==
    IF getIndex + j < Bufsz THEN getIndex + j ELSE getIndex + j - Bufsz

RxKept == IF rxLast + Bufsz - 1 < rxSent THEN Bufsz - 1 ELSE rxSent - rxLast

\* The buffer holds, in order, exactly the latest characters not yet given to
\* the task, up to one less than its size: none is lost while there is room,
\* none is overwritten between the two indices.
RxKeepsLatest ==
    /\ RxPending = RxKept
    /\ \A j \in 0..(Bufsz - 2) :
          j < RxPending => rxBuf[RxSlot(j)] = rxSent - RxPending + 1 + j

Lossy == INSTANCE LossyFifo
            WITH Cap <- Bufsz - 1, sent <- rxSent, last <- rxLast

\* What the task reads is a stream from which only overrun characters are
\* missing, each of the others once and in order.
RxRefines == Lossy!LossySpec

\* The task catches up: when no more characters arrive, whatever is still in
\* the buffer is read, after an overrun as well.  (MaxChars ends the arrivals.)
RxDelivered == []<>(rxLast = rxSent)
=============================================================================
