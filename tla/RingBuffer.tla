----------------------------- MODULE RingBuffer ------------------------------
(****************************************************************************)
(* The ring buffer rt_ringbuffer of RT-Thread, as operators on its fields.  *)
(* Each index has a mirror bit that is flipped when the index wraps, so     *)
(* that a full buffer can be told from an empty one.                        *)
(****************************************************************************)
EXTENDS Integers

CONSTANT RbSize      \* buffer_size

ASSUME RingBufferOK == RbSize \in Nat \ {0}

Slots == 0..(RbSize - 1)

\* rm, r: read_mirror and read_index; wm, w: write_mirror and write_index.
Rings == [buf : [Slots -> Nat], rm : BOOLEAN, r : Slots,
          wm : BOOLEAN, w : Slots]

EmptyRing == [buf |-> [i \in Slots |-> 0], rm |-> FALSE, r |-> 0,
              wm |-> FALSE, w |-> 0]

\* rt_ringbuffer_data_len with rt_ringbuffer_status.
DataLen(rb) ==
    IF rb.r = rb.w THEN IF rb.rm = rb.wm THEN 0 ELSE RbSize
    ELSE IF rb.w > rb.r THEN rb.w - rb.r ELSE RbSize - (rb.r - rb.w)

SpaceLen(rb) == RbSize - DataLen(rb)

\* An index advanced by n crosses the end of the buffer.
Crosses(i, n) == ~(RbSize - i > n)

Advance(i, n) == IF Crosses(i, n) THEN n - (RbSize - i) ELSE i + n

\* How far slot i lies after slot from.
After(from, i) == IF i >= from THEN i - from ELSE i - from + RbSize

\* Mutant: the second memcpy starts one byte late.
CopyIn_Late(rb, first, n) ==
    [rb EXCEPT !.buf = [i \in Slots |->
        IF After(rb.w, i) < n
        THEN first + After(rb.w, i) + (IF i < rb.w THEN 1 ELSE 0)
        ELSE rb.buf[i]]]

\* rt_ringbuffer_put: the copying of n bytes, here the numbers from first on.
CopyIn(rb, first, n) ==
    [rb EXCEPT !.buf = [i \in Slots |->
        IF After(rb.w, i) < n THEN first + After(rb.w, i) ELSE rb.buf[i]]]

FlipWrite(rb, n) == [rb EXCEPT !.wm = IF Crosses(rb.w, n) THEN ~@ ELSE @]

MoveWrite(rb, n) == [rb EXCEPT !.w = Advance(@, n)]

\* Mutant: read_mirror is not flipped.
Drop_NoMirror(rb, n) == [rb EXCEPT !.r = Advance(@, n)]

\* rt_ringbuffer_get: both read fields.
Drop(rb, n) ==
    [rb EXCEPT !.rm = IF Crosses(rb.r, n) THEN ~@ ELSE @,
               !.r = Advance(@, n)]

\* The k-th byte (from 0) that the reader will get.
ByteAt(rb, k) == rb.buf[IF rb.r + k < RbSize THEN rb.r + k ELSE rb.r + k - RbSize]
=============================================================================
