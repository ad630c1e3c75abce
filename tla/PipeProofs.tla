------------------------------ MODULE PipeProofs ------------------------------
(****************************************************************************)
(* Proofs about Pipe for every size of the buffer and every length read or  *)
(* written: the bytes arrive in order, no wake-up is lost, and a read()     *)
(* after select() does not block.                                           *)
(****************************************************************************)
EXTENDS Pipe, TLAPS

\* The mirror bits differ exactly when the write index has wrapped once more
\* than the read index.
Mirrored(rb) ==
    /\ rb.r < rb.w => rb.rm = rb.wm
    /\ rb.w < rb.r => rb.rm # rb.wm

\* The bytes not yet read, those of the put under way included.
Content ==
    /\ Mirrored(Settled)
    /\ DataLen(Settled) = wseq - rseq
    /\ part <= SpaceLen(Settled)
    /\ \A k \in 0..(RbSize - 1) :
          k < wseq + part - rseq => ByteAt(fifo, k) = rseq + 1 + k

\* What a put writes, and that the mutex keeps the other one out meanwhile.
Locking ==
    /\ lock = "R" <=> rPc \in {"get", "got"}
    /\ lock = "W" <=> wPc \in {"put", "index", "after"}
    /\ wPc # "index" => part = 0
    /\ part <= left
    /\ wPc \in {"index", "after"} => readers = 1

\* A suspended thread can be reached through the node it has put in a queue.
Nodes ==
    /\ "R" \in susp => rPc \in InHeap \union {"woke", "clear"}
    /\ rPc \in {"add2", "in2", "check", "wait", "woke"} /\ ~trig => rnode = "poll"
    /\ "R" \in susp /\ rPc \in {"woke", "clear"} => rnode # "none"
    /\ "W" \in susp => wPc = "clear" /\ "wait" \in wnodes

\* There is nothing to read, or the writer will say so.
NothingToRead == WriterWillWake \/ (wseq = rseq /\ writers = 1)

\* R goes to sleep only when there is nothing to read.
ReaderTold ==
    /\ rPc = "wait" /\ ~trig => NothingToRead
    /\ rPc \in {"wakew", "waitq"} /\ ~rflag => NothingToRead
    /\ rPc \in {"woke", "clear"} /\ "R" \in susp => NothingToRead

\* There is no room, or the reader will say so.
NoRoom == rPc = "got" \/ (wseq - rseq = RbSize /\ readers = 1)

\* W goes to sleep only when there is no room.
WriterTold ==
    /\ wPc = "index" /\ left > part => wseq + part - rseq = RbSize
    /\ wPc = "after" /\ left > 0 => wseq - rseq = RbSize
    /\ wPc \in {"wake", "waitq"} /\ ~wflag => NoRoom
    /\ "W" \in susp => NoRoom

\* What select() reports stays true until read() has looked.
ReadyKept ==
    /\ ready /\ rPc \in {"free2", "out2", "free1", "out1", "read", "take", "get"}
          => writers = 0 \/ wseq > rseq \/ part > 0
    /\ rPc \in {"wakew", "waitq", "clear"} => ~ready

PipeInv ==
    /\ PipeTypeOK /\ Content /\ Locking /\ Nodes
    /\ ReaderTold /\ WriterTold /\ ReadyKept

-----------------------------------------------------------------------------
(* The ring buffer.                                                          *)

LEMMA RingParts ==
    ASSUME NEW rb \in Rings
    PROVE  /\ RbSize \in Nat /\ RbSize >= 1
           /\ rb.r \in 0..(RbSize - 1) /\ rb.w \in 0..(RbSize - 1)
           /\ rb.rm \in BOOLEAN /\ rb.wm \in BOOLEAN
           /\ rb.buf \in [Slots -> Nat]
  BY RingBufferOK DEF Rings, Slots

\* What each operation does to the fields.
LEMMA RingFields ==
    ASSUME NEW rb \in Rings, NEW n \in Nat
    PROVE  /\ FlipWrite(rb, n).buf = rb.buf /\ FlipWrite(rb, n).r = rb.r
           /\ FlipWrite(rb, n).rm = rb.rm /\ FlipWrite(rb, n).w = rb.w
           /\ MoveWrite(rb, n).buf = rb.buf /\ MoveWrite(rb, n).r = rb.r
           /\ MoveWrite(rb, n).rm = rb.rm /\ MoveWrite(rb, n).wm = rb.wm
           /\ MoveWrite(rb, n).w = Advance(rb.w, n)
           /\ Drop(rb, n).buf = rb.buf /\ Drop(rb, n).w = rb.w
           /\ Drop(rb, n).wm = rb.wm /\ Drop(rb, n).r = Advance(rb.r, n)
  BY DEF Rings, FlipWrite, MoveWrite, Drop

LEMMA CopyFields ==
    ASSUME NEW rb \in Rings, NEW n \in Nat, NEW first \in Nat
    PROVE  /\ CopyIn(rb, first, n).r = rb.r /\ CopyIn(rb, first, n).w = rb.w
           /\ CopyIn(rb, first, n).rm = rb.rm /\ CopyIn(rb, first, n).wm = rb.wm
           /\ CopyIn(rb, first, n).buf = [i \in Slots |->
                IF After(rb.w, i) < n THEN first + After(rb.w, i) ELSE rb.buf[i]]
  BY DEF Rings, CopyIn

LEMMA Mirrors ==
    ASSUME NEW rb \in Rings, NEW n \in Nat
    PROVE  /\ Crosses(rb.w, n) => FlipWrite(rb, n).wm = ~rb.wm
           /\ ~Crosses(rb.w, n) => FlipWrite(rb, n).wm = rb.wm
           /\ Crosses(rb.r, n) => Drop(rb, n).rm = ~rb.rm
           /\ ~Crosses(rb.r, n) => Drop(rb, n).rm = rb.rm
  BY DEF Rings, FlipWrite, Drop

LEMMA RingTypes ==
    ASSUME NEW rb \in Rings, NEW n \in 0..RbSize
    PROVE  /\ FlipWrite(rb, n) \in Rings
           /\ MoveWrite(rb, n) \in Rings
           /\ Drop(rb, n) \in Rings
           /\ \A first \in Nat : CopyIn(rb, first, n) \in Rings
  <1>1. \A i \in Slots : Advance(i, n) \in Slots
    BY RingBufferOK DEF Advance, Crosses, Slots
  <1>2. \A i \in Slots : After(rb.w, i) \in Nat
    BY RingBufferOK DEF After, Slots, Rings
  <1>3. FlipWrite(rb, n) \in Rings
    BY DEF FlipWrite, Rings
  <1>4. MoveWrite(rb, n) \in Rings
    BY <1>1 DEF MoveWrite, Rings
  <1>5. Drop(rb, n) \in Rings
    BY <1>1 DEF Drop, Rings
  <1>6. \A first \in Nat : CopyIn(rb, first, n) \in Rings
    BY <1>2 DEF CopyIn, Rings
  <1> QED
    BY <1>3, <1>4, <1>5, <1>6

LEMMA DataLenRange ==
    ASSUME NEW rb \in Rings
    PROVE  DataLen(rb) \in 0..RbSize /\ SpaceLen(rb) \in 0..RbSize
  <1>1. /\ RbSize \in Nat /\ RbSize >= 1
        /\ rb.r \in 0..(RbSize - 1) /\ rb.w \in 0..(RbSize - 1)
    BY RingParts
  <1>2. DataLen(rb) \in 0..RbSize
    BY <1>1 DEF DataLen
  <1> QED
    BY <1>1, <1>2 DEF SpaceLen

\* How many bytes there are depends on the indices and the mirrors only.
LEMMA SameEnds ==
    ASSUME NEW a \in Rings, NEW b \in Rings,
           a.r = b.r, a.w = b.w, a.rm = b.rm, a.wm = b.wm
    PROVE  DataLen(a) = DataLen(b) /\ (Mirrored(a) <=> Mirrored(b))
  BY DEF DataLen, Mirrored

\* The mirror of a put undone is the one before.
LEMMA FlipTwice ==
    ASSUME NEW rb \in Rings, NEW n \in 0..RbSize
    PROVE  FlipWrite(FlipWrite(rb, n), n).wm = rb.wm
  <1>1. FlipWrite(rb, n) \in Rings /\ FlipWrite(rb, n).w = rb.w /\ n \in Nat
    BY RingBufferOK, RingTypes, RingFields
  <1>2. CASE Crosses(rb.w, n)
    <2>1. FlipWrite(rb, n).wm = ~rb.wm
      BY <1>2, Mirrors
    <2>2. FlipWrite(FlipWrite(rb, n), n).wm = ~(FlipWrite(rb, n).wm)
      BY <1>1, <1>2, Mirrors
    <2> QED
      BY <2>1, <2>2, RingParts
  <1>3. CASE ~Crosses(rb.w, n)
    BY <1>1, <1>3, Mirrors
  <1> QED
    BY <1>2, <1>3

\* rt_ringbuffer_put adds the n bytes it had room for.
LEMMA PutEnds ==
    ASSUME NEW rb \in Rings, NEW n \in Nat, n > 0,
           Mirrored(FlipWrite(rb, n)), n <= SpaceLen(FlipWrite(rb, n))
    PROVE  /\ Mirrored(MoveWrite(rb, n))
           /\ DataLen(MoveWrite(rb, n)) = DataLen(FlipWrite(rb, n)) + n
  <1> DEFINE a == FlipWrite(rb, n)
             b == MoveWrite(rb, n)
  <1>1. /\ RbSize \in Nat /\ RbSize >= 1
        /\ rb.r \in 0..(RbSize - 1) /\ rb.w \in 0..(RbSize - 1)
        /\ rb.rm \in BOOLEAN /\ rb.wm \in BOOLEAN
    BY RingParts
  <1>2. /\ a.r = rb.r /\ a.w = rb.w /\ a.rm = rb.rm
        /\ b.r = rb.r /\ b.w = Advance(rb.w, n) /\ b.rm = rb.rm /\ b.wm = rb.wm
    BY RingFields
  <1> HIDE DEF a, b
  <1>3. CASE Crosses(rb.w, n)
    <2>1. a.wm = ~rb.wm
      BY <1>3, Mirrors DEF a
    <2>2. (a.rm = a.wm) <=> (b.rm # b.wm)
      BY <1>1, <1>2, <2>1
    <2>3. b.w = n - (RbSize - rb.w) /\ rb.w + n >= RbSize
      BY <1>1, <1>2, <1>3 DEF Advance, Crosses
    <2>4. Mirrored(a) /\ n <= SpaceLen(a)
      BY DEF a
    <2>5. Mirrored(b) /\ DataLen(b) = DataLen(a) + n
      BY <1>1, <1>2, <2>2, <2>3, <2>4 DEF Mirrored, DataLen, SpaceLen
    <2> QED
      BY <2>5 DEF a, b
  <1>4. CASE ~Crosses(rb.w, n)
    <2>1. a.wm = rb.wm
      BY <1>4, Mirrors DEF a
    <2>2. (a.rm = a.wm) <=> (b.rm = b.wm)
      BY <1>1, <1>2, <2>1
    <2>3. b.w = rb.w + n /\ rb.w + n < RbSize
      BY <1>1, <1>2, <1>4 DEF Advance, Crosses
    <2>4. Mirrored(a) /\ n <= SpaceLen(a)
      BY DEF a
    <2>5. Mirrored(b) /\ DataLen(b) = DataLen(a) + n
      BY <1>1, <1>2, <2>2, <2>3, <2>4 DEF Mirrored, DataLen, SpaceLen
    <2> QED
      BY <2>5 DEF a, b
  <1> QED
    BY <1>3, <1>4

\* rt_ringbuffer_get takes n bytes away.
LEMMA DropEnds ==
    ASSUME NEW rb \in Rings, NEW n \in Nat, n > 0, Mirrored(rb), n <= DataLen(rb)
    PROVE  /\ Mirrored(Drop(rb, n))
           /\ DataLen(Drop(rb, n)) = DataLen(rb) - n
  <1> DEFINE b == Drop(rb, n)
  <1>1. /\ RbSize \in Nat /\ RbSize >= 1
        /\ rb.r \in 0..(RbSize - 1) /\ rb.w \in 0..(RbSize - 1)
        /\ rb.rm \in BOOLEAN /\ rb.wm \in BOOLEAN
    BY RingParts
  <1>2. b.w = rb.w /\ b.r = Advance(rb.r, n) /\ b.wm = rb.wm
    BY RingFields
  <1> HIDE DEF b
  <1>3. CASE Crosses(rb.r, n)
    <2>1. b.rm = ~rb.rm
      BY <1>3, Mirrors DEF b
    <2>2. (rb.rm = rb.wm) <=> (b.rm # b.wm)
      BY <1>1, <1>2, <2>1
    <2>3. b.r = n - (RbSize - rb.r) /\ rb.r + n >= RbSize
      BY <1>1, <1>2, <1>3 DEF Advance, Crosses
    <2>4. Mirrored(b) /\ DataLen(b) = DataLen(rb) - n
      BY <1>1, <1>2, <2>2, <2>3 DEF Mirrored, DataLen
    <2> QED
      BY <2>4 DEF b
  <1>4. CASE ~Crosses(rb.r, n)
    <2>1. b.rm = rb.rm
      BY <1>4, Mirrors DEF b
    <2>2. b.r = rb.r + n /\ rb.r + n < RbSize
      BY <1>1, <1>2, <1>4 DEF Advance, Crosses
    <2>3. Mirrored(b) /\ DataLen(b) = DataLen(rb) - n
      BY <1>1, <1>2, <2>1, <2>2 DEF Mirrored, DataLen
    <2> QED
      BY <2>3 DEF b
  <1> QED
    BY <1>3, <1>4

\* Taking n bytes away, the byte that was n places on is the next one.
LEMMA DropBytes ==
    ASSUME NEW rb \in Rings, NEW n \in 0..RbSize, NEW k \in Nat, k + n < RbSize
    PROVE  ByteAt(Drop(rb, n), k) = ByteAt(rb, k + n)
  <1>1. RbSize \in Nat /\ RbSize >= 1 /\ rb.r \in 0..(RbSize - 1)
    BY RingParts
  <1>2. Drop(rb, n).r = Advance(rb.r, n) /\ Drop(rb, n).buf = rb.buf
    BY RingFields, RingBufferOK
  <1> QED
    BY <1>1, <1>2 DEF ByteAt, Advance, Crosses

\* The copying leaves the bytes not yet read alone and adds the new ones after
\* them.
LEMMA CopyBytes ==
    ASSUME NEW rb \in Rings, NEW n \in Nat, n <= SpaceLen(rb), NEW first \in Nat,
           Mirrored(rb), NEW k \in 0..(RbSize - 1)
    PROVE  /\ k < DataLen(rb) => ByteAt(CopyIn(rb, first, n), k) = ByteAt(rb, k)
           /\ DataLen(rb) <= k /\ k < DataLen(rb) + n
                 => ByteAt(CopyIn(rb, first, n), k) = first + k - DataLen(rb)
  <1> DEFINE i == IF rb.r + k < RbSize THEN rb.r + k ELSE rb.r + k - RbSize
             c == CopyIn(rb, first, n)
  <1>1. /\ RbSize \in Nat /\ RbSize >= 1
        /\ rb.r \in 0..(RbSize - 1) /\ rb.w \in 0..(RbSize - 1)
    BY RingParts
  <1>2. /\ c.r = rb.r
        /\ c.buf = [j \in Slots |-> IF After(rb.w, j) < n THEN first + After(rb.w, j)
                                    ELSE rb.buf[j]]
    BY CopyFields
  <1>3. i \in Slots /\ ByteAt(c, k) = c.buf[i] /\ ByteAt(rb, k) = rb.buf[i]
    <2>1. i \in Slots
      BY <1>1 DEF Slots
    <2>2. ByteAt(rb, k) = rb.buf[i]
      BY DEF ByteAt
    <2>3. ByteAt(c, k) = c.buf[IF c.r + k < RbSize THEN c.r + k ELSE c.r + k - RbSize]
      BY DEF ByteAt
    <2> HIDE DEF c
    <2>4. ByteAt(c, k) = c.buf[i]
      BY <1>2, <2>3
    <2> QED
      BY <2>1, <2>2, <2>4
  <1>4. k < DataLen(rb) => ~(After(rb.w, i) < n)
    BY <1>1 DEF After, DataLen, SpaceLen
  <1>5. DataLen(rb) <= k /\ k < DataLen(rb) + n => After(rb.w, i) = k - DataLen(rb)
    BY <1>1 DEF After, DataLen, SpaceLen
  <1>6. DataLen(rb) \in Int
    BY DataLenRange
  <1> HIDE DEF i, c
  <1>7. c.buf[i] = IF After(rb.w, i) < n THEN first + After(rb.w, i) ELSE rb.buf[i]
    BY <1>2, <1>3
  <1>8. k < DataLen(rb) => ByteAt(c, k) = ByteAt(rb, k)
    BY <1>3, <1>4, <1>7
  <1>9. DataLen(rb) <= k /\ k < DataLen(rb) + n => ByteAt(c, k) = first + k - DataLen(rb)
    BY <1>3, <1>5, <1>6, <1>7
  <1> QED
    BY <1>8, <1>9 DEF c

-----------------------------------------------------------------------------
(* The wait queues and the heap.                                             *)

\* rt_wqueue_wakeup resumes the thread whose node it takes out of a queue.
LEMMA WokenUp ==
    ASSUME PipeTypeOK, NEW r \in BOOLEAN, NEW w \in BOOLEAN, Wakeup(r, w)
    PROVE  /\ rflag' \in BOOLEAN /\ (rflag' <=> rflag \/ r)
           /\ wflag' \in BOOLEAN /\ (wflag' <=> wflag \/ w)
           /\ trig' \in BOOLEAN /\ (trig' <=> trig \/ (r /\ rnode = "poll"))
           /\ rnode' = (IF r THEN "none" ELSE rnode)
           /\ wnodes' \subseteq {"poll", "wait"}
           /\ susp' \subseteq {"R", "W", "H"} /\ heapQ' \subseteq {"R", "H"}
           /\ "R" \in susp' <=> "R" \in susp /\ ~(r /\ rnode # "none")
           /\ "W" \in susp' <=> "W" \in susp /\ ~(w /\ "wait" \in wnodes)
           /\ "wait" \in wnodes' <=> "wait" \in wnodes /\ ~w
  <1>1. rflag' \in BOOLEAN /\ (rflag' <=> rflag \/ r)
    BY Zenon DEF Wakeup
  <1>2. wflag' \in BOOLEAN /\ (wflag' <=> wflag \/ w)
    BY Zenon DEF Wakeup
  <1>3. trig' \in BOOLEAN /\ (trig' <=> trig \/ (r /\ rnode = "poll"))
    BY Zenon DEF Wakeup
  <1>4. /\ rnode' = (IF r THEN "none" ELSE rnode)
        /\ wnodes' \subseteq {"poll", "wait"}
        /\ susp' \subseteq {"R", "W", "H"} /\ heapQ' \subseteq {"R", "H"}
        /\ "wait" \in wnodes' <=> "wait" \in wnodes /\ ~w
    BY DEF Wakeup, PipeTypeOK
  <1>5. /\ "R" \in susp' <=> "R" \in susp /\ ~(r /\ rnode # "none")
        /\ "W" \in susp' <=> "W" \in susp /\ ~(w /\ "wait" \in wnodes)
    BY DEF Wakeup, Woken
  <1> QED
    BY <1>1, <1>2, <1>3, <1>4, <1>5

LEMMA HeapTaken ==
    ASSUME PipeTypeOK, NEW t \in {"R", "H"}, HeapTake(t)
    PROVE  /\ heap' \in Nat
           /\ susp' \subseteq {"R", "W", "H"} /\ heapQ' \subseteq {"R", "H"}
           /\ "R" \in susp' => "R" \in susp \/ t = "R"
           /\ "W" \in susp' <=> "W" \in susp
  <1>1. heap \in Nat /\ susp \subseteq {"R", "W", "H"} /\ heapQ \subseteq {"R", "H"}
    BY DEF PipeTypeOK
  <1>2. CASE heap > 0
    <2>1. heap' = heap - 1 /\ heapQ' = heapQ /\ susp' = susp
      BY <1>2, Zenon DEF HeapTake
    <2> QED
      BY <1>1, <1>2, <2>1
  <1>3. CASE ~(heap > 0)
    <2>1. heap' = heap /\ heapQ' = heapQ \union {t} /\ susp' = susp \union {t}
      BY <1>3, Zenon DEF HeapTake
    <2> QED
      BY <1>1, <2>1
  <1> QED
    BY <1>2, <1>3

LEMMA HeapReleased ==
    ASSUME PipeTypeOK, HeapRelease
    PROVE  /\ heap' \in Nat
           /\ susp' \subseteq {"R", "W", "H"} /\ heapQ' \subseteq {"R", "H"}
           /\ "R" \in susp' => "R" \in susp
           /\ "W" \in susp' <=> "W" \in susp
  <1>1. heap \in Nat /\ susp \subseteq {"R", "W", "H"} /\ heapQ \subseteq {"R", "H"}
    BY DEF PipeTypeOK
  <1>2. CASE heapQ = {} /\ heap' = heap + 1 /\ UNCHANGED <<heapQ, susp>>
    BY <1>1, <1>2
  <1>3. ASSUME NEW t \in heapQ, heapQ' = heapQ \ {t}, susp' = susp \ {t}, heap' = heap
        PROVE  /\ heap' \in Nat
               /\ susp' \subseteq {"R", "W", "H"} /\ heapQ' \subseteq {"R", "H"}
               /\ "R" \in susp' => "R" \in susp
               /\ "W" \in susp' <=> "W" \in susp
    BY <1>1, <1>3
  <1> QED
    BY <1>2, <1>3 DEF HeapRelease

-----------------------------------------------------------------------------
(* Types.                                                                    *)

\* The put under way is no longer than the buffer.
LEMMA PartFits == PipeInv => Settled \in Rings /\ part \in 0..RbSize
  <1> SUFFICES ASSUME PipeInv PROVE Settled \in Rings /\ part \in 0..RbSize
    OBVIOUS
  <1>1. fifo \in Rings /\ part \in Nat /\ part <= SpaceLen(Settled)
    BY DEF PipeInv, PipeTypeOK, Content
  <1>2. Settled \in Rings
    BY <1>1 DEF Settled, FlipWrite, Rings
  <1> QED
    BY <1>1, <1>2, DataLenRange, RingBufferOK

LEMMA PipeStepTypes == PipeInv /\ [PipeNext]_pipeVars => PipeTypeOK'
  <1> SUFFICES ASSUME PipeInv, [PipeNext]_pipeVars PROVE PipeTypeOK'
    OBVIOUS
  <1>0. PipeTypeOK /\ Locking
    BY DEF PipeInv
  <1> USE <1>0 DEF PipeTypeOK, RSteps, WSteps, qVars, rVars, wVars
  <1>1. CASE PollBegin
    <2>1. trig' \in BOOLEAN /\ timeout' \in BOOLEAN
      BY <1>1, Zenon DEF PollBegin
    <2> QED
      BY <1>1, <2>1 DEF PollBegin
  <1>2. ASSUME NEW from, NEW to, PollHeap(from, to),
              <<from, to>> \in {<<"add1", "in1">>, <<"add2", "in2">>,
                              <<"free2", "out2">>, <<"free1", "out1">>}
       PROVE  PipeTypeOK'
    BY <1>2, HeapTaken DEF PollHeap
  <1>3. ASSUME NEW from, NEW to, PollHeapDone(from, to),
              <<from, to>> \in {<<"in1", "add2">>, <<"in2", "check">>, <<"out2", "free1">>,
                              <<"out1", IF ready THEN "read" ELSE "idle">>}
       PROVE  PipeTypeOK'
    BY <1>3, HeapReleased DEF PollHeapDone, Running
  <1>4. CASE PollCheck
    <2>1. ready' \in BOOLEAN
      BY <1>4, Zenon DEF PollCheck, PollMask
    <2>2. rPc' \in RSteps
      BY <1>4 DEF PollCheck
    <2> QED
      BY <1>4, <2>1, <2>2 DEF PollCheck
  <1>5. CASE PollWait
    <2>1. susp' \subseteq {"R", "W", "H"} /\ rPc' \in RSteps
      BY <1>5 DEF PollWait
    <2> QED
      BY <1>5, <2>1 DEF PollWait
  <1>6. CASE PollTimeout
    BY <1>6 DEF PollTimeout
  <1>7. CASE PollWoke
    <2>1. timeout' \in BOOLEAN
      BY <1>7, Zenon DEF PollWoke
    <2> QED
      BY <1>7, <2>1 DEF PollWoke
  <1>8. CASE PlainRead
    <2>1. ready' \in BOOLEAN
      BY <1>8, Zenon DEF PlainRead
    <2> QED
      BY <1>8, <2>1 DEF PlainRead
  <1>9. CASE ReadBegin
    BY <1>9 DEF ReadBegin
  <1>10. CASE ReadTake
    BY <1>10 DEF ReadTake
  <1>11. CASE ReadGet
    <2> DEFINE n == Least(DataLen(fifo), ReadMax)
    <2>1. n \in 0..RbSize
      BY DataLenRange, RingBufferOK, PipeOK DEF Least
    <2> HIDE DEF n
    <2>2. fifo' \in Rings
      BY <1>11, <2>1, RingTypes DEF ReadGet, n
    <2>3. rseq' \in Nat
      BY <1>11, <2>1, RingBufferOK DEF ReadGet, n
    <2>4. rPc' \in RSteps /\ lock' \in {"none", "R", "W"}
      BY <1>11 DEF ReadGet
    <2> QED
      BY <1>11, <2>2, <2>3, <2>4 DEF ReadGet
  <1>12. CASE ReadEof
    BY <1>12 DEF ReadEof
  <1>13. CASE ReadGot
    <2>1. Wakeup(FALSE, TRUE)
      BY <1>13 DEF ReadGot
    <2>2. /\ rflag' \in BOOLEAN /\ wflag' \in BOOLEAN /\ trig' \in BOOLEAN
          /\ rnode' \in {"none", "poll", "wait"} /\ wnodes' \subseteq {"poll", "wait"}
          /\ susp' \subseteq {"R", "W", "H"} /\ heapQ' \subseteq {"R", "H"}
      BY <1>13, <2>1, WokenUp
    <2> QED
      BY <1>13, <2>1, <2>2 DEF ReadGot
  <1>14. CASE ReadEmpty
    <2>1. Wakeup(FALSE, TRUE)
      BY <1>14 DEF ReadEmpty
    <2>2. /\ rflag' \in BOOLEAN /\ wflag' \in BOOLEAN /\ trig' \in BOOLEAN
          /\ rnode' \in {"none", "poll", "wait"} /\ wnodes' \subseteq {"poll", "wait"}
          /\ susp' \subseteq {"R", "W", "H"} /\ heapQ' \subseteq {"R", "H"}
      BY <1>14, <2>1, WokenUp
    <2> QED
      BY <1>14, <2>1, <2>2 DEF ReadEmpty
  <1>15. CASE ReadWait
    <2>1. susp' \subseteq {"R", "W", "H"} /\ rnode' \in {"none", "poll", "wait"}
      BY <1>15 DEF ReadWait
    <2> QED
      BY <1>15, <2>1 DEF ReadWait
  <1>16. CASE ReadWoken
    <2>1. rflag' \in BOOLEAN
      BY <1>16, Zenon DEF ReadWoken
    <2> QED
      BY <1>16, <2>1 DEF ReadWoken
  <1>17. CASE ReaderEnds
    BY <1>17 DEF ReaderEnds
  <1>18. CASE CloseRead
    <2>1. (writers = 0) \in BOOLEAN /\ Wakeup(writers = 0, TRUE)
      BY <1>18, Zenon DEF CloseRead
    <2>2. /\ rflag' \in BOOLEAN /\ wflag' \in BOOLEAN /\ trig' \in BOOLEAN
          /\ rnode' \in {"none", "poll", "wait"} /\ wnodes' \subseteq {"poll", "wait"}
          /\ susp' \subseteq {"R", "W", "H"} /\ heapQ' \subseteq {"R", "H"}
      BY <1>18, <2>1, WokenUp
    <2> QED
      BY <1>18, <2>1, <2>2 DEF CloseRead
  <1>19. CASE WriteTake
    BY <1>19 DEF WriteTake
  <1>20. CASE WritePut
    <2>1. part' \in 0..RbSize /\ wseq + 1 \in Nat
      BY <1>20, DataLenRange, RingBufferOK DEF WritePut, Least
    <2>2. CopyIn(fifo, wseq + 1, part') \in Rings
      BY <2>1, RingTypes
    <2>3. fifo' \in Rings
      BY <1>20, <2>1, <2>2, RingTypes DEF WritePut
    <2> QED
      BY <1>20, <2>1, <2>3, RingBufferOK DEF WritePut
  <1>21. CASE WriteIndex
    <2>1. part \in 0..RbSize /\ part <= left
      BY PartFits DEF Locking
    <2>2. fifo' \in Rings
      BY <1>21, <2>1, RingTypes DEF WriteIndex
    <2>3. wseq' \in Nat /\ left' \in Nat /\ part' \in Nat
      BY <1>21, <2>1 DEF WriteIndex
    <2> QED
      BY <1>21, <2>2, <2>3 DEF WriteIndex
  <1>22. CASE WriteBroken
    BY <1>22 DEF WriteBroken
  <1>23. CASE WriteAfter
    BY <1>23 DEF WriteAfter
  <1>24. CASE WriteWake
    <2>1. Wakeup(TRUE, FALSE)
      BY <1>24 DEF WriteWake
    <2>2. /\ rflag' \in BOOLEAN /\ wflag' \in BOOLEAN /\ trig' \in BOOLEAN
          /\ rnode' \in {"none", "poll", "wait"} /\ wnodes' \subseteq {"poll", "wait"}
          /\ susp' \subseteq {"R", "W", "H"} /\ heapQ' \subseteq {"R", "H"}
      BY <1>24, <2>1, WokenUp
    <2> QED
      BY <1>24, <2>1, <2>2 DEF WriteWake
  <1>25. CASE WriteWait
    <2>1. susp' \subseteq {"R", "W", "H"} /\ wnodes' \subseteq {"poll", "wait"}
      BY <1>25 DEF WriteWait
    <2> QED
      BY <1>25, <2>1 DEF WriteWait
  <1>26. CASE WriteWoken
    <2>1. wflag' \in BOOLEAN
      BY <1>26, Zenon DEF WriteWoken
    <2> QED
      BY <1>26, <2>1 DEF WriteWoken
  <1>27. CASE CloseWrite
    <2>1. (readers = 0) \in BOOLEAN /\ Wakeup(TRUE, readers = 0)
      BY <1>27, Zenon DEF CloseWrite
    <2>2. /\ rflag' \in BOOLEAN /\ wflag' \in BOOLEAN /\ trig' \in BOOLEAN
          /\ rnode' \in {"none", "poll", "wait"} /\ wnodes' \subseteq {"poll", "wait"}
          /\ susp' \subseteq {"R", "W", "H"} /\ heapQ' \subseteq {"R", "H"}
      BY <1>27, <2>1, WokenUp
    <2> QED
      BY <1>27, <2>1, <2>2 DEF CloseWrite
  <1>28. CASE HeapUse
    BY <1>28, HeapTaken DEF HeapUse
  <1>29. CASE HeapDone
    BY <1>29, HeapReleased DEF HeapDone
  <1>30. ASSUME NEW n \in WriteLens, WriteBegin(n) PROVE PipeTypeOK'
    <2>1. wakeup' \in BOOLEAN
      BY <1>30, Zenon DEF WriteBegin
    <2>2. left' \in Nat
      BY <1>30, PipeOK DEF WriteBegin
    <2> QED
      BY <1>30, <2>1, <2>2 DEF WriteBegin
  <1>31. CASE UNCHANGED pipeVars
    BY <1>31 DEF pipeVars
  <1> QED
    BY <1>1, <1>2, <1>3, <1>4, <1>5, <1>6, <1>7, <1>8, <1>9, <1>10, <1>11, <1>12, <1>13,
       <1>14, <1>15, <1>16, <1>17, <1>18, <1>19, <1>20, <1>21, <1>22, <1>23, <1>24, <1>25,
       <1>26, <1>27, <1>28, <1>29, <1>30, <1>31
    DEF PipeNext, RNext, WStep, PollAdd, PollTeardown

LEMMA PipeStepLocking == PipeInv /\ [PipeNext]_pipeVars => Locking'
  <1> SUFFICES ASSUME PipeInv, [PipeNext]_pipeVars PROVE Locking'
    OBVIOUS
  <1>0. PipeTypeOK /\ Locking
    BY DEF PipeInv
  <1> USE <1>0 DEF Locking, qVars, rVars, wVars
  <1>1. CASE PollBegin
    BY <1>1 DEF PollBegin
  <1>2. ASSUME NEW from, NEW to, PollHeap(from, to),
              <<from, to>> \in {<<"add1", "in1">>, <<"add2", "in2">>,
                              <<"free2", "out2">>, <<"free1", "out1">>}
       PROVE  Locking'
    BY <1>2, HeapTaken DEF PollHeap
  <1>3. ASSUME NEW from, NEW to, PollHeapDone(from, to),
              <<from, to>> \in {<<"in1", "add2">>, <<"in2", "check">>, <<"out2", "free1">>,
                              <<"out1", IF ready THEN "read" ELSE "idle">>}
       PROVE  Locking'
    BY <1>3, HeapReleased DEF PollHeapDone, Running
  <1>4. CASE PollCheck
    BY <1>4 DEF PollCheck
  <1>5. CASE PollWait
    BY <1>5 DEF PollWait
  <1>6. CASE PollTimeout
    BY <1>6 DEF PollTimeout
  <1>7. CASE PollWoke
    BY <1>7 DEF PollWoke, Running
  <1>8. CASE PlainRead
    BY <1>8 DEF PlainRead
  <1>9. CASE ReadBegin
    BY <1>9 DEF ReadBegin
  <1>10. CASE ReadTake
    BY <1>10 DEF ReadTake
  <1>11. CASE ReadGet
    BY <1>11 DEF ReadGet
  <1>12. CASE ReadEof
    BY <1>12 DEF ReadEof
  <1>13. CASE ReadGot
    BY <1>13, WokenUp DEF ReadGot
  <1>14. CASE ReadEmpty
    BY <1>14, WokenUp DEF ReadEmpty
  <1>15. CASE ReadWait
    BY <1>15 DEF ReadWait
  <1>16. CASE ReadWoken
    BY <1>16 DEF ReadWoken, Running
  <1>17. CASE ReaderEnds
    BY <1>17 DEF ReaderEnds
  <1>18. CASE CloseRead
    BY <1>18, WokenUp DEF CloseRead
  <1>19. CASE WriteTake
    BY <1>19 DEF WriteTake
  <1>20. CASE WritePut
    <2>1. part' <= left /\ left' = left
      BY <1>20, DataLenRange, RingBufferOK DEF WritePut, Least, PipeTypeOK
    <2> QED
      BY <1>20, <2>1 DEF WritePut
  <1>21. CASE WriteIndex
    <2>1. part' <= left' /\ part' = 0
      BY <1>21 DEF WriteIndex, PipeTypeOK
    <2> QED
      BY <1>21, <2>1 DEF WriteIndex
  <1>22. CASE WriteBroken
    BY <1>22 DEF WriteBroken
  <1>23. CASE WriteAfter
    BY <1>23 DEF WriteAfter
  <1>24. CASE WriteWake
    BY <1>24, WokenUp DEF WriteWake
  <1>25. CASE WriteWait
    BY <1>25 DEF WriteWait
  <1>26. CASE WriteWoken
    BY <1>26 DEF WriteWoken, Running
  <1>27. CASE CloseWrite
    BY <1>27, WokenUp DEF CloseWrite
  <1>28. CASE HeapUse
    BY <1>28, HeapTaken DEF HeapUse
  <1>29. CASE HeapDone
    BY <1>29, HeapReleased DEF HeapDone
  <1>30. ASSUME NEW n \in WriteLens, WriteBegin(n) PROVE Locking'
    <2>1. part' <= left' /\ part' = 0
      BY <1>30, PipeOK DEF WriteBegin
    <2> QED
      BY <1>30, <2>1 DEF WriteBegin
  <1>31. CASE UNCHANGED pipeVars
    BY <1>31 DEF pipeVars
  <1> QED
    BY <1>1, <1>2, <1>3, <1>4, <1>5, <1>6, <1>7, <1>8, <1>9, <1>10, <1>11, <1>12, <1>13,
       <1>14, <1>15, <1>16, <1>17, <1>18, <1>19, <1>20, <1>21, <1>22, <1>23, <1>24, <1>25,
       <1>26, <1>27, <1>28, <1>29, <1>30, <1>31
    DEF PipeNext, RNext, WStep, PollAdd, PollTeardown

LEMMA PipeStepNodes == PipeInv /\ [PipeNext]_pipeVars => Nodes'
  <1> SUFFICES ASSUME PipeInv, [PipeNext]_pipeVars PROVE Nodes'
    OBVIOUS
  <1>0. PipeTypeOK /\ Nodes
    BY DEF PipeInv
  <1> USE <1>0 DEF Nodes, InHeap, qVars, rVars, wVars
  <1>1. CASE PollBegin
    BY <1>1 DEF PollBegin
  <1>2. ASSUME NEW from, NEW to, PollHeap(from, to),
              <<from, to>> \in {<<"add1", "in1">>, <<"add2", "in2">>,
                              <<"free2", "out2">>, <<"free1", "out1">>}
       PROVE  Nodes'
    BY <1>2, HeapTaken DEF PollHeap
  <1>3. ASSUME NEW from, NEW to, PollHeapDone(from, to),
              <<from, to>> \in {<<"in1", "add2">>, <<"in2", "check">>, <<"out2", "free1">>,
                              <<"out1", IF ready THEN "read" ELSE "idle">>}
       PROVE  Nodes'
    BY <1>3, HeapReleased DEF PollHeapDone, Running
  <1>4. CASE PollCheck
    BY <1>4 DEF PollCheck
  <1>5. CASE PollWait
    BY <1>5 DEF PollWait
  <1>6. CASE PollTimeout
    BY <1>6 DEF PollTimeout
  <1>7. CASE PollWoke
    BY <1>7 DEF PollWoke, Running
  <1>8. CASE PlainRead
    BY <1>8 DEF PlainRead
  <1>9. CASE ReadBegin
    BY <1>9 DEF ReadBegin
  <1>10. CASE ReadTake
    BY <1>10 DEF ReadTake
  <1>11. CASE ReadGet
    BY <1>11 DEF ReadGet
  <1>12. CASE ReadEof
    BY <1>12 DEF ReadEof
  <1>13. CASE ReadGot
    BY <1>13, WokenUp DEF ReadGot
  <1>14. CASE ReadEmpty
    BY <1>14, WokenUp DEF ReadEmpty
  <1>15. CASE ReadWait
    BY <1>15 DEF ReadWait
  <1>16. CASE ReadWoken
    BY <1>16 DEF ReadWoken, Running
  <1>17. CASE ReaderEnds
    BY <1>17 DEF ReaderEnds
  <1>18. CASE CloseRead
    BY <1>18, WokenUp DEF CloseRead
  <1>19. CASE WriteTake
    BY <1>19 DEF WriteTake
  <1>20. CASE WritePut
    BY <1>20 DEF WritePut
  <1>21. CASE WriteIndex
    BY <1>21 DEF WriteIndex
  <1>22. CASE WriteBroken
    BY <1>22 DEF WriteBroken
  <1>23. CASE WriteAfter
    BY <1>23 DEF WriteAfter
  <1>24. CASE WriteWake
    BY <1>24, WokenUp DEF WriteWake
  <1>25. CASE WriteWait
    BY <1>25 DEF WriteWait
  <1>26. CASE WriteWoken
    BY <1>26 DEF WriteWoken, Running
  <1>27. CASE CloseWrite
    BY <1>27, WokenUp DEF CloseWrite
  <1>28. CASE HeapUse
    BY <1>28, HeapTaken DEF HeapUse
  <1>29. CASE HeapDone
    BY <1>29, HeapReleased DEF HeapDone
  <1>30. ASSUME NEW n \in WriteLens, WriteBegin(n) PROVE Nodes'
    BY <1>30 DEF WriteBegin
  <1>31. CASE UNCHANGED pipeVars
    BY <1>31 DEF pipeVars
  <1> QED
    BY <1>1, <1>2, <1>3, <1>4, <1>5, <1>6, <1>7, <1>8, <1>9, <1>10, <1>11, <1>12, <1>13,
       <1>14, <1>15, <1>16, <1>17, <1>18, <1>19, <1>20, <1>21, <1>22, <1>23, <1>24, <1>25,
       <1>26, <1>27, <1>28, <1>29, <1>30, <1>31
    DEF PipeNext, RNext, WStep, PollAdd, PollTeardown

-----------------------------------------------------------------------------
(* The bytes.                                                                *)

\* Outside a put, the ring buffer holds what was written and not yet read.
LEMMA Clean ==
    ASSUME PipeInv, part = 0
    PROVE  /\ Settled = fifo /\ fifo \in Rings /\ Mirrored(fifo)
           /\ DataLen(fifo) = wseq - rseq /\ DataLen(fifo) \in 0..RbSize
           /\ SpaceLen(fifo) = RbSize - (wseq - rseq)
           /\ wseq \in Nat /\ rseq \in Nat /\ RbSize \in Nat /\ RbSize >= 1
  <1>1. Settled = fifo
    BY DEF Settled
  <1>2. fifo \in Rings /\ wseq \in Nat /\ rseq \in Nat
    BY DEF PipeInv, PipeTypeOK
  <1>3. Mirrored(fifo) /\ DataLen(fifo) = wseq - rseq
    BY <1>1 DEF PipeInv, Content
  <1> QED
    BY <1>1, <1>2, <1>3, DataLenRange, RingBufferOK DEF SpaceLen

LEMMA ContentFrame ==
    ASSUME Content, UNCHANGED <<fifo, wseq, rseq, part>>,
           (wPc' = "index" <=> wPc = "index") \/ part = 0
    PROVE  Content'
  <1>1. Settled' = Settled
    BY DEF Settled
  <1>2. DataLen(Settled)' = DataLen(Settled) /\ SpaceLen(Settled)' = SpaceLen(Settled)
    BY <1>1 DEF DataLen, SpaceLen
  <1>3. Mirrored(Settled)' <=> Mirrored(Settled)
    BY <1>1 DEF Mirrored
  <1>4. \A k \in 0..(RbSize - 1) : ByteAt(fifo, k)' = ByteAt(fifo, k)
    BY DEF ByteAt
  <1> QED
    BY <1>2, <1>3, <1>4 DEF Content

LEMMA ContentGet == PipeInv /\ ReadGet => Content'
  <1> SUFFICES ASSUME PipeInv, ReadGet PROVE Content'
    OBVIOUS
  <1> DEFINE n == Least(DataLen(fifo), ReadMax)
  <1>1. wPc # "index" /\ part = 0
    BY DEF PipeInv, Locking, ReadGet
  <1>2. wPc' = wPc /\ part' = 0 /\ wseq' = wseq
    BY <1>1 DEF ReadGet, wVars
  <1>3. n \in Nat /\ n <= DataLen(fifo) /\ n <= RbSize
    BY <1>1, Clean, PipeOK DEF Least
  <1>4. CASE n > 0
    <2>1. fifo' = Drop(fifo, n) /\ rseq' = rseq + n
      BY <1>4 DEF ReadGet
    <2> HIDE DEF n
    <2>2. fifo' \in Rings
      BY <1>1, <1>3, <2>1, Clean, RingTypes
    <2>3. Settled' = fifo'
      BY <1>2 DEF Settled
    <2>4. Mirrored(fifo') /\ DataLen(fifo') = wseq' - rseq'
      BY <1>1, <1>2, <1>3, <1>4, <2>1, Clean, DropEnds
    <2>5. part' <= SpaceLen(fifo')
      BY <1>2, <2>2, DataLenRange
    <2>6. ASSUME NEW k \in 0..(RbSize - 1), k < wseq' + part' - rseq'
          PROVE  ByteAt(fifo', k) = rseq' + 1 + k
      <3>1. k + n < wseq - rseq /\ k + n \in 0..(RbSize - 1) /\ k \in Nat
        BY <1>1, <1>2, <1>3, <2>1, <2>6, Clean
      <3>2. ByteAt(fifo', k) = ByteAt(fifo, k + n)
        BY <1>1, <1>3, <2>1, <3>1, Clean, DropBytes
      <3>3. ByteAt(fifo, k + n) = rseq + 1 + (k + n)
        BY <1>1, <3>1, Clean DEF PipeInv, Content
      <3> QED
        BY <1>1, <1>3, <2>1, <3>1, <3>2, <3>3, Clean
    <2>7. Mirrored(Settled)' /\ DataLen(Settled)' = wseq' - rseq' /\ part' <= SpaceLen(Settled)'
      BY <2>3, <2>4, <2>5 DEF Mirrored, DataLen, SpaceLen
    <2> QED
      BY <2>6, <2>7 DEF Content, ByteAt
  <1>5. CASE ~(n > 0)
    <2>1. UNCHANGED <<fifo, rseq>>
      BY <1>5 DEF ReadGet
    <2> QED
      BY <1>1, <1>2, <2>1, ContentFrame DEF PipeInv
  <1> QED
    BY <1>4, <1>5

LEMMA ContentPut == PipeInv /\ WritePut => Content'
  <1> SUFFICES ASSUME PipeInv, WritePut PROVE Content'
    OBVIOUS
  <1>1. wPc = "put" /\ part = 0 /\ wPc' = "index" /\ UNCHANGED <<wseq, rseq, left>>
    BY DEF PipeInv, Locking, WritePut
  <1>2. /\ part' \in 0..RbSize /\ part' \in Nat /\ part' <= SpaceLen(fifo)
        /\ wseq + 1 \in Nat
    BY <1>1, Clean DEF WritePut, Least, PipeInv, PipeTypeOK
  <1>3. CASE part' = 0
    <2>1. fifo' = fifo
      BY <1>3 DEF WritePut
    <2> QED
      BY <1>1, <1>3, <2>1, ContentFrame DEF PipeInv
  <1>4. CASE part' # 0
    <2> DEFINE c == CopyIn(fifo, wseq + 1, part')
    <2>1. c \in Rings /\ fifo \in Rings
      BY <1>1, <1>2, Clean, RingTypes
    <2>2. fifo' = FlipWrite(c, part')
      BY <1>4 DEF WritePut
    <2>3. c.r = fifo.r /\ c.w = fifo.w /\ c.rm = fifo.rm /\ c.wm = fifo.wm
      BY <1>2, <2>1, CopyFields
    <2> HIDE DEF c
    <2>4. fifo' \in Rings /\ FlipWrite(fifo', part') \in Rings
      BY <1>2, <2>1, <2>2, RingTypes
    <2>5. Settled' = FlipWrite(fifo', part')
      BY <1>1, <1>2, <1>4 DEF Settled, FlipWrite, Crosses
    <2>6. /\ FlipWrite(fifo', part').r = fifo.r /\ FlipWrite(fifo', part').w = fifo.w
          /\ FlipWrite(fifo', part').rm = fifo.rm
      BY <1>2, <2>1, <2>2, <2>3, <2>4, RingFields
    <2>7. FlipWrite(fifo', part').wm = fifo.wm
      BY <1>2, <2>1, <2>2, <2>3, FlipTwice
    <2>8. /\ DataLen(FlipWrite(fifo', part')) = DataLen(fifo)
          /\ Mirrored(FlipWrite(fifo', part'))
      BY <1>1, <2>4, <2>6, <2>7, Clean, SameEnds
    <2>9. /\ Mirrored(Settled)' /\ DataLen(Settled)' = wseq' - rseq'
          /\ part' <= SpaceLen(Settled)'
      BY <1>1, <1>2, <2>5, <2>8, Clean DEF Mirrored, DataLen, SpaceLen
    <2>10. ASSUME NEW k \in 0..(RbSize - 1), k < wseq' + part' - rseq'
           PROVE  ByteAt(fifo', k) = rseq' + 1 + k
      <3>1. ByteAt(fifo', k) = ByteAt(c, k)
        BY <1>2, <2>1, <2>2, RingFields DEF ByteAt
      <3>2. /\ k < DataLen(fifo) => ByteAt(c, k) = ByteAt(fifo, k)
            /\ DataLen(fifo) <= k /\ k < DataLen(fifo) + part'
                  => ByteAt(c, k) = wseq + 1 + k - DataLen(fifo)
        BY <1>1, <1>2, Clean, CopyBytes DEF c
      <3>3. k < wseq - rseq => ByteAt(fifo, k) = rseq + 1 + k
        BY <1>1, Clean DEF PipeInv, Content
      <3>4. CASE k < DataLen(fifo)
        BY <1>1, <3>1, <3>2, <3>3, <3>4, Clean
      <3>5. CASE ~(k < DataLen(fifo))
        BY <1>1, <1>2, <2>10, <3>1, <3>2, <3>5, Clean
      <3> QED
        BY <3>4, <3>5
    <2> QED
      BY <2>9, <2>10 DEF Content, ByteAt
  <1> QED
    BY <1>3, <1>4

LEMMA ContentIndex == PipeInv /\ WriteIndex => Content'
  <1> SUFFICES ASSUME PipeInv, WriteIndex PROVE Content'
    OBVIOUS
  <1>1. /\ wPc = "index" /\ wPc' = "after" /\ part' = 0
        /\ wseq' = wseq + part /\ rseq' = rseq
    BY DEF WriteIndex
  <1>2. fifo \in Rings /\ wseq \in Nat /\ rseq \in Nat /\ part \in Nat /\ Content
    BY DEF PipeInv, PipeTypeOK
  <1>3. CASE part = 0
    <2>1. fifo' = fifo
      BY <1>3 DEF WriteIndex
    <2> QED
      BY <1>1, <1>2, <1>3, <2>1, ContentFrame
  <1>4. CASE part > 0
    <2>1. fifo' = MoveWrite(fifo, part) /\ Settled = FlipWrite(fifo, part)
      BY <1>1, <1>4 DEF WriteIndex, Settled
    <2>2. fifo' \in Rings
      BY <1>2, <2>1, PartFits, RingTypes
    <2>3. Settled' = fifo'
      BY <1>1 DEF Settled
    <2>4. Mirrored(fifo') /\ DataLen(fifo') = wseq' - rseq'
      <3>1. /\ Mirrored(FlipWrite(fifo, part)) /\ DataLen(FlipWrite(fifo, part)) = wseq - rseq
            /\ part <= SpaceLen(FlipWrite(fifo, part))
        BY <1>2, <2>1 DEF Content
      <3>2. Mirrored(fifo') /\ DataLen(fifo') = DataLen(FlipWrite(fifo, part)) + part
        BY <1>2, <1>4, <2>1, <3>1, PutEnds
      <3> QED
        BY <1>1, <1>2, <3>1, <3>2
    <2>5. part' <= SpaceLen(fifo')
      BY <1>1, <2>2, DataLenRange
    <2>6. ASSUME NEW k \in 0..(RbSize - 1), k < wseq' + part' - rseq'
          PROVE  ByteAt(fifo', k) = rseq' + 1 + k
      <3>1. ByteAt(fifo', k) = ByteAt(fifo, k)
        BY <1>2, <2>1, RingFields DEF ByteAt
      <3>2. k < wseq + part - rseq
        BY <1>1, <1>2, <2>6
      <3> QED
        BY <1>1, <1>2, <3>1, <3>2 DEF Content
    <2>7. Mirrored(Settled)' /\ DataLen(Settled)' = wseq' - rseq' /\ part' <= SpaceLen(Settled)'
      BY <2>3, <2>4, <2>5 DEF Mirrored, DataLen, SpaceLen
    <2> QED
      BY <2>6, <2>7 DEF Content, ByteAt
  <1> QED
    BY <1>2, <1>3, <1>4

LEMMA PipeStepContent == PipeInv /\ [PipeNext]_pipeVars => Content'
  <1> SUFFICES ASSUME PipeInv, [PipeNext]_pipeVars PROVE Content'
    OBVIOUS
  <1>0. Content /\ (wPc # "index" => part = 0)
    BY DEF PipeInv, Locking
  <1> USE <1>0 DEF wVars
  <1>1. CASE PollBegin
    BY <1>1, ContentFrame DEF PollBegin
  <1>2. ASSUME NEW from, NEW to, PollHeap(from, to),
              <<from, to>> \in {<<"add1", "in1">>, <<"add2", "in2">>,
                              <<"free2", "out2">>, <<"free1", "out1">>}
       PROVE  Content'
    BY <1>2, ContentFrame DEF PollHeap
  <1>3. ASSUME NEW from, NEW to, PollHeapDone(from, to),
              <<from, to>> \in {<<"in1", "add2">>, <<"in2", "check">>, <<"out2", "free1">>,
                              <<"out1", IF ready THEN "read" ELSE "idle">>}
       PROVE  Content'
    BY <1>3, ContentFrame DEF PollHeapDone
  <1>4. CASE PollCheck
    BY <1>4, ContentFrame DEF PollCheck
  <1>5. CASE PollWait
    BY <1>5, ContentFrame DEF PollWait
  <1>6. CASE PollTimeout
    BY <1>6, ContentFrame DEF PollTimeout
  <1>7. CASE PollWoke
    BY <1>7, ContentFrame DEF PollWoke
  <1>8. CASE PlainRead
    BY <1>8, ContentFrame DEF PlainRead
  <1>9. CASE ReadBegin
    BY <1>9, ContentFrame DEF ReadBegin
  <1>10. CASE ReadTake
    BY <1>10, ContentFrame DEF ReadTake
  <1>11. CASE ReadGet
    BY <1>11, ContentGet
  <1>12. CASE ReadEof
    BY <1>12, ContentFrame DEF ReadEof
  <1>13. CASE ReadGot
    BY <1>13, ContentFrame DEF ReadGot
  <1>14. CASE ReadEmpty
    BY <1>14, ContentFrame DEF ReadEmpty
  <1>15. CASE ReadWait
    BY <1>15, ContentFrame DEF ReadWait
  <1>16. CASE ReadWoken
    BY <1>16, ContentFrame DEF ReadWoken
  <1>17. CASE ReaderEnds
    BY <1>17, ContentFrame DEF ReaderEnds
  <1>18. CASE CloseRead
    BY <1>18, ContentFrame DEF CloseRead
  <1>19. CASE WriteTake
    BY <1>19, ContentFrame DEF WriteTake
  <1>20. CASE WritePut
    BY <1>20, ContentPut
  <1>21. CASE WriteIndex
    BY <1>21, ContentIndex
  <1>22. CASE WriteBroken
    BY <1>22, ContentFrame DEF WriteBroken
  <1>23. CASE WriteAfter
    BY <1>23, ContentFrame DEF WriteAfter
  <1>24. CASE WriteWake
    BY <1>24, ContentFrame DEF WriteWake
  <1>25. CASE WriteWait
    BY <1>25, ContentFrame DEF WriteWait
  <1>26. CASE WriteWoken
    BY <1>26, ContentFrame DEF WriteWoken, Running
  <1>27. CASE CloseWrite
    BY <1>27, ContentFrame DEF CloseWrite
  <1>28. CASE HeapUse
    BY <1>28, ContentFrame DEF HeapUse
  <1>29. CASE HeapDone
    BY <1>29, ContentFrame DEF HeapDone
  <1>30. ASSUME NEW n \in WriteLens, WriteBegin(n) PROVE Content'
    BY <1>30, ContentFrame DEF WriteBegin
  <1>31. CASE UNCHANGED pipeVars
    BY <1>31, ContentFrame DEF pipeVars
  <1> QED
    BY <1>1, <1>2, <1>3, <1>4, <1>5, <1>6, <1>7, <1>8, <1>9, <1>10, <1>11, <1>12, <1>13,
       <1>14, <1>15, <1>16, <1>17, <1>18, <1>19, <1>20, <1>21, <1>22, <1>23, <1>24, <1>25,
       <1>26, <1>27, <1>28, <1>29, <1>30, <1>31
    DEF PipeNext, RNext, WStep, PollAdd, PollTeardown

-----------------------------------------------------------------------------
(* The wake-ups.                                                             *)

\* Nothing is read that was not written.
LEMMA Ordered == PipeInv => wseq \in Nat /\ rseq \in Nat /\ rseq <= wseq
  <1> SUFFICES ASSUME PipeInv PROVE wseq \in Nat /\ rseq \in Nat /\ rseq <= wseq
    OBVIOUS
  <1>1. wseq \in Nat /\ rseq \in Nat /\ DataLen(Settled) = wseq - rseq
    BY DEF PipeInv, PipeTypeOK, Content
  <1> QED
    BY <1>1, PartFits, DataLenRange, RingBufferOK

LEMMA PipeStepReader == PipeInv /\ [PipeNext]_pipeVars => ReaderTold'
  <1> SUFFICES ASSUME PipeInv, [PipeNext]_pipeVars PROVE ReaderTold'
    OBVIOUS
  <1>0. PipeTypeOK /\ Locking /\ Nodes /\ ReaderTold
    BY DEF PipeInv
  <1> USE <1>0 DEF Nodes, InHeap, ReaderTold, NothingToRead, WriterWillWake, qVars, rVars, wVars
  <1>1. CASE PollBegin
    BY <1>1 DEF PollBegin
  <1>2. ASSUME NEW from, NEW to, PollHeap(from, to),
              <<from, to>> \in {<<"add1", "in1">>, <<"add2", "in2">>,
                              <<"free2", "out2">>, <<"free1", "out1">>}
       PROVE  ReaderTold'
    BY <1>2, HeapTaken DEF PollHeap
  <1>3. ASSUME NEW from, NEW to, PollHeapDone(from, to),
              <<from, to>> \in {<<"in1", "add2">>, <<"in2", "check">>, <<"out2", "free1">>,
                              <<"out1", IF ready THEN "read" ELSE "idle">>}
       PROVE  ReaderTold'
    BY <1>3, HeapReleased DEF PollHeapDone, Running
  <1>4. CASE PollCheck
    <2>1. ~PollMask /\ wPc # "index" => wseq = rseq /\ writers = 1
      BY Clean DEF PollMask, Locking, PipeTypeOK
    <2> QED
      BY <1>4, <2>1 DEF PollCheck
  <1>5. CASE PollWait
    BY <1>5 DEF PollWait
  <1>6. CASE PollTimeout
    BY <1>6 DEF PollTimeout
  <1>7. CASE PollWoke
    BY <1>7 DEF PollWoke, Running
  <1>8. CASE PlainRead
    BY <1>8 DEF PlainRead
  <1>9. CASE ReadBegin
    BY <1>9 DEF ReadBegin
  <1>10. CASE ReadTake
    BY <1>10 DEF ReadTake
  <1>11. CASE ReadGet
    <2>1. part = 0 /\ writers = 1
      BY <1>11 DEF ReadGet, Locking
    <2>2. ~(Least(DataLen(fifo), ReadMax) > 0) => wseq = rseq
      BY <2>1, Clean, PipeOK DEF Least
    <2> QED
      BY <1>11, <2>1, <2>2 DEF ReadGet
  <1>12. CASE ReadEof
    BY <1>12 DEF ReadEof
  <1>13. CASE ReadGot
    BY <1>13, WokenUp DEF ReadGot
  <1>14. CASE ReadEmpty
    BY <1>14, WokenUp DEF ReadEmpty
  <1>15. CASE ReadWait
    BY <1>15 DEF ReadWait
  <1>16. CASE ReadWoken
    BY <1>16 DEF ReadWoken, Running
  <1>17. CASE ReaderEnds
    BY <1>17 DEF ReaderEnds
  <1>18. CASE CloseRead
    BY <1>18, WokenUp DEF CloseRead
  <1>19. CASE WriteTake
    BY <1>19 DEF WriteTake
  <1>20. CASE WritePut
    BY <1>20 DEF WritePut
  <1>21. CASE WriteIndex
    BY <1>21 DEF WriteIndex
  <1>22. CASE WriteBroken
    BY <1>22 DEF WriteBroken
  <1>23. CASE WriteAfter
    BY <1>23 DEF WriteAfter
  <1>24. CASE WriteWake
    BY <1>24, WokenUp DEF WriteWake
  <1>25. CASE WriteWait
    BY <1>25 DEF WriteWait
  <1>26. CASE WriteWoken
    BY <1>26 DEF WriteWoken, Running
  <1>27. CASE CloseWrite
    BY <1>27, WokenUp DEF CloseWrite
  <1>28. CASE HeapUse
    BY <1>28, HeapTaken DEF HeapUse
  <1>29. CASE HeapDone
    BY <1>29, HeapReleased DEF HeapDone
  <1>30. ASSUME NEW n \in WriteLens, WriteBegin(n) PROVE ReaderTold'
    BY <1>30 DEF WriteBegin
  <1>31. CASE UNCHANGED pipeVars
    BY <1>31 DEF pipeVars
  <1> QED
    BY <1>1, <1>2, <1>3, <1>4, <1>5, <1>6, <1>7, <1>8, <1>9, <1>10, <1>11, <1>12, <1>13,
       <1>14, <1>15, <1>16, <1>17, <1>18, <1>19, <1>20, <1>21, <1>22, <1>23, <1>24, <1>25,
       <1>26, <1>27, <1>28, <1>29, <1>30, <1>31
    DEF PipeNext, RNext, WStep, PollAdd, PollTeardown

LEMMA PipeStepWriter == PipeInv /\ [PipeNext]_pipeVars => WriterTold'
  <1> SUFFICES ASSUME PipeInv, [PipeNext]_pipeVars PROVE WriterTold'
    OBVIOUS
  <1>0. PipeTypeOK /\ Locking /\ Nodes /\ WriterTold
    BY DEF PipeInv
  <1> USE <1>0 DEF Nodes, WriterTold, NoRoom, qVars, rVars, wVars
  <1>1. CASE PollBegin
    BY <1>1 DEF PollBegin
  <1>2. ASSUME NEW from, NEW to, PollHeap(from, to),
              <<from, to>> \in {<<"add1", "in1">>, <<"add2", "in2">>,
                              <<"free2", "out2">>, <<"free1", "out1">>}
       PROVE  WriterTold'
    BY <1>2, HeapTaken DEF PollHeap
  <1>3. ASSUME NEW from, NEW to, PollHeapDone(from, to),
              <<from, to>> \in {<<"in1", "add2">>, <<"in2", "check">>, <<"out2", "free1">>,
                              <<"out1", IF ready THEN "read" ELSE "idle">>}
       PROVE  WriterTold'
    BY <1>3, HeapReleased DEF PollHeapDone, Running
  <1>4. CASE PollCheck
    BY <1>4 DEF PollCheck
  <1>5. CASE PollWait
    BY <1>5 DEF PollWait
  <1>6. CASE PollTimeout
    BY <1>6 DEF PollTimeout
  <1>7. CASE PollWoke
    BY <1>7 DEF PollWoke, Running
  <1>8. CASE PlainRead
    BY <1>8 DEF PlainRead
  <1>9. CASE ReadBegin
    BY <1>9 DEF ReadBegin
  <1>10. CASE ReadTake
    BY <1>10 DEF ReadTake
  <1>11. CASE ReadGet
    <2>1. rPc = "get" /\ wPc \notin {"index", "after"}
      BY <1>11 DEF ReadGet, Locking
    <2>2. rPc' = "got" \/ (rseq' = rseq /\ readers' = readers)
      BY <1>11 DEF ReadGet
    <2>3. UNCHANGED <<wPc, wseq, wflag, susp>>
      BY <1>11 DEF ReadGet
    <2> QED
      BY <2>1, <2>2, <2>3
  <1>12. CASE ReadEof
    BY <1>12 DEF ReadEof
  <1>13. CASE ReadGot
    BY <1>13, WokenUp DEF ReadGot
  <1>14. CASE ReadEmpty
    BY <1>14, WokenUp DEF ReadEmpty
  <1>15. CASE ReadWait
    BY <1>15 DEF ReadWait
  <1>16. CASE ReadWoken
    BY <1>16 DEF ReadWoken, Running
  <1>17. CASE ReaderEnds
    BY <1>17 DEF ReaderEnds
  <1>18. CASE CloseRead
    BY <1>18, WokenUp DEF CloseRead
  <1>19. CASE WriteTake
    BY <1>19 DEF WriteTake
  <1>20. CASE WritePut
    <2>1. part = 0 /\ wPc' = "index" /\ "W" \notin susp
      BY <1>20 DEF WritePut, Locking
    <2>2. left' > part' => wseq' + part' - rseq' = RbSize
      BY <1>20, <2>1, Clean DEF WritePut, Least, PipeTypeOK
    <2> QED
      BY <1>20, <2>1, <2>2 DEF WritePut
  <1>21. CASE WriteIndex
    <2>1. wPc' = "after" /\ "W" \notin susp /\ susp' = susp
      BY <1>21 DEF WriteIndex
    <2>2. left' > 0 => wseq' - rseq' = RbSize
      BY <1>21, Ordered DEF WriteIndex, PipeTypeOK
    <2> QED
      BY <2>1, <2>2
  <1>22. CASE WriteBroken
    BY <1>22 DEF WriteBroken
  <1>23. CASE WriteAfter
    <2>1. left # 0 => wseq - rseq = RbSize /\ readers = 1
      BY <1>23 DEF WriteAfter, Locking, PipeTypeOK
    <2> QED
      BY <1>23, <2>1 DEF WriteAfter
  <1>24. CASE WriteWake
    BY <1>24, WokenUp DEF WriteWake
  <1>25. CASE WriteWait
    BY <1>25 DEF WriteWait
  <1>26. CASE WriteWoken
    BY <1>26 DEF WriteWoken, Running
  <1>27. CASE CloseWrite
    BY <1>27, WokenUp DEF CloseWrite
  <1>28. CASE HeapUse
    BY <1>28, HeapTaken DEF HeapUse
  <1>29. CASE HeapDone
    BY <1>29, HeapReleased DEF HeapDone
  <1>30. ASSUME NEW n \in WriteLens, WriteBegin(n) PROVE WriterTold'
    BY <1>30 DEF WriteBegin
  <1>31. CASE UNCHANGED pipeVars
    BY <1>31 DEF pipeVars
  <1> QED
    BY <1>1, <1>2, <1>3, <1>4, <1>5, <1>6, <1>7, <1>8, <1>9, <1>10, <1>11, <1>12, <1>13,
       <1>14, <1>15, <1>16, <1>17, <1>18, <1>19, <1>20, <1>21, <1>22, <1>23, <1>24, <1>25,
       <1>26, <1>27, <1>28, <1>29, <1>30, <1>31
    DEF PipeNext, RNext, WStep, PollAdd, PollTeardown

LEMMA PipeStepReady == PipeInv /\ [PipeNext]_pipeVars => ReadyKept'
  <1> SUFFICES ASSUME PipeInv, [PipeNext]_pipeVars PROVE ReadyKept'
    OBVIOUS
  <1>0. PipeTypeOK /\ Locking /\ ReadyKept
    BY DEF PipeInv
  <1> USE <1>0 DEF ReadyKept, qVars, rVars, wVars
  <1>1. CASE PollBegin
    BY <1>1 DEF PollBegin
  <1>2. ASSUME NEW from, NEW to, PollHeap(from, to),
              <<from, to>> \in {<<"add1", "in1">>, <<"add2", "in2">>,
                              <<"free2", "out2">>, <<"free1", "out1">>}
       PROVE  ReadyKept'
    BY <1>2, HeapTaken DEF PollHeap
  <1>3. ASSUME NEW from, NEW to, PollHeapDone(from, to),
              <<from, to>> \in {<<"in1", "add2">>, <<"in2", "check">>, <<"out2", "free1">>,
                              <<"out1", IF ready THEN "read" ELSE "idle">>}
       PROVE  ReadyKept'
    BY <1>3, HeapReleased DEF PollHeapDone, Running
  <1>4. CASE PollCheck
    <2>1. PollMask => writers = 0 \/ wseq > rseq \/ part > 0
      <3>1. CASE part = 0
        BY <3>1, Clean DEF PollMask
      <3>2. CASE part # 0
        BY <3>2 DEF PipeTypeOK
      <3> QED
        BY <3>1, <3>2
    <2>2. rPc' \in {"free2", "wait"} /\ (ready' <=> PollMask)
      BY <1>4, Zenon DEF PollCheck
    <2> QED
      BY <1>4, <2>1, <2>2 DEF PollCheck
  <1>5. CASE PollWait
    BY <1>5 DEF PollWait
  <1>6. CASE PollTimeout
    BY <1>6 DEF PollTimeout
  <1>7. CASE PollWoke
    BY <1>7 DEF PollWoke, Running
  <1>8. CASE PlainRead
    BY <1>8 DEF PlainRead
  <1>9. CASE ReadBegin
    BY <1>9 DEF ReadBegin
  <1>10. CASE ReadTake
    BY <1>10 DEF ReadTake
  <1>11. CASE ReadGet
    <2>1. part = 0 /\ writers = 1 /\ rPc = "get"
      BY <1>11 DEF ReadGet, Locking
    <2>2. ~(Least(DataLen(fifo), ReadMax) > 0) => ~(wseq > rseq)
      BY <2>1, Clean, PipeOK DEF Least
    <2> QED
      BY <1>11, <2>1, <2>2 DEF ReadGet
  <1>12. CASE ReadEof
    BY <1>12 DEF ReadEof
  <1>13. CASE ReadGot
    BY <1>13, WokenUp DEF ReadGot
  <1>14. CASE ReadEmpty
    BY <1>14, WokenUp DEF ReadEmpty
  <1>15. CASE ReadWait
    BY <1>15 DEF ReadWait
  <1>16. CASE ReadWoken
    BY <1>16 DEF ReadWoken, Running
  <1>17. CASE ReaderEnds
    BY <1>17 DEF ReaderEnds
  <1>18. CASE CloseRead
    BY <1>18, WokenUp DEF CloseRead
  <1>19. CASE WriteTake
    BY <1>19 DEF WriteTake
  <1>20. CASE WritePut
    <2>1. part = 0
      BY <1>20 DEF WritePut, Locking
    <2> QED
      BY <1>20, <2>1 DEF WritePut
  <1>21. CASE WriteIndex
    <2>1. wseq > rseq \/ part > 0 => wseq' > rseq'
      BY <1>21, Ordered DEF WriteIndex, PipeTypeOK
    <2> QED
      BY <1>21, <2>1 DEF WriteIndex
  <1>22. CASE WriteBroken
    BY <1>22 DEF WriteBroken
  <1>23. CASE WriteAfter
    BY <1>23 DEF WriteAfter
  <1>24. CASE WriteWake
    BY <1>24, WokenUp DEF WriteWake
  <1>25. CASE WriteWait
    BY <1>25 DEF WriteWait
  <1>26. CASE WriteWoken
    BY <1>26 DEF WriteWoken, Running
  <1>27. CASE CloseWrite
    BY <1>27, WokenUp DEF CloseWrite
  <1>28. CASE HeapUse
    BY <1>28, HeapTaken DEF HeapUse
  <1>29. CASE HeapDone
    BY <1>29, HeapReleased DEF HeapDone
  <1>30. ASSUME NEW n \in WriteLens, WriteBegin(n) PROVE ReadyKept'
    BY <1>30 DEF WriteBegin
  <1>31. CASE UNCHANGED pipeVars
    BY <1>31 DEF pipeVars
  <1> QED
    BY <1>1, <1>2, <1>3, <1>4, <1>5, <1>6, <1>7, <1>8, <1>9, <1>10, <1>11, <1>12, <1>13,
       <1>14, <1>15, <1>16, <1>17, <1>18, <1>19, <1>20, <1>21, <1>22, <1>23, <1>24, <1>25,
       <1>26, <1>27, <1>28, <1>29, <1>30, <1>31
    DEF PipeNext, RNext, WStep, PollAdd, PollTeardown

-----------------------------------------------------------------------------
(* The theorems.                                                             *)

LEMMA PipeInitInv == PipeInit => PipeInv
  <1> SUFFICES ASSUME PipeInit PROVE PipeInv
    OBVIOUS
  <1> USE DEF PipeInit
  <1>1. fifo \in Rings /\ RbSize \in Nat /\ RbSize >= 1
    <2>1. 0 \in Slots
      BY RingBufferOK DEF Slots
    <2>2. [i \in Slots |-> 0] \in [Slots -> Nat] /\ FALSE \in BOOLEAN
      OBVIOUS
    <2> QED
      BY <2>1, <2>2, RingBufferOK DEF EmptyRing, Rings
  <1>2. PipeTypeOK
    <2>1. /\ rflag \in BOOLEAN /\ wflag \in BOOLEAN /\ trig \in BOOLEAN
          /\ timeout \in BOOLEAN /\ ready \in BOOLEAN /\ wakeup \in BOOLEAN
      BY Zenon
    <2> QED
      BY <1>1, <2>1 DEF PipeTypeOK, RSteps, WSteps
  <1>3. Settled = fifo /\ DataLen(fifo) = 0 /\ Mirrored(fifo)
    BY <1>1 DEF Settled, EmptyRing, DataLen, Mirrored
  <1>4. Content
    BY <1>1, <1>3 DEF Content, SpaceLen
  <1>5. Locking /\ Nodes /\ ReaderTold /\ WriterTold /\ ReadyKept
    BY DEF Locking, Nodes, InHeap, ReaderTold, WriterTold, ReadyKept
  <1> QED
    BY <1>2, <1>4, <1>5 DEF PipeInv

LEMMA PipeInvStep == PipeInv /\ [PipeNext]_pipeVars => PipeInv'
  BY PipeStepTypes, PipeStepContent, PipeStepLocking, PipeStepNodes,
     PipeStepReader, PipeStepWriter, PipeStepReady DEF PipeInv

\* The invariant holds of every behaviour of the pipe.
THEOREM PipeInvariant == PipeSpec => []PipeInv
  BY PipeInitInv, PipeInvStep, PTL DEF PipeSpec

\* The indices of the ring buffer stay inside it, and neither left nor a count
\* of pipe_fops_write and pipe_fops_read runs below zero.
THEOREM PipeTypes == PipeSpec => []PipeTypeOK
  <1>1. PipeInv => PipeTypeOK
    BY DEF PipeInv
  <1> QED
    BY <1>1, PipeInvariant, PTL

\* rt_ringbuffer_put and rt_ringbuffer_get keep exactly the bytes that were
\* written and not yet read, in order, for every size of the buffer.
THEOREM BytesInOrder == PipeSpec => []PipeIntegrity
  <1>1. PipeInv => PipeIntegrity
    <2> SUFFICES ASSUME PipeInv PROVE PipeIntegrity
      OBVIOUS
    <2>1. Content /\ part \in Nat /\ wseq \in Nat /\ rseq \in Nat
      BY DEF PipeInv, PipeTypeOK
    <2>2. \A k \in 0..(RbSize - 1) :
             k < wseq - rseq => ByteAt(fifo, k) = rseq + 1 + k
      BY <2>1, RingBufferOK DEF Content
    <2>3. DataLen(Settled) = wseq - rseq
      BY <2>1 DEF Content
    <2> QED
      BY <2>2, <2>3 DEF PipeIntegrity
  <1> QED
    BY <1>1, PipeInvariant, PTL

\* Neither side of the pipe sleeps while it could go on and the other one does
\* not come to rt_wqueue_wakeup any more.
THEOREM NoWakeupLost == PipeSpec => []PipeNoLostWake
  <1>1. PipeInv => PipeNoLostWake
    <2> SUFFICES ASSUME PipeInv PROVE PipeNoLostWake
      OBVIOUS
    <2>1. /\ "R" \in susp /\ rPc \in {"woke", "clear"} => NothingToRead
          /\ "W" \in susp => NoRoom /\ wPc = "clear"
      BY DEF PipeInv, ReaderTold, WriterTold, Nodes
    <2>2. ~WriterWillWake \/ wPc = "clear" => part = 0
      BY DEF WriterWillWake, PipeInv, Locking
    <2>3. part = 0 => /\ DataLen(fifo) = wseq - rseq
                      /\ SpaceLen(fifo) = RbSize - (wseq - rseq)
                      /\ wseq \in Nat /\ rseq \in Nat /\ RbSize \in Nat
      BY Clean
    <2>4. "R" \in susp /\ rPc \in {"woke", "clear"} =>
             WriterWillWake \/ (DataLen(fifo) = 0 /\ writers = 1)
      BY <2>1, <2>2, <2>3 DEF NothingToRead
    <2>5. "W" \in susp => rPc = "got" \/ (SpaceLen(fifo) = 0 /\ readers = 1)
      BY <2>1, <2>2, <2>3 DEF NoRoom
    <2> QED
      BY <2>4, <2>5 DEF PipeNoLostWake
  <1> QED
    BY <1>1, PipeInvariant, PTL

\* After select() has reported the pipe, pipe_fops_read does not wait.
THEOREM SelectedReadReady == PipeSpec => []ReadReady
  <1>1. PipeInv => ReadReady
    BY DEF PipeInv, ReadyKept, ReadReady
  <1> QED
    BY <1>1, PipeInvariant, PTL

-----------------------------------------------------------------------------
(* The pipe as a channel.                                                    *)

\* What stands in the buffer begins after the last byte read.
LEMMA FirstByte == PipeInv => LastTaken = rseq
  <1> SUFFICES ASSUME PipeInv PROVE LastTaken = rseq
    OBVIOUS
  <1>1. /\ wseq \in Nat /\ rseq \in Nat /\ part \in Nat /\ RbSize \in Nat /\ RbSize >= 1
        /\ DataLen(Settled) = wseq - rseq
        /\ \A k \in 0..(RbSize - 1) :
              k < wseq + part - rseq => ByteAt(fifo, k) = rseq + 1 + k
    BY RingBufferOK DEF PipeInv, PipeTypeOK, Content
  <1>2. CASE wseq = rseq
    BY <1>1, <1>2 DEF LastTaken
  <1>3. CASE wseq # rseq
    <2>1. rseq < wseq
      BY <1>1, <1>3, Ordered
    <2>2. ByteAt(fifo, 0) = rseq + 1 + 0
      BY <1>1, <2>1
    <2> QED
      BY <1>1, <1>3, <2>2 DEF LastTaken
  <1> QED
    BY <1>2, <1>3

LEMMA FirstByteNext == (PipeInv => LastTaken = rseq)'
  BY FirstByte, PTL

\* Only a put and a get change what has been written and read.
LEMMA PipeMoves ==
    ASSUME [PipeNext]_pipeVars
    PROVE  ReadGet \/ WriteIndex \/ UNCHANGED <<wseq, rseq>>
  <1>1. CASE PollAdd \/ PollTeardown
    BY <1>1 DEF PollAdd, PollTeardown, PollHeap, PollHeapDone
  <1>2. CASE PollBegin \/ PollCheck \/ PollWait \/ PollWoke \/ PollTimeout
    BY <1>2 DEF PollBegin, PollCheck, PollWait, PollWoke, PollTimeout
  <1>3. CASE \/ PlainRead \/ ReadBegin \/ ReadTake \/ ReadEof \/ ReadGot \/ ReadEmpty
             \/ ReadWait \/ ReadWoken \/ ReaderEnds \/ CloseRead
    BY <1>3 DEF PlainRead, ReadBegin, ReadTake, ReadEof, ReadGot, ReadEmpty, ReadWait,
                ReadWoken, ReaderEnds, CloseRead
  <1>4. CASE \/ WritePut \/ WriteBroken \/ WriteAfter \/ WriteWake \/ WriteWait
             \/ WriteWoken \/ WriteTake \/ CloseWrite \/ \E n \in WriteLens : WriteBegin(n)
    BY <1>4 DEF WritePut, WriteBroken, WriteAfter, WriteWake, WriteWait, WriteWoken,
                WriteTake, CloseWrite, WriteBegin
  <1>5. CASE HeapUse \/ HeapDone \/ UNCHANGED pipeVars
    BY <1>5 DEF HeapUse, HeapDone, pipeVars
  <1> QED
    BY <1>1, <1>2, <1>3, <1>4, <1>5 DEF PipeNext, RNext, WStep

LEMMA PipeStreamStep ==
    ASSUME PipeInv, PipeInv', [PipeNext]_pipeVars
    PROVE  [Bytes!StreamNext]_<<wseq, LastTaken>>
  <1>1. LastTaken = rseq /\ LastTaken' = rseq'
    BY FirstByte, FirstByteNext
  <1>2. /\ wseq \in Nat /\ rseq \in Nat /\ part \in Nat /\ RbSize \in Nat /\ ReadMax \in Nat
        /\ fifo \in Rings /\ rseq <= wseq
    BY RingBufferOK, PipeOK, Ordered DEF PipeInv, PipeTypeOK
  <1>3. CASE ReadGet
    <2> DEFINE n == Least(DataLen(fifo), ReadMax)
    <2>1. part = 0 /\ wPc # "index"
      BY <1>3 DEF PipeInv, Locking, ReadGet
    <2>2. DataLen(fifo) = wseq - rseq
      BY <2>1 DEF PipeInv, Content, Settled
    <2>3. wseq' = wseq /\ ((rseq' = rseq + n /\ n > 0) \/ rseq' = rseq)
      BY <1>3 DEF ReadGet
    <2>4. n \in Int /\ n <= ReadMax /\ rseq + n <= wseq
      BY <1>2, <2>2 DEF Least
    <2> HIDE DEF n
    <2>5. CASE rseq' = rseq
      BY <1>1, <2>3, <2>5
    <2>6. CASE rseq' = rseq + n /\ n > 0
      <3>1. Bytes!Take
        BY <1>1, <1>2, <2>3, <2>4, <2>6 DEF Bytes!Take
      <3> QED
        BY <3>1 DEF Bytes!StreamNext
    <2> QED
      BY <2>3, <2>5, <2>6
  <1>4. CASE WriteIndex
    <2>1. wseq' = wseq + part /\ rseq' = rseq
      BY <1>4 DEF WriteIndex
    <2>2. part <= RbSize - (wseq - rseq)
      BY DEF PipeInv, Content, SpaceLen
    <2>3. CASE part = 0
      BY <1>1, <1>2, <2>1, <2>3
    <2>4. CASE part > 0
      <3>1. Bytes!Put
        BY <1>1, <1>2, <2>1, <2>2, <2>4 DEF Bytes!Put
      <3> QED
        BY <3>1 DEF Bytes!StreamNext
    <2> QED
      BY <1>2, <2>3, <2>4
  <1>5. CASE UNCHANGED <<wseq, rseq>>
    BY <1>1, <1>5
  <1> QED
    BY <1>3, <1>4, <1>5, PipeMoves

\* The pipe implements Stream: pipe_fops_read gets the bytes of pipe_fops_write,
\* all of them, in order and once, and at most RbSize are on the way, though
\* the two run at the same time and the ring buffer wraps in the middle of both.
THEOREM PipeIsStream == PipeSpec => PipeRefines
  <1>1. PipeInit => Bytes!StreamInit
    <2> SUFFICES ASSUME PipeInit PROVE Bytes!StreamInit
      OBVIOUS
    <2>1. LastTaken = rseq
      BY PipeInitInv, FirstByte
    <2> QED
      BY <2>1 DEF PipeInit, Bytes!StreamInit
  <1>2. PipeInv /\ PipeInv' /\ [PipeNext]_pipeVars => [Bytes!StreamNext]_<<wseq, LastTaken>>
    BY PipeStreamStep
  <1> QED
    BY <1>1, <1>2, PipeInvariant, PTL DEF PipeSpec, PipeRefines, Bytes!StreamSpec
=============================================================================
