-------------------------------- MODULE Pipe ---------------------------------
(****************************************************************************)
(* The pipe between send() and the thread tcpc: pipe.c with its ring        *)
(* buffer, its two wait queues (waitqueue.c) and the select() of tcpc       *)
(* (poll.c), whose nodes are allocated from the heap.                       *)
(*                                                                          *)
(* R is the reader tcpc, which polls and reads for ever; W the writer, which*)
(* writes when it likes; H another thread that uses the heap.  The lock of  *)
(* the pipe is a mutex as in module Mutex.  Bytes are numbered.  The pipe   *)
(* is read and written by one thread each, as in the firmware, and its      *)
(* write end is not closed during a write.  Unless AsFirmware, R may also   *)
(* read without select(), and the write end may be closed first.            *)
(****************************************************************************)
EXTENDS RingBuffer

CONSTANTS
    ReadMax,      \* count of read(): BUFF_SIZE
    WriteLens,    \* counts of write() explored
    MaxBytes,     \* bytes explored
    AsFirmware    \* TRUE: the ends are used and closed only as tcpc does it

ASSUME PipeOK ==
    /\ ReadMax \in Nat \ {0} /\ WriteLens \subseteq Nat \ {0}
    /\ MaxBytes \in Nat /\ AsFirmware \in BOOLEAN

VARIABLES
    fifo, lock, readers, writers,   \* struct rt_pipe_device
    rflag, wflag,       \* the flags of reader_queue and writer_queue
    rnode, wnodes,      \* the nodes in them: of "poll", of "wait"
    trig,               \* pt->triggered
    susp,               \* threads that are suspended
    heap, heapQ,        \* heap_sem: its value and the threads waiting for it
    rPc, timeout, ready,    \* R; istimeout and the result of its poll
    wPc, left, part, wakeup,    \* W; bytes to write, and in the put under way
    hPc,                \* H
    wseq, rseq          \* number of the last byte put, and taken

rVars == <<rPc, timeout, ready>>
wVars == <<wPc, left, part, wakeup>>
qVars == <<rflag, wflag, rnode, wnodes, trig>>
pipeVars == <<fifo, lock, readers, writers, qVars, susp, heap, heapQ, rVars,
              wVars, hPc, wseq, rseq>>

RSteps == {"idle", "add1", "in1", "add2", "in2", "check", "wait", "woke",
           "free2", "out2", "free1", "out1", "read", "take", "get", "got",
           "wakew", "waitq", "clear", "end", "closed"}
InHeap == {"in1", "in2", "out2", "out1"}
WSteps == {"idle", "take", "put", "index", "after", "wake", "waitq", "clear",
           "last", "closed"}

\* The indices stay inside the buffer.
PipeTypeOK ==
    /\ fifo \in Rings /\ lock \in {"none", "R", "W"}
    /\ readers \in 0..1 /\ writers \in 0..1
    /\ rflag \in BOOLEAN /\ wflag \in BOOLEAN /\ trig \in BOOLEAN
    /\ rnode \in {"none", "poll", "wait"} /\ wnodes \subseteq {"poll", "wait"}
    /\ susp \subseteq {"R", "W", "H"} /\ heapQ \subseteq {"R", "H"}
    /\ heap \in Nat
    /\ rPc \in RSteps /\ timeout \in BOOLEAN /\ ready \in BOOLEAN
    /\ wPc \in WSteps /\ left \in Nat /\ part \in Nat /\ wakeup \in BOOLEAN
    /\ hPc \in {"idle", "in"}
    /\ wseq \in Nat /\ rseq \in Nat

\* rt_pipe_create and the two pipe_fops_open.
PipeInit ==
    /\ fifo = EmptyRing /\ lock = "none" /\ readers = 1 /\ writers = 1
    /\ rflag = FALSE /\ wflag = FALSE /\ rnode = "none" /\ wnodes = {}
    /\ trig = FALSE /\ susp = {} /\ heap = 1 /\ heapQ = {}
    /\ rPc = "idle" /\ timeout = FALSE /\ ready = FALSE
    /\ wPc = "idle" /\ left = 0 /\ part = 0 /\ wakeup = FALSE /\ hPc = "idle"
    /\ wseq = 0 /\ rseq = 0

Least(a, b) == IF a < b THEN a ELSE b

-----------------------------------------------------------------------------
(* rt_wqueue_wakeup on reader_queue (r) or writer_queue (w).                 *)

\* The threads of the nodes taken out of the queues.  The node of R's poll in
\* writer_queue is passed over: it does not ask for POLLOUT.
Woken(r, w) == (IF r /\ rnode # "none" THEN {"R"} ELSE {})
               \union (IF w /\ "wait" \in wnodes THEN {"W"} ELSE {})

\* rt_thread_resume takes a thread out of whatever it is suspended on.
Wakeup(r, w) ==
    /\ rflag' = (rflag \/ r) /\ wflag' = (wflag \/ w)
    /\ rnode' = IF r THEN "none" ELSE rnode
    /\ trig' = (trig \/ (r /\ rnode = "poll"))
    /\ wnodes' = IF w THEN wnodes \ {"wait"} ELSE wnodes
    /\ susp' = susp \ Woken(r, w) /\ heapQ' = heapQ \ Woken(r, w)

-----------------------------------------------------------------------------
(* rt_sem_take and rt_sem_release on heap_sem, in rt_malloc and rt_free.     *)

HeapTake(t) ==
    IF heap > 0 THEN heap' = heap - 1 /\ UNCHANGED <<heapQ, susp>>
    ELSE heapQ' = heapQ \union {t} /\ susp' = susp \union {t} /\ UNCHANGED heap

HeapRelease ==
    \/ heapQ = {} /\ heap' = heap + 1 /\ UNCHANGED <<heapQ, susp>>
    \/ \E t \in heapQ :
          heapQ' = heapQ \ {t} /\ susp' = susp \ {t} /\ UNCHANGED heap

HeapUse ==
    /\ hPc = "idle" /\ hPc' = "in"
    /\ HeapTake("H")
    /\ UNCHANGED <<fifo, lock, readers, writers, qVars, rVars, wVars, wseq,
                   rseq>>

HeapDone ==
    /\ hPc = "in" /\ "H" \notin susp /\ hPc' = "idle"
    /\ HeapRelease
    /\ UNCHANGED <<fifo, lock, readers, writers, qVars, rVars, wVars, wseq,
                   rseq>>

-----------------------------------------------------------------------------
(* R: select() with pipe_fops_poll.                                          *)

Running(t, pc, step) == t \notin susp /\ pc = step

PollBegin ==
    /\ rPc = "idle" /\ rPc' = "add1"
    /\ trig' = FALSE /\ timeout' = FALSE
    /\ UNCHANGED <<fifo, lock, readers, writers, rflag, wflag, rnode, wnodes,
                   susp, heap, heapQ, ready, wVars, hPc, wseq, rseq>>

\* rt_malloc, and rt_free of a node that is out of its queue.
PollHeap(from, to) ==
    /\ rPc = from /\ rPc' = to
    /\ HeapTake("R")
    /\ wnodes' = IF from = "free2" THEN wnodes \ {"poll"} ELSE wnodes
    /\ rnode' = IF from = "free1" THEN "none" ELSE rnode
    /\ UNCHANGED <<fifo, lock, readers, writers, rflag, wflag, trig, timeout,
                   ready, wVars, hPc, wseq, rseq>>

\* The end of rt_malloc and rt_free; _poll_add then adds the node.
PollHeapDone(from, to) ==
    /\ Running("R", rPc, from) /\ rPc' = to
    /\ HeapRelease
    /\ rnode' = IF from = "in1" THEN "poll" ELSE rnode
    /\ wnodes' = IF from = "in2" THEN wnodes \union {"poll"} ELSE wnodes
    /\ UNCHANGED <<fifo, lock, readers, writers, rflag, wflag, trig, timeout,
                   ready, wVars, hPc, wseq, rseq>>

PollAdd ==
    \/ PollHeap("add1", "in1") \/ PollHeapDone("in1", "add2")
    \/ PollHeap("add2", "in2") \/ PollHeapDone("in2", "check")

\* poll_teardown.
PollTeardown ==
    \/ PollHeap("free2", "out2") \/ PollHeapDone("out2", "free1")
    \/ PollHeap("free1", "out1")
    \/ PollHeapDone("out1", IF ready THEN "read" ELSE "idle")

\* Mutant: a wake-up is taken for an event.
PollMask_Trig == DataLen(fifo) # 0 \/ writers = 0 \/ trig

\* Read without the lock of the pipe: POLLIN or POLLHUP.
PollMask == DataLen(fifo) # 0 \/ writers = 0

\* do_pollfd and the tests of poll_do.
PollCheck ==
    /\ rPc = "check"
    /\ ready' = PollMask
    /\ rPc' = IF PollMask \/ timeout THEN "free2" ELSE "wait"
    /\ UNCHANGED <<fifo, lock, readers, writers, qVars, susp, heap, heapQ,
                   timeout, wVars, hPc, wseq, rseq>>

\* Mutant: the thread is suspended without a look at triggered.
PollWait_Blind ==
    /\ rPc = "wait"
    /\ rPc' = "woke" /\ susp' = susp \union {"R"}
    /\ UNCHANGED <<fifo, lock, readers, writers, qVars, heap, heapQ, timeout,
                   ready, wVars, hPc, wseq, rseq>>

\* poll_wait_timeout: one more check, or the suspension.
PollWait ==
    /\ rPc = "wait"
    /\ IF trig THEN rPc' = "check" /\ UNCHANGED susp
       ELSE rPc' = "woke" /\ susp' = susp \union {"R"}
    /\ UNCHANGED <<fifo, lock, readers, writers, qVars, heap, heapQ, timeout,
                   ready, wVars, hPc, wseq, rseq>>

\* The thread timer.
PollTimeout ==
    /\ rPc = "woke" /\ "R" \in susp
    /\ susp' = susp \ {"R"}
    /\ UNCHANGED <<fifo, lock, readers, writers, qVars, heap, heapQ, rVars,
                   wVars, hPc, wseq, rseq>>

PollWoke ==
    /\ Running("R", rPc, "woke") /\ rPc' = "check"
    /\ timeout' = ~trig
    /\ UNCHANGED <<fifo, lock, readers, writers, qVars, susp, heap, heapQ,
                   ready, wVars, hPc, wseq, rseq>>

-----------------------------------------------------------------------------
(* R: pipe_fops_read.                                                        *)

\* A read() that no select() precedes.
PlainRead ==
    /\ rPc = "idle" /\ ~AsFirmware
    /\ rPc' = "read" /\ ready' = FALSE
    /\ UNCHANGED <<fifo, lock, readers, writers, qVars, susp, heap, heapQ,
                   timeout, wVars, hPc, wseq, rseq>>

ReadBegin ==
    /\ rPc = "read"
    /\ rPc' = IF writers = 0 THEN "end" ELSE "take"
    /\ UNCHANGED <<fifo, lock, readers, writers, qVars, susp, heap, heapQ,
                   timeout, ready, wVars, hPc, wseq, rseq>>

ReadTake ==
    /\ rPc = "take" /\ lock = "none"
    /\ lock' = "R" /\ rPc' = "get"
    /\ UNCHANGED <<fifo, readers, writers, qVars, susp, heap, heapQ, timeout,
                   ready, wVars, hPc, wseq, rseq>>

ReadGet ==
    /\ rPc = "get" /\ writers = 1
    /\ LET n == Least(DataLen(fifo), ReadMax)
       IN  IF n > 0
           THEN /\ fifo' = Drop(fifo, n) /\ rseq' = rseq + n
                /\ rPc' = "got" /\ UNCHANGED lock
           ELSE /\ lock' = "none" /\ rPc' = "wakew"
                /\ UNCHANGED <<fifo, rseq>>
    /\ UNCHANGED <<readers, writers, qVars, susp, heap, heapQ, timeout, ready,
                   wVars, hPc, wseq>>

\* The writer has closed: end-of-file.
ReadEof ==
    /\ rPc = "get" /\ writers = 0
    /\ lock' = "none" /\ rPc' = "end"
    /\ UNCHANGED <<fifo, readers, writers, qVars, susp, heap, heapQ, timeout,
                   ready, wVars, hPc, wseq, rseq>>

\* Mutant: the writer is not woken.
ReadGot_NoWake ==
    /\ rPc = "got"
    /\ lock' = "none" /\ rPc' = "idle"
    /\ UNCHANGED <<fifo, readers, writers, qVars, susp, heap, heapQ, timeout,
                   ready, wVars, hPc, wseq, rseq>>

ReadGot ==
    /\ rPc = "got"
    /\ Wakeup(FALSE, TRUE)
    /\ lock' = "none" /\ rPc' = "idle"
    /\ UNCHANGED <<fifo, readers, writers, heap, timeout, ready, wVars, hPc,
                   wseq, rseq>>

ReadEmpty ==
    /\ rPc = "wakew" /\ rPc' = "waitq"
    /\ Wakeup(FALSE, TRUE)
    /\ UNCHANGED <<fifo, lock, readers, writers, heap, timeout, ready, wVars,
                   hPc, wseq, rseq>>

\* rt_wqueue_wait on reader_queue.
ReadWait ==
    /\ rPc = "waitq" /\ rPc' = "clear"
    /\ IF rflag THEN UNCHANGED <<rnode, susp>>
       ELSE rnode' = "wait" /\ susp' = susp \union {"R"}
    /\ UNCHANGED <<fifo, lock, readers, writers, rflag, wflag, wnodes, trig,
                   heap, heapQ, timeout, ready, wVars, hPc, wseq, rseq>>

ReadWoken ==
    /\ Running("R", rPc, "clear") /\ rPc' = "take"
    /\ rflag' = FALSE
    /\ UNCHANGED <<fifo, lock, readers, writers, wflag, rnode, wnodes, trig,
                   susp, heap, heapQ, timeout, ready, wVars, hPc, wseq, rseq>>

\* tcpc leaves its loop: an error or the text "exit" on the socket ...
ReaderEnds ==
    /\ rPc = "idle" /\ rPc' = "end"
    /\ UNCHANGED <<fifo, lock, readers, writers, qVars, susp, heap, heapQ,
                   timeout, ready, wVars, hPc, wseq, rseq>>

\* ... and tcth1 closes the read end (pipe_fops_close).
CloseRead ==
    /\ rPc = "end" /\ lock = "none"
    /\ rPc' = "closed" /\ readers' = 0
    /\ Wakeup(writers = 0, TRUE)
    /\ UNCHANGED <<fifo, lock, writers, heap, timeout, ready, wVars, hPc, wseq,
                   rseq>>

-----------------------------------------------------------------------------
(* W: pipe_fops_write, pipe_fops_close.                                      *)

WriteBegin(n) ==
    /\ wPc = "idle" /\ readers = 1
    /\ wseq + n <= MaxBytes
    /\ wPc' = "take" /\ left' = n /\ wakeup' = FALSE
    /\ UNCHANGED <<fifo, lock, readers, writers, qVars, susp, heap, heapQ,
                   rVars, part, hPc, wseq, rseq>>

WriteTake ==
    /\ wPc = "take" /\ lock = "none"
    /\ lock' = "W" /\ wPc' = "put"
    /\ UNCHANGED <<fifo, readers, writers, qVars, susp, heap, heapQ, rVars,
                   left, part, wakeup, hPc, wseq, rseq>>

\* rt_ringbuffer_put: bytes and mirror ...
WritePut ==
    /\ wPc = "put" /\ readers = 1
    /\ part' = Least(SpaceLen(fifo), left)
    /\ fifo' = IF part' = 0 THEN fifo
               ELSE FlipWrite(CopyIn(fifo, wseq + 1, part'), part')
    /\ wPc' = "index" /\ wakeup' = TRUE
    /\ UNCHANGED <<lock, readers, writers, qVars, susp, heap, heapQ, rVars,
                   left, hPc, wseq, rseq>>

\* ... and then the index.
WriteIndex ==
    /\ wPc = "index" /\ wPc' = "after"
    /\ fifo' = IF part = 0 THEN fifo ELSE MoveWrite(fifo, part)
    /\ wseq' = wseq + part /\ left' = left - part /\ part' = 0
    /\ UNCHANGED <<lock, readers, writers, qVars, susp, heap, heapQ, rVars,
                   wakeup, hPc, rseq>>

\* The reader has closed: EPIPE, or the bytes written so far.
WriteBroken ==
    /\ wPc = "put" /\ readers = 0
    /\ lock' = "none" /\ left' = 0
    /\ wPc' = IF wakeup THEN "last" ELSE "idle"
    /\ UNCHANGED <<fifo, readers, writers, qVars, susp, heap, heapQ, rVars,
                   part, wakeup, hPc, wseq, rseq>>

WriteAfter ==
    /\ wPc = "after"
    /\ lock' = "none" /\ wPc' = IF left = 0 THEN "last" ELSE "wake"
    /\ UNCHANGED <<fifo, readers, writers, qVars, susp, heap, heapQ, rVars,
                   left, part, wakeup, hPc, wseq, rseq>>

WriteWake ==
    /\ wPc \in {"wake", "last"}
    /\ wPc' = IF wPc = "last" THEN "idle" ELSE "waitq"
    /\ Wakeup(TRUE, FALSE)
    /\ UNCHANGED <<fifo, lock, readers, writers, heap, rVars, left, part, wakeup,
                   hPc, wseq, rseq>>

\* Mutant: the writer is suspended without a look at the flag.
WriteWait_Blind ==
    /\ wPc = "waitq" /\ wPc' = "clear"
    /\ wnodes' = wnodes \union {"wait"} /\ susp' = susp \union {"W"}
    /\ UNCHANGED <<fifo, lock, readers, writers, rflag, wflag, rnode, trig,
                   heap, heapQ, rVars, left, part, wakeup, hPc, wseq, rseq>>

\* rt_wqueue_wait on writer_queue.
WriteWait ==
    /\ wPc = "waitq" /\ wPc' = "clear"
    /\ IF wflag THEN UNCHANGED <<wnodes, susp>>
       ELSE wnodes' = wnodes \union {"wait"} /\ susp' = susp \union {"W"}
    /\ UNCHANGED <<fifo, lock, readers, writers, rflag, wflag, rnode, trig,
                   heap, heapQ, rVars, left, part, wakeup, hPc, wseq, rseq>>

WriteWoken ==
    /\ Running("W", wPc, "clear") /\ wPc' = "take"
    /\ wflag' = FALSE
    /\ UNCHANGED <<fifo, lock, readers, writers, rflag, rnode, wnodes, trig,
                   susp, heap, heapQ, rVars, left, part, wakeup, hPc, wseq, rseq>>

CloseWrite ==
    /\ wPc = "idle" /\ lock = "none" /\ (AsFirmware => readers = 0)
    /\ wPc' = "closed" /\ writers' = 0
    /\ Wakeup(TRUE, readers = 0)
    /\ UNCHANGED <<fifo, lock, readers, heap, rVars, left, part, wakeup, hPc, wseq,
                   rseq>>

-----------------------------------------------------------------------------
RNext ==
    \/ PollBegin \/ PollAdd \/ PollTeardown \/ PollCheck \/ PollWait \/ PollWoke
    \/ ReadBegin \/ ReadGet \/ ReadEof \/ ReadGot \/ ReadEmpty \/ ReadWait
    \/ ReadWoken

WStep ==
    \/ WritePut \/ WriteIndex \/ WriteBroken \/ WriteAfter \/ WriteWake
    \/ WriteWait \/ WriteWoken

PipeNext ==
    \/ RNext \/ PlainRead \/ ReadTake \/ ReaderEnds \/ CloseRead \/ PollTimeout
    \/ WStep \/ WriteTake \/ CloseWrite \/ \E n \in WriteLens : WriteBegin(n)
    \/ HeapUse \/ HeapDone

PipeSpec == PipeInit /\ [][PipeNext]_pipeVars

\* Ready threads run, the heap is left again, an ended session is closed, and
\* the FIFO of the pipe's mutex serves both its users.
PipeFair ==
    /\ WF_pipeVars(RNext) /\ WF_pipeVars(WStep) /\ WF_pipeVars(HeapDone)
    /\ SF_pipeVars(ReadTake) /\ SF_pipeVars(WriteTake) /\ SF_pipeVars(CloseRead)

\* With the timer of the thread, which only SelectReturns counts on.
TimedPipeSpec == PipeSpec /\ PipeFair /\ WF_pipeVars(PollTimeout)

-----------------------------------------------------------------------------
(* Properties.                                                               *)

\* The buffer without the mirror that a put under way has flipped: between the
\* two stores of rt_ringbuffer_put the mirror is ahead of the index.
Settled == IF wPc = "index" /\ part > 0 THEN FlipWrite(fifo, part) ELSE fifo

\* The buffer holds exactly the bytes written and not yet read, in order,
\* and no more than it has room for.
PipeIntegrity ==
    /\ DataLen(Settled) = wseq - rseq
    /\ \A k \in 0..(RbSize - 1) :
          k < wseq - rseq => ByteAt(fifo, k) = rseq + 1 + k

\* The byte before the first one in the buffer.
LastTaken == IF DataLen(Settled) = 0 THEN wseq ELSE ByteAt(fifo, 0) - 1

Bytes == INSTANCE Stream WITH Cap <- RbSize, Batch <- ReadMax,
                              sent <- wseq, taken <- LastTaken

\* The pipe is a channel from write() to read(): a read() takes the next bytes,
\* at most as many as it asks for, and a write() that is longer than the room
\* goes in piece by piece.
PipeRefines == Bytes!StreamSpec

WriterWillWake == wPc \in {"index", "after", "wake", "last"}

\* No wake-up is lost: a reader is suspended in poll() or read() only while
\* there is nothing to read and the pipe is open, and a writer only while the
\* buffer is full and somebody may read it, or else the other one is on its
\* way to the wake-up.
PipeNoLostWake ==
    /\ "R" \in susp /\ rPc \in {"woke", "clear"} =>
          WriterWillWake \/ (DataLen(fifo) = 0 /\ writers = 1)
    /\ "W" \in susp =>
          rPc = "got" \/ (SpaceLen(fifo) = 0 /\ readers = 1)

\* poll() has been woken, finds nothing, and does not suspend any more.
Spinning == rPc \in {"check", "wait"} /\ trig /\ ~PollMask

\* select() comes back, with an event or, after a second, with the timeout in
\* which tcpc looks for a disconnect() ("if (0 == res) { // timeout").
SelectReturns == rPc = "add1" ~> rPc \in {"read", "idle"}

\* "assured of reading from without blocking" (select.c): after select() has
\* reported the pipe, read() finds data or its end, although the report comes
\* from a look at the buffer without the lock, in the middle of a put or not.
ReadReady == rPc \in {"wakew", "waitq", "clear"} => ~ready

\* A write() returns: what does not fit is written when the reader has made
\* room, and the end of the reader releases the writer.  (A poll that spins
\* runs at a higher priority than the writer.)
PipeWriteReturns == wPc = "take" ~> wPc = "idle" \/ Spinning

\* What is written is read, unless one of the ends is closed or the poll
\* spins.  (MaxBytes ends the writing.)
PipeDelivered ==
    []<>(rseq = wseq \/ writers = 0 \/ readers = 0 \/ Spinning)

\* heap_sem is a lock: two threads are never in the heap at the same time.
HeapExclusive ==
    ~ (rPc \in InHeap /\ "R" \notin susp /\ hPc = "in" /\ "H" \notin susp)
=============================================================================
