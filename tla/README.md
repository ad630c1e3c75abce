# Verification of the ictl control-board firmware

The firmware runs on an STM32F429 under RT-Thread 4.0.2. Its own code is in
`src/applications`, `src/bsp`, `src/packages/at24cxx-latest` and the edited
files of `src/drivers`; kernel, lwIP and HAL are vendored. This directory holds
TLA+ models of that code and of the kernel code its correctness rests on, the
TLC configurations that check them on small instances, and TLAPS proofs of the
main invariants for every instance.

## 1. Inventory

| Part | State it keeps | Operations | What is hard |
|---|---|---|---|
| Connection controller `CCtrlNet` (`taskNet.cpp`, `demoEthnet.cpp`) | the flags `lock` and `end`, `socketHdl`, the global `tc_event`, client objects (socket, pipe, callback) | `connect`, `disconnect`, `send`, `isConnected`, `setNetCfg`, the monitor `taskEth_entry`, the threads `tcpc`, `tcth1`, `tcth2` | five threads of three priorities, a hand-made lock, an event through a global pointer, memory freed by one thread and used by another, sockets that reset, any of seven allocations failing |
| Parameter store (`usrParam.cpp`, `at24cxx.c`) | `g_paramNet`, the block and the version record in the EEPROM | boot (`loadSoftVersion`, `initNetParam`), `eth_set`, `setNetCfg`, `writeNetParam` | resets between any two steps, a bus that does not acknowledge, no checksum |
| Digital outputs and inputs (`bspDIO.cpp`, `demoDIO.cpp`) | `m_num`, `m_doSet`, `m_diDat` | `init`, `setRtDO`, `outputDO`, `updataDI` | order of initialisation and use |
| LEDs (`bspLed.cpp`) | blink timers per LED | `on`, `off`, `toggle`, `blinkOn/Off`, `outputDO` | tick wrap-around; dead at present (see 6) |
| Encoders (`bspEncoder.c`, `board.c`, `drv_hwtimer.c`) | hardware counter, turn counter `circle` (8 bits), `val` | update interrupt, 200 ms sampling | interrupt between the two reads of `getEncoder`, 20001 counts against `MAX_TIMVAL` 20000, overflow of `circle` |
| Motors and PWM (`bspMotor.cpp`, `bspPwm.cpp`, `drv_pwm.c`) | enable and direction pins, registers of TIM8 | `turnOn/Off`, `setSpeed`, `setDir`, `test_pwm` | three integer divisions and clipping; both motors share the timer |
| ADS1115 sampling (`ads111x.c`, `demoI2C.cpp`) | channel, number of samples, the chip's pointer and input | configuration, conversion, reading | any transfer may fail, and may have reached the chip nevertheless |
| UART receive (`serial.c`, `demoUart.cpp`) | the receive buffer and its indices | receive interrupt, `rt_device_read` | the interrupt overruns the reader in the middle of a read |
| Ethernet driver (`drv_eth.c`, `ethernetif.c`, `stm32f4xx_hal_eth.c`) | descriptor ring, mailbox of `erx`, link flags, HAL lock | receive interrupt, `erx`, `etx`, polling of the PHY | a DMA, two interrupts and two threads on the same state |
| Kernel: mutexes (`ipc.c`, `thread.c`) | owner, count, waiting list, priorities | take, release, timeout | a timeout racing a release; inherited priorities; a poller resumed out of its wait by a wait queue |
| Kernel: pipe, `poll()`, wait queues, ring buffer (`pipe.c`, `poll.c`, `waitqueue.c`, `ringbuffer.c`) | ring buffer, queues and their flags, nodes from the heap | read, write, poll, close | looks without the lock, wake-ups after the unlock |
| CS5532, CRC32, SPI flash | – | register access, demonstrations | hardware |
| lwIP, HAL, remaining kernel and board drivers | – | – | vendored |

Interactions: the monitor (thread `tasketh`) and the shell (`tshell`) call
`CCtrlNet`, both at priority 20. `connect()` starts `tcpc` (12), `tcth1` and
`tcth2` (10). `tcpc` calls `rt_tc_rx_cb`, which posts `TC_TCPCLIENT_CLOSE` on
`tc_event`; `tcth1` takes it, posts `TC_TCPCLIENT_EXIT` and closes the client;
`tcth2` takes that, deletes the event and clears `end`, for which
`disconnect()` is waiting. `eth_set` changes `g_paramNet` through `setNetCfg`,
which saves it to the EEPROM and has the connection reopened. `send()` reaches `tcpc` through a pipe of the kernel, in which
`tcpc` waits with `select()`; frames reach lwIP through the Ethernet driver. The other
parts share no state with these.

What makes each part correct: at most one connection, each client closed once
and only after its `tcpc` has finished with it, everything released when a
session is over, `disconnect()` returns, the monitor reconnects, the parameters
in force are the ones used (controller); a reset leaves the old or the new block
and memory, EEPROM and interface agree (store); a commanded level is on the pin
(outputs); `val` follows the shaft (encoders); the wave is that of the speed set
(motors); a sample is one of its channel (sampler); only overrun characters are missing
(UART); every received frame is taken and the netif knows the state of the link
(Ethernet); `take` returns success to the owner only and nobody keeps an inherited priority
(mutexes); what is written is read, in order, and nobody sleeps beside a pipe that is
ready (pipe).

The hazards behind these, each at its line, are listed in `PROJECT.json`.

## 2. Modules

| Module | Role |
|---|---|
| `NetCtrl` | the controller, its callers, the session threads, the event, the idle thread, the server |
| `NetSession` | abstract specification: connections one at a time, each released |
| `NetCtrlInv` | the inductive invariants of `NetCtrl`: `OwnershipInv`, `CloseInv`, `SessionInv`, `CalmInv` |
| `NetCtrlProofs` | theorems about `NetCtrl` |
| `MCNetCtrl` | instances for TLC |
| `NetParam` | memory block, EEPROM, boot, `eth_set`, resets |
| `ParamStore` | abstract specification: a block that changes as a whole or not at all |
| `NetParamProofs` | theorems about `NetParam` |
| `MCNetParam` | instances for TLC |
| `Encoder`, `EncoderProofs` | an encoder's counter, its turn interrupt and the sampling task; theorems |
| `Motor` | two motors on one PWM timer |
| `Sampler` | the ADS1115 and the task that reads it |
| `SerialRx` | the receive buffer of the UART, its interrupt and its reader |
| `LossyFifo` | abstract specification: in order, at most once, lost only when overrun |
| `DeviceProofs` | theorems about `Motor`, `Sampler` and `SerialRx` |
| `Stream` | abstract specification: a channel of bounded capacity, nothing lost, repeated or reordered |
| `EthRx`, `EthRxProofs` | the Ethernet receive ring, its interrupt, `erx`, the link, the HAL lock; theorems |
| `Mutex`, `MutexProofs` | kernel mutexes with priority inheritance, timeouts and wake-ups from outside; theorems |
| `RingBuffer` | operators of `rt_ringbuffer` |
| `Pipe`, `PipeProofs` | the pipe with wait queues, `poll()` and the semaphore of the heap; theorems |
| `MCBoard`, `BoardProofs` | one instance for TLC of the parts that share no state; theorems about their composition |
| `Dio`, `MCDio` | digital outputs and inputs |

### NetCtrl

*State.* `lock`, `end`, `socketHdl`, `tcEvent` and `cfg` are the members of
`CCtrlNet` and the globals `tc_event` and `g_paramNet`. A session is named by the
client object it was started with. `live`, `sockOpen`, `pipes` and `rx` say which
clients are allocated, have an open socket, a registered pipe and a callback;
`evLive` and `evSet` are the event objects and their bits; `tpc`, `t1` and `t2`
the program counters of the three threads; `pc` that of a caller. The event and
helpers that one `connect()` makes carry the name of its client, but every thread
reaches the event through the global `tcEvent`, as the code does.

*Actions.* One per piece of code between two points where another thread can
matter: the test and the set of `lockit()` are two actions, `connect()` is ten.
`tcpc` is `TcpcStart`, `SelectEnds`, `SelectReady`, `Recv`, `RxCb`, `PipeRead`;
`tcth1` is poll, send, close, free; `tcth2` is poll, delete, clear. `IdleReap` is
`rt_thread_idle_excute`. A failed `RT_ASSERT` is a program counter `"assert"`: with
`RT_DEBUG` the thread spins there. Use of freed memory is `"fault"`.

*Abstractions.* Bytes are `"data"`, the texts `"exit"` and `"disc"` ("TCP
disconnect") or the end of the stream. What accumulates before `recv()` is
`"data"`: a text is only recognised when it is received alone. The pipe holds
`PipeCap` messages. Time is not modelled: a timeout may happen whenever its
condition holds. A client's name is used again when it is freed and no pointer to
it is left, except `socketHdl`, whose staleness is a subject of the model.

*Priorities.* `HelperBusy` and `TcpcBusy` say that higher-priority code is between
two blocking calls; lower threads wait for it. Inside a thread's step the higher
ones may always intervene.

*Calm.* With `Calm = TRUE` a call starts only when no other is in progress and the
sessions are up or gone, and the server ends a session between calls. Several
promises hold only then (section 6 shows what breaks otherwise). With
`Calm = FALSE` calls and network events come at any moment.

### NetParam

A block is four cells in the order of `struct rt_netparam`: addresses and type,
local port, server, state flag. `0` and `Ones` are cells of all-zero and all-one
bytes, for `HexIsEmpty`. `Reset` may happen at every step; memory is lost, the
EEPROM stays. A page write is one transfer that the chip programs at the stop
condition (AT24C256: 64-byte pages, the block lies in one). `Faults` adds a bus
that does not acknowledge and a boot without the device. The constants exclude
addresses of all-zero and all-one bytes: a block made of nothing else is what
`readNetParam` takes for an erased EEPROM.

### Encoder

`pos` is the true position of the shaft; the counter register is `Cnt(pos)` and the
turns made are `Turn(pos)`, with `MaxTimval + 1` counts to a turn because the period
register holds `MAX_TIMVAL`. `uif` is the update flag, `circle` the signed turn counter
of `2 * Half` values (128 in the code, 2 in the run, so that it overflows). The two
operands of `val` are read in either order, and edges and the interrupt may come between
them. `wraps` and `fits` are ghosts that say how far a sample may be off.

`Prompt = TRUE` says that the interrupt is served before the next edge: its priority is
the highest and it waits only while interrupts are disabled. Without it `TurnsCounted`
fails: the interrupt uses the direction of the moment in which it runs, so a reversal or
a second wrap before it is served is counted wrongly.

### Motor, Sampler

`Motor` keeps the timer's three registers and the conversion of nanoseconds to counts as
it is computed. Prescaler and period belong to the timer: a speed set for one motor
changes the other, so `MotLastWave` speaks of the motor set last. The timer is set up
twice at start-up, by the PWM driver (period 0) and by `MX_TIM8_Init` (period 65535), in an order
that the linker decides; both are initial states (`StartPeriods`). The run uses the real
clock and register widths, with speeds around every rounding. `MotorOK` asks of the limits what
`MAX_PERIOD` 65535, `MIN_PERIOD` 3 and `MIN_PULSE` 2 satisfy (the least pulse is about half of
the least period, and the range of periods is at least a factor of two), and of the clock that a
count is at least a nanosecond; `PrescalerFits` that the prescaler of the times tried fits 16
bits, as that of every 32-bit time does at 180 MHz. In `Sampler` a sample is
represented by the input it was converted from; a transfer that fails may have moved the
chip's input or pointer or not.

### SerialRx and LossyFifo

Characters are numbered. `RxIsr` is one interrupt, `RxTake` one turn of the loop of
`_serial_int_rx`, which has interrupts disabled; interrupts come between turns. The
state `is_full` with equal indices and the state with unequal indices both occur after an
overrun. `LossyFifo` is what the reader is promised.

### EthRx

`ring[d]` is the frame in descriptor `d`, or 0 while the DMA owns it. The interrupt is two
actions, because a frame may arrive between its message and the clearing of the flag;
while it runs no thread does, and neither while the timer's `phy_linkchange` does
(`ThreadsRun`). `erx` is twelve actions, from `rt_mb_recv` over the scan of the ring, copy,
release and resumption of the DMA to `netif->input`. Of `etx` the model has what it does
with `heth->Lock`, because `erx` gets `HAL_BUSY` from it. The test and the set of `__HAL_LOCK`
are one step of the model; in the code an interrupt or `erx` can come between them, and
then finds the lock free as if `etx` had not yet begun. The interrupt sets that lock free
whoever holds it. Frames fit one descriptor (`ETH_RX_BUF_SIZE` is the largest frame). The
DMA itself is external: it fills its descriptors in order and is suspended when it finds one that
is not its own. `ethCut` is a ghost: the last pass of `erx` ended before it found the
ring empty (an empty pbuf pool, or `HAL_BUSY`). `EthRefines` says that the ring implements
`Stream` with as many places as descriptors: the number of the frame that `erx` finds at `RxDesc`
is always one more than that of the frame before.

### Mutex

Every action is one section with interrupts disabled. A thread in `rt_mutex_take` is
suspended (`"wait"`) or resumed and not yet back (`"woken"`), and a timeout may happen in
the first of these only. `WaitResumed` is the wake-up of a wait queue: `rt_wqueue_wakeup` resumes
the thread of a node without looking at what it is suspended on, and `thread->error` stays
`RT_EOK`. It happens to a thread inside `poll()` that has nodes queued already and waits for a
mutex: `tcpc` in `fd_get` or `fd_put`, for `fslock` (`Pollers`, `PollMutexes`). Its
`rt_mutex_take` returns `RT_EOK` although it is not the owner, and its `rt_mutex_release` fails
(`ReleaseNotOwned`). Two conditions come from the callers: mutexes are nested in one
order (`InOrder`), and the first one taken is released last (`OuterLast`), as the drivers
nest the bus inside the device. Without the second `PrioRestored` fails:
`original_priority` may be an inherited one.

### RingBuffer and Pipe

`RingBuffer` has the fields and the arithmetic of `rt_ringbuffer`, mirrors included. In
`Pipe` the two stores at the end of `rt_ringbuffer_put` are two actions, because
`pipe_fops_poll` looks without the lock. A wake-up takes the nodes out of a queue, sets the
queue's flag and resumes the threads, whatever they are suspended on: `_poll_add` allocates its
second node while the first is queued, and the semaphore of the heap is modelled for that.
With `AsFirmware` the reader only reads after `select()` and the writer's end closes last;
without it, as in `board`, read() may block and either end may close first. `PipeRefines` says
that the pipe implements `Stream`. The mapping does not count reads: what has been taken is the
number before that of the first byte in the buffer (`LastTaken`), so a read that leaves the index
or its mirror wrong is not a step of `Stream`.

### MCBoard

The parts that share no state are checked together: a behaviour picks one part (`focus`)
and takes steps of that part only. The state space is the sum of theirs, not the product.

### Dio

`DOInit` in `Dio` is `CCtrlGpioDO::init` with the guard as it is written.

## 3. Runs

| Run | Checks | Instance |
|---|---|---|
| `net_calm` | `NoFault`, `AllReleased`, `WaitHasWaker`, `DisconnectReturns`, `RefinesFairSession`, `KeepAliveReconnects` | 1 caller, 2 clients, 2 parameter blocks, Calm, fair, `connect()` may fail; 8 800 states |
| `net_peer` | `OwnershipInv`, `ParamsInEffect`, `RefinesSession` | 1 caller, close or reset at any moment, no buffers, failing `select()`; 1.4 million states |
| `net_fail` | `TypeOK`, `ClosedOnce` | all failures inside `connect()` and the callback, `send()`, the text "TCP disconnect"; 1.2 million states |
| `board` | all parts of `MCBoard`, see below | 123 000 states |
| `net_keepalive` | violates `KeepAliveReconnects` | monitor and shell, a reset |
| `net_send_freed` | violates `SendHandleLive` | `send()` after the end of a session |
| `net_params_race` | violates `ParamsInEffect` | `eth_set` during the monitor's `connect()` |
| `net_lock_race` | violates `ClosedOnce` | monitor and shell connect together |
| `param_nack` | violates `MemoryMatchesStore` | a read or a page write that is not acknowledged |
| `dio_output` | violates `OutputTakesEffect` | any output |
| `poll_spin` | violates `SelectReturns` | one byte, a late wake-up |
| `heap_lock` | violates `HeapExclusive` | one byte, another user of the heap |

What `board` checks, by part:

| Part | Invariants | Action and temporal properties |
|---|---|---|
| encoder, sampler, UART, Ethernet, mutexes, pipe | `BoardTypeOK`: `EncTypeOK`, `AdsTypeOK`, `RxTypeOK`, `EthTypeOK`, `MtxTypeOK`, `PipeTypeOK` | |
| parameter store | `ParTypeOK`, `MemoryMatchesStore`, `AddressApplied` | `RefinesStore` |
| encoder | `TurnsCounted` | `SampleNear` |
| motors | `MotTypeOK`, `MotLastWave` | |
| sampler | `AdsSampleOfChannel` | `SamplerMoves` |
| UART | `RxKeepsLatest` | `RxRefines`, `RxDelivered` |
| Ethernet | `EthRing`, `EthNoStall`, `LinkReported` | `EthRefines` |
| mutexes | `MtxCoherent`, `MtxOutcome`, `PrioRestored`, `MtxNoDeadlock` | `MtxGranted` |
| pipe | `PipeIntegrity`, `PipeNoLostWake`, `ReadReady` | `PipeRefines`, `PipeWriteReturns`, `PipeDelivered` |

*Bounds.* Two clients are enough for every overlap the code allows one caller: the
session that is ending and the one being started; a third could only be created
when one of the two is gone. When both names are taken `ConnBegin` fails as an
exhausted heap does. `PipeCap = 1` gives the empty, full and blocking pipe. Two
parameter blocks tell the old from the new. Two callers are the two the firmware
has. In `NetParam` two values per field tell old from new; the port arguments are
0, a number below the announced range, one inside it and 65536, which the 16-bit
variable cuts to 0. In `Encoder` the positions cover every value of the turn counter and
its overflow in both directions. The UART gets more characters than its buffer holds twice
over, and a read longer than the buffer. The Ethernet ring has two descriptors and three
frames, so that it fills and wraps; its mailbox has one place, so that it fills. Three
threads, two mutexes and a nesting depth of two give inheritance through a nested take and
a queue of two; one of the threads polls, and takes the inner mutex inside `poll()`, so that it is
resumed with and without another mutex in its hands. The pipe has two bytes; writes of one to three bytes wrap inside a copy, block and are
longer than the buffer.

*Fairness.* `FairSpec`: the scheduler runs every ready thread; callers, `tcpc` and
the idle thread get strong fairness because the threads above them sleep 100 ms
between polls, so a low thread that is ready again and again runs. Calls by the
shell and what the server does are not fair. `ServerSpec` (only `net_calm`) adds
that a `connect()` repeated for ever succeeds in the end. `DisconnectReturns` is
conditional on the line becoming quiet, because `select_handle` looks at `end` only
when `select()` times out. In `board`, `BoardFair` is the fairness of the part in focus:
the sampler and the reader of the UART are scheduled again after their delays; a thread
resumed out of `rt_mutex_take` runs; reader and writer of the pipe run when they can, and
get its mutex by strong fairness, because its queue is first in, first out (`MtxGranted`
shows it). What arrives, writes, calls and timeouts is not fair; that threads give their mutexes back is
a hypothesis of `MtxGranted`. `poll_spin` adds that a running timer expires.

*Deadlock* is checked in `net_calm`. In `net_peer` and `net_fail` a session that was reset
leaves `disconnect()` waiting (that is `net_keepalive`'s finding), and in `board` the
bounds on characters, frames and bytes end a part's work, and a boot without the EEPROM
stops; they say `CHECK_DEADLOCK FALSE`.

Symmetry in the clients is used in `net_fail`, which checks invariants only.

## 4. Proofs

`NetCtrlProofs`, for every set of clients, parameters, pipe size and failures:

* `TypeCorrect`: `Spec => []TypeOK`, for any callers and any server. `TypeOK` is
  not inductive: a step of `connect()` indexes the session functions by `hdl[t]`,
  so `HandleOK` (a caller at such a step has a client) is added (`TypeInv`).
* `OwnershipHolds`: with one caller and a server that does not send "TCP
  disconnect", `Spec => []OwnershipInv`: no client is closed under its `tcpc` and at
  most one session runs.
* `ClosesOnce`: with one caller and any server, `Spec => []ClosedOnce`: also when the text "TCP
  disconnect" ends a session under its `tcpc`, nobody closes a client twice.
* `ParamsTakeEffect`: under the assumptions of `OwnershipHolds`, `Spec => []ParamsInEffect`.
* `SessionRefined`: if in addition the start fails, if at all, before it has registered its
  pipe (`CleanStart`), `Spec => RefinesSession`.
* `NothingFails`, `EverythingReleased`, `WaiterIsWoken`: in a calm run (`CalmRun`),
  `Spec => []NoFault`, `[]AllReleased` and `[]WaitHasWaker`.

The argument for `OwnershipInv`: who may close a client is decided by bits in an event that is
reached through a global, so a bit may belong to another session. `InvToken` says that once
an end has been announced (a bit, or a helper between its steps) the only session
that can be running is one whose own event does not exist yet; creating that event
replaces the one with the bits. `InvQuiet` says that `connect()` and `disconnect()`
are right when they believe that nothing runs; `InvOwner` that a `tcth1` works on
its own session's client; `InvBuild` ties the client under construction to
`socketHdl` and `tcEvent`. Each action is one lemma or one step. Both assumptions
are needed: `net_lock_race` refutes `ClosedOnce` with two callers, and the text
"TCP disconnect" ends a session whose `tcpc` goes on (`EXIT_HANDLE` knows only
"exit"), which breaks `OwnershipInv`.

`ClosesOnce` therefore rests on an invariant of its own. `CloseInv` says nothing of events, bits or
`tcpc`, whose order that text upsets, but only who holds the right to close a client: first the call
that builds it (`CloseBuild`), and from its creation on the `tcth1` that was started for it
(`CloseOwner`), which has its own client as its argument until it ends.

`SessionInv` adds two things to the invariant of `OwnershipHolds`. `InvRefs`: a call refers to a client only while it builds
one, and a client that is about to start has no helper and no pipe left, so that its state in
`NetSession` is `"idle"`. `InvParams`: a session that runs has the parameters in force, unless a
`setNetCfg` is on its way to end it (`Replacing`). The refinement is proved step by step:
`SameSessions` and `OneChanges` say which changes of one session are steps of `NetSession`, and
`RefCtrl`, `RefBegin`, `RefBuild` and `RefThreads` that each action makes such a change.
`CleanStart` is needed because a start that fails later leaves the pipe device behind, a session
that ends without ever having been up.

`CalmInv` describes the life of a session. At each step of a call it says which sessions there can
be (`InvPhase`): none, the one under construction, or one that is `Up`; between calls and while
`disconnect()` waits there may also be one that is `Ending`, in one of five states that follow
each other (`CLOSE` posted; taken by `tcth1`; `EXIT` posted; taken by `tcth2`; event deleted).
`InvWait` ties `end` to a session that is not gone, `InvHeld` says who will release what is held, and
`InvClean` that a client starts with nothing to receive. `CalmRun` is the timing `Calm`, one caller
without `send()`, a server that neither resets nor sends "TCP disconnect", and failures only of the
first three calls of `rt_tcpclient_start`. Each part of it excludes a behaviour that the code
does not survive: the findings of section 6 and the leaks of a helper that cannot be created.

`NetParamProofs`, for all constants:

* `ParamTypes`: `ParSpec => []ParTypeOK` whatever the bus does.
* `ParamsAgree`, `AddressFollows`: if every byte is acknowledged (`Acknowledged`),
  `ParSpec => []MemoryMatchesStore` and `ParSpec => []AddressApplied`, with resets anywhere. The
  invariant `Agreement` extends the claims to the write cycle and to the time in which `eth_set`
  works on its copy.
* `StoreRefined`: if every byte is acknowledged, `ParSpec => RefinesStore`. The invariant `Addressed`
  is needed because a boot that finds an empty block writes the default one: it says that a block
  with an address never counts as empty.

`EncoderProofs`, for every period and width:

* `EncTypes`: `EncSpec => []EncTypeOK`.
* `NoTurnLost`: with a prompt interrupt, `EncSpec => []TurnsCounted`. The invariant adds
  what is pending: while the update flag is set, `circle` is one turn behind in the
  direction in which the counter wrapped. It rests on lemmas about division and about the
  wrap-around of `Int8`.
* `SamplesNear`: with a prompt interrupt, `EncSpec => SampleNear`. `NearInv` says of a sample in
  progress that the operand read is at most `wraps` turns away from the shaft, and from what `circle`
  will be when it is read.

`DeviceProofs`:

* `SampleOfChannel`: `AdsSpec => []AdsSampleOfChannel` for any number of channels and samples.
  `AdsSelected` adds at which steps the chip has converted the channel selected, and that the data
  register is selected when it is read.
* `PwmFitsRegisters`, `LastWave`: `MotSpec => []MotTypeOK` and `MotSpec => []MotLastWave`, for
  every clock, limits and speeds that `MotorOK` and `PrescalerFits` admit. They rest on lemmas about
  two divisions in a row.
* `RxTypes`, `RxLatest`, for every buffer of at least two places and every length of a read: the
  indices stay inside the buffer, and it holds exactly the latest characters not yet read, in order.
  The invariant adds that a buffer marked full has room for no more.
* `RxImplementsFifo`: `RxSpec => RxRefines`; each step of the receiver is one of `LossyFifo` or
  changes nothing in it.

`EthRxProofs`, for every number of descriptors, frames and places in the mailbox:

* `EthRingSafe`: `EthSpec => []EthRing`. `RingPlaces` adds where the DMA and `erx` are: the DMA
  follows the pending frames, and the descriptor in the hands of `erx` is the one before `RxDesc`.
* `EthNeverStalls`: `EthSpec => []EthNoStall`. `ErxTold` adds that whenever `erx` waits while frames
  are left, a message is in its mailbox or the interrupt is pending.
* `LinkIsReported`: `EthSpec => []LinkReported`. `LinkOnItsWay` says where a change of the link is
  between the PHY and the netif.
* `EthIsStream`: `EthSpec => EthRefines`. Only the DMA and the scan move frames (`EthMoves`); that the
  DMA's descriptor is free means that a place is (`RingPlaces`).

`MutexProofs`, for any threads, mutexes and priorities:

* `MutexesCoherent`, `TakeTellsTruth`: `MtxSpec => []MtxCoherent` and `[]MtxOutcome`. The invariant says
  that the waiting list of a mutex holds exactly the threads suspended in it, each once, and that a
  suspended thread still has the result `RT_EOK`. `MtxOutcome` is what is left of the promise of
  `rt_mutex_take`: no error is returned to the owner, and `RT_EOK` to another thread only if it waits
  inside `poll()`. That exception is real (section 6), and the other theorems hold with it.
* `PriorityRestored`: `MtxSpec => []PrioRestored`. `Restores` adds that the mutex a thread took
  first will give back the priority the thread was created with, and no other one a lower priority.
* `NoDeadlock`: for finitely many mutexes, `MtxSpec => []MtxNoDeadlock`. `Nested` says that a suspended
  thread owns only mutexes below the one it wants; it survives a hand-over because the new owner is
  no longer suspended. Of the mutexes that a set of suspended threads wants there is a highest
  one (strict inclusion of finite sets is well-founded), and its owner cannot be in the set. Finitely many
  is needed: endlessly many threads could wait in an endless chain.

`PipeProofs`, for every size of the buffer and all lengths read and written:

* `BytesInOrder`: `PipeSpec => []PipeIntegrity`. `Content` describes the buffer as it is once the put
  under way has moved its index, so that it also holds between the two stores; `Locking` keeps the
  other thread out.
* `NoWakeupLost`: `PipeSpec => []PipeNoLostWake`. `ReaderTold` and `WriterTold` say at every step on
  the way into a wait queue that there is nothing to do, or that the other thread is on its way to
  its wake-up; `Nodes` that a suspended thread can be reached by it.
* `SelectedReadReady`: `PipeSpec => []ReadReady`, by `ReadyKept`: what `select()` reported stays
  true until `read()` has looked.
* `PipeIsStream`: `PipeSpec => PipeRefines`. `FirstByte` derives from `Content` that `LastTaken` is the
  number of bytes read, and `PipeMoves` that only the second store of a put and a get change
  either count.

Each of these modules also states its invariant as a theorem (`EthInvariant`, `MtxInvariant`,
`PipeInvariant`, `AdsInvariant`, `MotInvariant`, `RxInvariant`).

`BoardProofs`, for all constants of all parts:

* `BoardInvariant`, `BoardTypes`: the types of the encoder and the inductive invariants of sampler,
  motors, UART, Ethernet, mutexes and pipe hold in every behaviour of `BoardSpec`, and so does
  `BoardTypeOK`. A step of the board is a step of one part and a stuttering step of each other one
  (`BoardStep`).

Every safety property of the passing runs is proved. Only model-checked is liveness
(`DisconnectReturns`, `KeepAliveReconnects`, the fairness in `RefinesFairSession`, `SamplerMoves`,
`RxDelivered`, `MtxGranted`, `PipeWriteReturns`, `PipeDelivered`), which is out of the prover's reach;
`NoDeadlock` is the part of `MtxGranted` that is safety. Theorems with assumptions are narrower than
the code: what happens outside them is in section 6.

## 5. What the passing runs say

Used by one thread, one call at a time, against a server that closes properly, the
controller is sound: it releases everything, `disconnect()` returns and no assertion
fails. With one calling thread but no other restraint it still never closes a client twice, and,
unless the server sends "TCP disconnect", never closes one that is in use and never runs two
connections. The parameter block survives a reset
at any moment as long as the bus works. The encoder's turn counter is right modulo 256 if
its interrupt is prompt; a sample is off by a turn if the counter wraps between its two
reads, and by one more count for every turn from the origin.

The kernel's mutex keeps its promises with timeouts and inheritance as long as the first
mutex taken is released last and the thread that waits is not inside `poll()`, and does not deadlock
as long as mutexes are nested in one order. The
pipe loses no byte and no wake-up, although `poll()` looks
at it without the lock; the exceptions are the findings about `poll()` below. The UART loses only
what it must. Reception by Ethernet does not stall and misses no change of the link, even
with a full mailbox, if the pbuf pool is not empty and `etx` does not hold the HAL lock at
the moment `erx` asks for a frame.

## 6. What the violations say

* A connection reset while `disconnect()` waits leaves it waiting with the lock
  (`taskNet.cpp:652`): `tcpc` leaves on `recv() < 0` without the callback, and the
  monitor never connects again.
* `send()` after a session has ended writes through a freed client
  (`taskNet.cpp:690`).
* `eth_set` during the monitor's `connect()` leaves a session with the old
  parameters (`taskNet.cpp:728`).
* `lockit()` is a test and a set: two callers can both pass it and close the same
  client (`taskNet.cpp:571`).
* A byte the EEPROM does not acknowledge is taken for a parameter
  (`at24cxx.c:93`).
* A writer's wake-up that comes after `tcpc` has read the bytes finds its next `select()`,
  which then neither suspends nor times out until data arrives (`poll.c:96`): `tcpc` keeps
  every thread of lower priority from running, `disconnect()` among them.
* A writer's wake-up ends the wait of `tcpc` for the semaphore of the heap
  (`waitqueue.c:63`): two threads work on the heap at the same time.
* `CCtrlGpioDO::init` returns when it is given pins (`bspDIO.cpp:25`): no output and
  no LED is ever driven.

Met while modelling, without a run of their own: a wake-up of the socket or the pipe also ends the
wait of `tcpc` for the mutex of the file table (`WaitResumed`; `poll.c:129`, `waitqueue.c:63`):
`rt_mutex_take`, which says "the mutex is taken successfully" there (`ipc.c:765`), returns `RT_EOK`
to a thread that is not the owner, and two threads work on the table; a page
write that the EEPROM does not acknowledge is reported as done (`at24cxx.c:178`), and what was sent
before is programmed (also a behaviour of `param_nack`); a failed open of the pipe for writing closes
the read end twice (`taskNet.cpp:289`, fails `RT_ASSERT(res == 0)`); a reset leaves
the helpers of the dead session polling the next session's event, which one of them
deletes under the others; any non-zero port passes the range test of `eth_set`;
`setDefNetCfg` (not called) leaves the local port uninitialised; `rt_stm32_eth_tx` reports
`ERR_OK` for a frame that `HAL_ETH_TransmitFrame` refused (`drv_eth.c:262`); a pass of `erx`
ended by `HAL_BUSY` with a full ring leaves reception dead until the link changes, because
no frame can then raise an interrupt; the speed and mode the PHY negotiated are stored and
never given to the MAC (`drv_eth.c:446`); `test_hcrc32` compares `crc1` with itself.

## 7. Not modelled, and why

The repository is almost entirely vendored: RT-Thread with all its components, drivers and
board packages, lwIP in three versions, CMSIS and the HAL, most of which is not even
compiled for this board. The mapped lines are those of the firmware and of the code of the
kernel and the HAL that its behaviour rests on; a map of the rest would say nothing about
this program.

* LEDs: every operation returns at `idx >= m_num` (finding `dio_output`).
* CS5532, CRC32, SPI flash: one caller, no state beyond the device; timing and arithmetic.
* Sending by Ethernet beyond its lock; frames of several segments, which do not occur.
* `drv_usart.c`, `drv_soft_i2c.c`, start-up: registers and pins.
* The scheduler, timers, the lists of the heap, objects and devices, the shell, lwIP:
  vendored, and used here by what they promise. Timeouts may happen at any time their condition
  holds.

## 8. Plan

1. Done: the modules of section 2; the theorems of section 4.
2. Composition of `NetCtrl` and `NetParam`: resets during a session.
3. `Led`, once `init()` works.
