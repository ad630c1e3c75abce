\* Small instances of the board's parts, one part at a time.
SPECIFICATION BoardSpec
CONSTANTS
    \* NetParam: resets at every step; the EEPROM device may be missing
    Addrs = {10, 11}
    Servers = {20, 21}
    PortArgs = {0, 7, 50000, 65536}
    DefAddr = 10
    DefServer = 20
    Junk = {}
    Faults = {"nodev"}
    Null = Null
    \* Encoder: a timer of three counts, turns of two bits, so that circle overflows
    MaxTimval = 2
    Half = 2
    Bound = 7
    Prompt = TRUE
    MaxWraps = 2
    \* Motor: the board's timer; speeds at and around every rounding
    PwmClock = 180
    MaxPeriod = 65535
    MinPeriod = 3
    MinPulse = 2
    Speeds <- SpeedsTried
    PwmArgs <- PwmArgsTried
    \* Sampler
    Chls = 3
    MaxSamp = 5
    \* SerialRx: more characters than fit, and a read longer than the buffer
    Bufsz = 3
    ReadLen = 4
    MaxChars = 7
    \* EthRx: more frames than descriptors, and a mailbox that fills
    RxBufs = 2
    ErxMbox = 1
    MaxFrames = 3
    PhySpeeds = {0, 1}
    \* Mutex: thread 3 polls, as tcpc, and may be resumed out of its wait for 2
    Threads = {1, 2, 3}
    Mutexes = {1, 2}
    Pollers = {3}
    PollMutexes = {2}
    Base <- Priorities
    MaxHold = 2
    \* Pipe: writes that wrap, and one longer than the buffer
    RbSize = 2
    ReadMax = 2
    WriteLens = {1, 2, 3}
    MaxBytes = 3
    AsFirmware = FALSE
INVARIANTS
    BoardTypeOK
    ParTypeOK MemoryMatchesStore AddressApplied
    TurnsCounted
    MotTypeOK MotLastWave
    AdsSampleOfChannel
    RxKeepsLatest
    EthRing EthNoStall LinkReported
    MtxCoherent MtxOutcome PrioRestored MtxNoDeadlock
    PipeIntegrity PipeNoLostWake ReadReady
PROPERTIES
    RefinesStore SampleNear SamplerMoves RxRefines RxDelivered EthRefines PipeRefines
    MtxGranted PipeWriteReturns PipeDelivered
CHECK_DEADLOCK FALSE
