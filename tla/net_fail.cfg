\* One caller; every allocation, open, create and connect may fail, and the server may have
\* the client closed under a running tcpc with "TCP disconnect".
SPECIFICATION Spec
CONSTANTS
    tasketh = tasketh tshell = tshell c1 = c1 c2 = c2 c3 = c3 Null = Null
    Callers = {tshell}
    Clients = {c1, c2}
    Params = {1}
    Ops <- OneCaller
    SendData = {"data"}
    PipeCap = 1
    PeerActs = {"disc"}
    FailAt = {"client", "connect", "pipe", "open_read", "open_write", "thread", "event", "tcth1", "tcth2", "rx_malloc"}
    Calm = FALSE
SYMMETRY Sym
INVARIANTS TypeOK ClosedOnce
CHECK_DEADLOCK FALSE
