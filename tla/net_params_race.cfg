\* setNetCfg while the monitor is connecting.
SPECIFICATION Spec
CONSTANTS
    tasketh = tasketh tshell = tshell c1 = c1 c2 = c2 c3 = c3 Null = Null
    Callers = {tasketh, tshell}
    Clients = {c1, c2}
    Params = {1, 2}
    Ops <- KeepAndSet
    SendData = {"data"}
    PipeCap = 1
    PeerActs = {}
    FailAt = {}
    Calm = FALSE
INVARIANT ParamsInEffect
CHECK_DEADLOCK FALSE
