\* send() after the session has ended.
SPECIFICATION Spec
CONSTANTS
    tasketh = tasketh tshell = tshell c1 = c1 c2 = c2 c3 = c3 Null = Null
    Callers = {tshell}
    Clients = {c1, c2}
    Params = {1}
    Ops <- OneCaller
    SendData = {"data"}
    PipeCap = 1
    PeerActs = {}
    FailAt = {}
    Calm = TRUE
INVARIANT SendHandleLive
CHECK_DEADLOCK FALSE
