\* The monitor and the shell connect at the same time.
SPECIFICATION Spec
CONSTANTS
    tasketh = tasketh tshell = tshell c1 = c1 c2 = c2 c3 = c3 Null = Null
    Callers = {tasketh, tshell}
    Clients = {c1, c2}
    Params = {1}
    Ops <- TwoConnect
    SendData = {"data"}
    PipeCap = 1
    PeerActs = {}
    FailAt = {}
    Calm = FALSE
INVARIANT ClosedOnce
CHECK_DEADLOCK FALSE
