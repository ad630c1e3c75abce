\* The monitor and a shell that disconnects, a connection that may be reset.
SPECIFICATION FairSpec
CONSTANTS
    tasketh = tasketh tshell = tshell c1 = c1 c2 = c2 c3 = c3 Null = Null
    Callers = {tasketh, tshell}
    Clients = {c1, c2}
    Params = {1}
    Ops <- TwoCallers
    SendData = {"data"}
    PipeCap = 1
    PeerActs = {"reset"}
    FailAt = {}
    Calm = FALSE
PROPERTY KeepAliveReconnects
CHECK_DEADLOCK FALSE
