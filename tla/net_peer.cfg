\* One caller at any moment of the session; the server closes or resets; tcpc may lack
\* its buffers and select() may fail.
SPECIFICATION Spec
CONSTANTS
    tasketh = tasketh tshell = tshell c1 = c1 c2 = c2 c3 = c3 Null = Null
    Callers = {tshell}
    Clients = {c1, c2}
    Params = {1, 2}
    Ops <- OneCallerNoSend
    SendData = {"data","exit"}
    PipeCap = 1
    PeerActs = {"fin","reset"}
    FailAt = {"buf", "select"}
    Calm = FALSE
INVARIANTS OwnershipInv ParamsInEffect
PROPERTY RefinesSession
CHECK_DEADLOCK FALSE
