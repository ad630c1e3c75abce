\* One caller, sessions end by disconnect(), by the text "exit" or by the server's
\* close; connect() may fail any number of times; fair scheduling, and a server
\* that accepts again and again.
SPECIFICATION ServerSpec
CONSTANTS
    tasketh = tasketh tshell = tshell c1 = c1 c2 = c2 c3 = c3 Null = Null
    Callers = {tshell}
    Clients = {c1, c2}
    Params = {1, 2}
    Ops <- OneCallerNoSend
    SendData = {"data"}
    PipeCap = 1
    PeerActs = {"data", "exit", "fin"}
    FailAt = {"connect"}
    Calm = TRUE
INVARIANTS NoFault AllReleased WaitHasWaker
PROPERTIES DisconnectReturns RefinesFairSession KeepAliveReconnects
