------------------------------- MODULE NetCtrl -------------------------------
(****************************************************************************)
(* The Ethernet connection controller: class CCtrlNet and the TCP/UDP       *)
(* client under it (src/bsp/taskNet.cpp), the threads that call it (the     *)
(* monitor taskEth_entry and the shell commands of demoEthnet.cpp), the     *)
(* three threads every connection starts ("tcpc", "tcth1", "tcth2"), the    *)
(* event object they signal each other with and the idle thread that frees  *)
(* an exited "tcpc".                                                        *)
(*                                                                          *)
(* A session is named by the client object (rt_tcpclient_t) it was started  *)
(* with; the event and the two helper threads that one connect() creates    *)
(* carry the name of its client.  A name is given out again when its object *)
(* is freed and no pointer to it is left; Clients is the heap's capacity.   *)
(*                                                                          *)
(* Scheduling is the kernel's: tcth1 and tcth2 (priority 10) preempt tcpc   *)
(* (12), which preempts the callers (20) and the idle thread, at any step;  *)
(* a thread gives way to a lower one only where it blocks.                  *)
(****************************************************************************)
EXTENDS Naturals, Sequences, FiniteSets

CONSTANTS
    Callers,    \* threads that call CCtrlNet: tasketh and tshell
    Clients,    \* client objects the heap has room for
    Null,       \* RT_NULL
    Params,     \* values of g_paramNet (server address, port, TCP or UDP)
    Ops,        \* Ops[t]: the operations thread t performs
    SendData,   \* what callers pass to send(): "data" or the text "exit"
    PipeCap,    \* messages the session's pipe holds (PIPE_BUFSZ)
    PeerActs,   \* what the server and the network may do to a session
    FailAt,     \* the calls that may fail
    Calm        \* TRUE: calls and peer closes come one at a time (see Settled)

OpNames == {"connect", "disconnect", "send", "set", "keep"}
PeerData == {"data", "exit", "disc"}    \* "disc" is the text "TCP disconnect"
Stages == {"client", "connect", "pipe", "open_read", "open_write", "thread",
           "event", "tcth1", "tcth2", "buf", "select", "rx_malloc"}

ASSUME ConstantsOK ==
    /\ Null \notin Clients
    /\ Ops \in [Callers -> SUBSET OpNames]
    /\ SendData \subseteq {"data", "exit"}
    /\ PipeCap \in Nat \ {0}
    /\ PeerActs \subseteq PeerData \union {"fin", "reset"}
    /\ FailAt \subseteq Stages
    /\ Calm \in BOOLEAN

VARIABLES
    (* CCtrlNet and the globals of taskNet.cpp *)
    lock, end, socketHdl, tcEvent, cfg,
    (* the callers: program counter, where disconnect() returns to, and the  *)
    (* client that connect() is building                                     *)
    pc, ret, hdl,
    (* the client objects: allocated, socket open, callback attached, pipe   *)
    (* device registered; the parameters used and the pipe's contents        *)
    live, sockOpen, rx, pipes, used, pipe,
    (* the event objects: created, and their bits *)
    evLive, evSet,
    (* the network's side of a session: bytes to receive, connection state   *)
    rcv, conn,
    (* the threads of a session, tcpc's last message and tcth1's argument    *)
    tpc, msg, t1, t2, arg1

ctrlVars == <<lock, end, socketHdl, cfg>>
callVars == <<pc, ret, hdl>>
clientVars == <<live, sockOpen, rx, pipes, used>>
eventVars == <<tcEvent, evLive, evSet>>
peerVars == <<rcv, conn>>
tcpcVars == <<tpc, msg>>
helperVars == <<t1, t2, arg1>>
sessVars == <<clientVars, pipe, eventVars, peerVars, tcpcVars, helperVars>>
vars == <<ctrlVars, callVars, sessVars>>

\* lockit() of connect (twice), disconnect and send: waiting for the lock,
\* about to set it, and what comes after.
Taking == [conn_lock |-> "conn_take", conn_relock |-> "conn_retake",
           disc_lock |-> "disc_take", send_lock |-> "send_take"]
Locked == [conn_take |-> "conn_chk", conn_retake |-> "conn_begin",
           disc_take |-> "disc_find", send_take |-> "send_wr"]

CallerPcs == {"idle", "conn_lock", "conn_relock", "disc_lock", "send_lock",
              "conn_take", "conn_retake", "disc_take", "send_take",
              "conn_chk", "conn_begin", "conn_sock", "conn_hdl", "conn_rx",
              "conn_ev", "conn_t1", "conn_t2", "conn_unlock",
              "disc_find", "disc_end", "disc_wait", "disc_unlock",
              "send_wr", "send_unlock", "set_find", "set_apply",
              "assert", "fault"}
TcpcPcs == {"none", "start", "select", "recv", "cb", "pipe", "defunct",
            "assert", "fault"}
Tcth1Pcs == {"none", "poll", "send", "close", "free", "assert"}
Tcth2Pcs == {"none", "poll", "delete", "endclr", "assert"}
Handles == Clients \union {Null}

\* connect() after rt_tcpclient_start has succeeded.
Building == {"conn_hdl", "conn_rx", "conn_ev", "conn_t1", "conn_t2", "conn_unlock"}

CtrlTypes ==
    /\ lock \in {0, 1} /\ end \in {0, 1}
    /\ socketHdl \in Handles /\ cfg \in Params
CallTypes ==
    /\ pc \in [Callers -> CallerPcs]
    /\ ret \in [Callers -> {"idle", "conn_relock", "set_apply"}]
    /\ hdl \in [Callers -> Handles]
ClientTypes ==
    /\ live \subseteq Clients /\ sockOpen \subseteq Clients
    /\ rx \subseteq Clients /\ pipes \subseteq Clients
    /\ used \in [Clients -> Params \union {Null}]
PipeTypes ==
    /\ pipe \in [Clients -> Seq({"data", "exit"})]
    /\ \A c \in Clients : Len(pipe[c]) <= PipeCap
EventTypes ==
    /\ tcEvent \in Handles /\ evLive \subseteq Clients
    /\ evSet \in [Clients -> SUBSET {"CLOSE", "EXIT"}]
PeerTypes ==
    /\ rcv \in [Clients -> PeerData \union {"none"}]
    /\ conn \in [Clients -> {"up", "fin", "reset"}]
TcpcTypes ==
    /\ tpc \in [Clients -> TcpcPcs]
    /\ msg \in [Clients -> PeerData \union {"none", "eof"}]
HelperTypes ==
    /\ t1 \in [Clients -> Tcth1Pcs] /\ t2 \in [Clients -> Tcth2Pcs]
    /\ arg1 \in [Clients -> Handles]

\* Every variable has its type: a handle names a client object or is RT_NULL,
\* a thread is at one of its steps, and the pipe is never overfilled.
TypeOK ==
    /\ CtrlTypes /\ CallTypes /\ ClientTypes /\ PipeTypes
    /\ EventTypes /\ PeerTypes /\ TcpcTypes /\ HelperTypes

Init ==
    /\ lock = 0 /\ end = 0 /\ socketHdl = Null /\ tcEvent = Null
    /\ cfg \in Params
    /\ pc = [t \in Callers |-> "idle"] /\ ret = [t \in Callers |-> "idle"]
    /\ hdl = [t \in Callers |-> Null]
    /\ live = {} /\ sockOpen = {} /\ rx = {} /\ pipes = {}
    /\ used = [c \in Clients |-> Null] /\ pipe = [c \in Clients |-> <<>>]
    /\ evLive = {} /\ evSet = [c \in Clients |-> {}]
    /\ rcv = [c \in Clients |-> "none"] /\ conn = [c \in Clients |-> "up"]
    /\ tpc = [c \in Clients |-> "none"] /\ msg = [c \in Clients |-> "none"]
    /\ t1 = [c \in Clients |-> "none"] /\ t2 = [c \in Clients |-> "none"]
    /\ arg1 = [c \in Clients |-> Null]

-----------------------------------------------------------------------------
(* Scheduling, thread lookup and the timing assumption.                     *)

\* Priority 10 code between two blocking calls; a failed RT_ASSERT spins.
HelperBusy == \E c \in Clients : \/ t1[c] \in {"send", "assert"}
                                 \/ t2[c] \in {"delete", "endclr", "assert"}
\* Priority 12 code between recv() and the next blocking call.
TcpcBusy == \E c \in Clients : tpc[c] \in {"cb", "assert"}
LowMayRun == ~HelperBusy /\ ~TcpcBusy

\* rt_thread_find("tcpc"): a thread that has exited is still found until the
\* idle thread has deleted its object.
TcpcFound == \E c \in Clients : tpc[c] # "none"
Alive(c) == tpc[c] \notin {"none", "defunct"}

\* The timing that Calm assumes: a call starts when no other is in progress
\* and every session is either up, with nothing under way that ends it, or
\* over, its threads gone; and the server ends a session between calls.
Settled ==
    \A c \in Clients :
        \/ tpc[c] = "none" /\ t1[c] = "none" /\ t2[c] = "none"
        \/ /\ Alive(c) /\ t1[c] = "poll" /\ t2[c] = "poll"
           /\ msg[c] \in {"none", "data"} /\ rcv[c] \in {"none", "data"}
           /\ conn[c] = "up"
NoCall == \A t \in Callers : pc[t] = "idle"
MayCall == Calm => Settled /\ NoCall
MayEnd(c) == Calm => t2[c] = "poll" /\ NoCall

EventOK == tcEvent \in evLive       \* the RT_ASSERTs of rt_event_send/recv

-----------------------------------------------------------------------------
(* The callers: steps that touch the control object only.                   *)

Goto(t, l) == pc' = [pc EXCEPT ![t] = l]
Stay == UNCHANGED <<ret, hdl>>

Starts(t, op, l) ==
    /\ pc[t] = "idle" /\ op \in Ops[t] /\ MayCall
    /\ Goto(t, l) /\ Stay

CallConnect(t) == Starts(t, "connect", "conn_lock") /\ UNCHANGED ctrlVars
CallDisconnect(t) == Starts(t, "disconnect", "disc_lock") /\ UNCHANGED ctrlVars
CallSend(t) == Starts(t, "send", "send_lock") /\ UNCHANGED ctrlVars

\* taskEth_entry: the 10 minute check, or a changed parameter block, finds no
\* connection and connects.
KeepAlive(t) ==
    /\ ~TcpcFound
    /\ Starts(t, "keep", "conn_lock")
    /\ UNCHANGED ctrlVars

\* setNetCfg with a parameter block that differs from g_paramNet.
SetNetCfg(t) ==
    /\ Starts(t, "set", "set_find")
    /\ cfg' \in Params \ {cfg}
    /\ UNCHANGED <<lock, end, socketHdl>>

\* Mutant: the new parameters are stored, the open connection is kept.
SetCurNetCfg_StoreOnly(t) ==
    /\ pc[t] = "set_find"
    /\ Goto(t, "idle") /\ Stay
    /\ UNCHANGED ctrlVars

\* setCurNetCfg reconnects only if there is a connection now.
SetCurNetCfg(t) ==
    /\ pc[t] = "set_find"
    /\ Goto(t, IF TcpcFound THEN "disc_lock" ELSE "idle")
    /\ ret' = [ret EXCEPT ![t] = IF TcpcFound THEN "set_apply" ELSE "idle"]
    /\ UNCHANGED <<hdl, ctrlVars>>

\* ... 10 ms after disconnect(), time for the idle thread when Calm.
SetReconnect(t) ==
    /\ pc[t] = "set_apply"
    /\ Calm => \A c \in Clients : tpc[c] # "defunct"
    /\ Goto(t, "conn_lock") /\ Stay
    /\ UNCHANGED ctrlVars

\* lockit() tests the flag, then sets it.
LockTest(t) ==
    /\ pc[t] \in DOMAIN Taking /\ lock = 0
    /\ Goto(t, Taking[pc[t]]) /\ Stay
    /\ UNCHANGED ctrlVars

LockSet(t) ==
    /\ pc[t] \in DOMAIN Locked
    /\ lock' = 1
    /\ Goto(t, Locked[pc[t]]) /\ Stay
    /\ UNCHANGED <<end, socketHdl, cfg>>

\* Mutant: connect() does not look for an earlier session.
HasSession_Ignored == FALSE

\* connect(): socketHdl is left from an earlier session, running or not.
HasSession == socketHdl # Null

\* connect(): an earlier session is disconnected first, with the lock released.
ConnCheck(t) ==
    /\ pc[t] = "conn_chk"
    /\ \/ /\ HasSession
          /\ lock' = 0
          /\ Goto(t, "disc_lock") /\ ret' = [ret EXCEPT ![t] = "conn_relock"]
       \/ /\ ~HasSession
          /\ Goto(t, "conn_begin") /\ UNCHANGED <<ret, lock>>
    /\ UNCHANGED <<hdl, end, socketHdl, cfg>>

\* Mutant: an early return of connect() that keeps the lock.
ConnUnlock_Kept(t) ==
    /\ pc[t] = "conn_unlock"
    /\ Goto(t, "idle") /\ hdl' = [hdl EXCEPT ![t] = Null]
    /\ UNCHANGED <<ret, ctrlVars>>

ConnUnlock(t) ==
    /\ pc[t] = "conn_unlock"
    /\ lock' = 0
    /\ Goto(t, "idle") /\ hdl' = [hdl EXCEPT ![t] = Null]
    /\ UNCHANGED <<ret, end, socketHdl, cfg>>

\* Mutant: disconnect() waits whether or not there is a thread to end.
DiscFind_Always(t) ==
    /\ pc[t] = "disc_find"
    /\ Goto(t, "disc_end") /\ Stay
    /\ UNCHANGED ctrlVars

\* disconnect(): look for the thread, ask it to end, wait until tcth2 has
\* cleared the flag, return to the caller.
DiscFind(t) ==
    /\ pc[t] = "disc_find"
    /\ Goto(t, IF TcpcFound THEN "disc_end" ELSE "disc_unlock") /\ Stay
    /\ UNCHANGED ctrlVars

DiscEnd(t) ==
    /\ pc[t] = "disc_end"
    /\ end' = 1
    /\ Goto(t, "disc_wait") /\ Stay
    /\ UNCHANGED <<lock, socketHdl, cfg>>

\* Mutant: disconnect() returns without waiting.
DiscWait_Not(t) ==
    /\ pc[t] = "disc_wait"
    /\ Goto(t, "disc_unlock") /\ Stay
    /\ UNCHANGED ctrlVars

DiscWait(t) ==
    /\ pc[t] = "disc_wait" /\ end = 0
    /\ Goto(t, "disc_unlock") /\ Stay
    /\ UNCHANGED ctrlVars

DiscUnlock(t) ==
    /\ pc[t] = "disc_unlock"
    /\ lock' = 0
    /\ Goto(t, ret[t]) /\ ret' = [ret EXCEPT ![t] = "idle"]
    /\ UNCHANGED <<hdl, end, socketHdl, cfg>>

SendUnlock(t) ==
    /\ pc[t] = "send_unlock"
    /\ lock' = 0
    /\ Goto(t, "idle") /\ Stay
    /\ UNCHANGED <<end, socketHdl, cfg>>

\* Mutant: a handle that is there already is kept.
ConnHdl_First(t) ==
    /\ pc[t] = "conn_hdl"
    /\ socketHdl' = IF socketHdl = Null THEN hdl[t] ELSE socketHdl
    /\ Goto(t, "conn_rx") /\ Stay
    /\ UNCHANGED <<lock, end, cfg>>

ConnHdl(t) ==
    /\ pc[t] = "conn_hdl"
    /\ socketHdl' = hdl[t]
    /\ Goto(t, "conn_rx") /\ Stay
    /\ UNCHANGED <<lock, end, cfg>>

-----------------------------------------------------------------------------
(* The callers: steps of connect() and send() on the session's objects.     *)

\* A client object the heap can hand out: nothing refers to it any more.
Allocatable(c) ==
    /\ c \notin live \union evLive \union pipes
    /\ tpc[c] = "none" /\ t1[c] = "none" /\ t2[c] = "none"
    /\ c # socketHdl /\ c # tcEvent
    /\ \A t \in Callers : hdl[t] # c

\* connect() clears the end flag and starts a client with the parameters of
\* this moment (tcpclient_create and the socket of socket_init); without
\* memory or a socket rt_tcpclient_start returns RT_NULL.
ConnBegin(t) ==
    /\ pc[t] = "conn_begin"
    /\ end' = 0
    /\ \/ \E c \in Clients :
             /\ Allocatable(c)
             /\ live' = live \union {c} /\ sockOpen' = sockOpen \union {c}
             /\ used' = [used EXCEPT ![c] = cfg]
             /\ hdl' = [hdl EXCEPT ![t] = c]
             /\ Goto(t, "conn_sock") /\ UNCHANGED socketHdl
       \/ /\ "client" \in FailAt \/ \A c \in Clients : ~Allocatable(c)
          /\ socketHdl' = Null
          /\ Goto(t, "conn_unlock") /\ UNCHANGED <<hdl, live, sockOpen, used>>
    /\ UNCHANGED <<ret, lock, cfg, rx, pipes, pipe, eventVars, peerVars,
                   tcpcVars, helperVars>>

\* The server accepted, the pipe is open and thread tcpc started: it runs from
\* here on, before connect() has stored the handle.
ConnStarted(t) ==
    /\ pc[t] = "conn_sock"
    /\ pipes' = pipes \union {hdl[t]}
    /\ tpc' = [tpc EXCEPT ![hdl[t]] = "start"]
    /\ Goto(t, "conn_hdl") /\ Stay
    /\ UNCHANGED <<ctrlVars, live, sockOpen, rx, used, pipe, eventVars,
                   peerVars, msg, helperVars>>

\* rt_tcpclient_start fails later and tcpclient_destory releases the client,
\* but not the pipe device.  After a failed open for writing the read end is
\* closed a second time: RT_ASSERT fails, unless another thread has been given
\* that descriptor number meanwhile.
ConnStartFails(t) ==
    /\ pc[t] = "conn_sock"
    /\ sockOpen' = sockOpen \ {hdl[t]}
    /\ \E stage \in FailAt \intersect {"connect", "pipe", "open_read",
                                       "open_write", "thread"} :
          /\ pipes' = IF stage \in {"connect", "pipe"} THEN pipes
                      ELSE pipes \union {hdl[t]}
          /\ \/ /\ live' = live \ {hdl[t]}
                /\ used' = [used EXCEPT ![hdl[t]] = Null]
                /\ socketHdl' = Null /\ hdl' = [hdl EXCEPT ![t] = Null]
                /\ Goto(t, "conn_unlock")
             \/ /\ stage = "open_write"
                /\ Goto(t, "assert") /\ UNCHANGED <<live, used, socketHdl, hdl>>
    /\ UNCHANGED <<ret, lock, end, cfg, rx, pipe, eventVars, peerVars, tcpcVars,
                   helperVars>>

\* rt_tcpclient_attach_rx_cb(socketHdl, rt_tc_rx_cb).
ConnAttach(t) ==
    /\ pc[t] = "conn_rx"
    /\ rx' = IF socketHdl \in live THEN rx \union {socketHdl} ELSE rx
    /\ Goto(t, IF socketHdl \in live \union {Null} THEN "conn_ev" ELSE "fault")
    /\ Stay
    /\ UNCHANGED <<ctrlVars, live, sockOpen, pipes, used, pipe, eventVars,
                   peerVars, tcpcVars, helperVars>>

ConnEvent(t) ==
    /\ pc[t] = "conn_ev"
    /\ \/ /\ tcEvent' = hdl[t] /\ evLive' = evLive \union {hdl[t]}
          /\ Goto(t, "conn_t1")
       \/ /\ "event" \in FailAt
          /\ tcEvent' = Null /\ UNCHANGED evLive
          /\ Goto(t, "conn_unlock")
    /\ Stay
    /\ UNCHANGED <<ctrlVars, clientVars, pipe, evSet, peerVars, tcpcVars,
                   helperVars>>

\* The helper threads are given the handle that is in socketHdl now.
ConnTcth1(t) ==
    /\ pc[t] = "conn_t1"
    /\ \/ /\ t1' = [t1 EXCEPT ![hdl[t]] = "poll"]
          /\ arg1' = [arg1 EXCEPT ![hdl[t]] = socketHdl]
          /\ Goto(t, "conn_t2")
       \/ /\ "tcth1" \in FailAt
          /\ Goto(t, "conn_unlock") /\ UNCHANGED <<t1, arg1>>
    /\ Stay
    /\ UNCHANGED <<ctrlVars, clientVars, pipe, eventVars, peerVars, tcpcVars, t2>>

ConnTcth2(t) ==
    /\ pc[t] = "conn_t2"
    /\ \/ t2' = [t2 EXCEPT ![hdl[t]] = "poll"]
       \/ "tcth2" \in FailAt /\ UNCHANGED t2
    /\ Goto(t, "conn_unlock") /\ Stay
    /\ UNCHANGED <<ctrlVars, clientVars, pipe, eventVars, peerVars, tcpcVars,
                   t1, arg1>>

\* Mutant: one message too many.
PipeHasRoom_OneMore(c) == Len(pipe[c]) <= PipeCap

PipeHasRoom(c) == Len(pipe[c]) < PipeCap

\* send() writes into the session's pipe and blocks, with the lock, while the
\* pipe is full.  The handle is not cleared when the client is freed.
SendWrite(t) ==
    /\ pc[t] = "send_wr"
    /\ \/ /\ socketHdl = Null
          /\ Goto(t, "send_unlock") /\ UNCHANGED pipe
       \/ /\ socketHdl \in live /\ PipeHasRoom(socketHdl)
          /\ \E m \in SendData :
                pipe' = [pipe EXCEPT ![socketHdl] = Append(@, m)]
          /\ Goto(t, "send_unlock")
       \/ /\ socketHdl \in Clients \ live
          /\ Goto(t, "fault") /\ UNCHANGED pipe
    /\ Stay
    /\ UNCHANGED <<ctrlVars, clientVars, eventVars, peerVars, tcpcVars,
                   helperVars>>

-----------------------------------------------------------------------------
(* Thread tcpc of session c: tcpclient_thread_entry and select_handle.       *)

TcpcGoto(c, l) == tpc' = [tpc EXCEPT ![c] = l]

\* select_handle uses the descriptors of a client that tcth1 has closed.
TcpcStale(c) ==
    \/ tpc[c] \in {"select", "recv", "pipe"} /\ c \notin live \intersect sockOpen
    \/ tpc[c] = "cb" /\ c \notin live

SockReady(c) == rcv[c] # "none" \/ conn[c] # "up"
PipeReady(c) == pipe[c] # <<>>

TcpcFault(c) ==
    /\ TcpcStale(c)
    /\ TcpcGoto(c, "fault")
    /\ UNCHANGED <<pipe, evSet, rcv, msg>>

\* The two buffers; without memory the thread returns, and tells nobody.
TcpcStart(c) ==
    /\ tpc[c] = "start"
    /\ \/ TcpcGoto(c, "select")
       \/ "buf" \in FailAt /\ TcpcGoto(c, "defunct")
    /\ UNCHANGED <<pipe, evSet, rcv, msg>>

\* select() for one second: only its timeout looks at the end flag (without
\* it the loop goes round); a failed select() ends the session too.
SelectEnds(c) ==
    /\ tpc[c] = "select" /\ ~TcpcStale(c)
    /\ \/ end = 1 /\ ~SockReady(c) /\ ~PipeReady(c)
       \/ "select" \in FailAt
    /\ TcpcGoto(c, "cb")
    /\ msg' = [msg EXCEPT ![c] = "eof"]
    /\ UNCHANGED <<pipe, evSet, rcv>>

SelectReady(c) ==
    /\ tpc[c] = "select" /\ ~TcpcStale(c)
    /\ SockReady(c) \/ PipeReady(c)
    /\ TcpcGoto(c, IF SockReady(c) THEN "recv" ELSE "pipe")
    /\ UNCHANGED <<pipe, evSet, rcv, msg>>

\* recv() < 0 leaves without the callback; 0 and data go through it.
Recv(c) ==
    /\ tpc[c] = "recv" /\ ~TcpcStale(c)
    /\ IF conn[c] = "reset"
       THEN TcpcGoto(c, "defunct") /\ UNCHANGED <<rcv, msg>>
       ELSE /\ TcpcGoto(c, "cb")
            /\ msg' = [msg EXCEPT ![c] = IF rcv[c] = "none" THEN "eof" ELSE rcv[c]]
            /\ rcv' = [rcv EXCEPT ![c] = "none"]
    /\ UNCHANGED <<pipe, evSet>>

\* What follows the callback: EXIT_HANDLE or, for a pipe that was readable in
\* the same select(), its turn; else the next round.  An exiting thread stays
\* on the defunct list until the idle thread reaps it.
AfterCb(c) == IF msg[c] \in {"exit", "eof"} THEN {"defunct"}
              ELSE {"select"} \union (IF PipeReady(c) THEN {"pipe"} ELSE {})

\* RX_CB_HANDLE: rt_tc_rx_cb posts TC_TCPCLIENT_CLOSE on the global tc_event.
RxCb(c) ==
    /\ tpc[c] = "cb" /\ ~TcpcStale(c)
    /\ LET posts == c \in rx /\ msg[c] # "data"
       IN \/ /\ posts /\ EventOK
             /\ evSet' = [evSet EXCEPT ![tcEvent] = @ \union {"CLOSE"}]
             /\ \E l \in AfterCb(c) : TcpcGoto(c, l)
          \/ /\ posts /\ ~EventOK
             /\ TcpcGoto(c, "assert") /\ UNCHANGED evSet
          \/ /\ ~posts \/ "rx_malloc" \in FailAt
             /\ \E l \in AfterCb(c) : TcpcGoto(c, l)
             /\ UNCHANGED evSet
    /\ msg' = [msg EXCEPT ![c] = "none"]
    /\ UNCHANGED <<pipe, rcv>>

\* The pipe's bytes go to the socket; the text "exit" ends the thread without
\* the callback.
PipeRead(c) ==
    /\ tpc[c] = "pipe" /\ ~TcpcStale(c)
    /\ TcpcGoto(c, IF pipe[c] = <<"exit">> THEN "defunct" ELSE "select")
    /\ pipe' = [pipe EXCEPT ![c] = <<>>]
    /\ UNCHANGED <<evSet, rcv, msg>>

TcpcStep(c) ==
    /\ ~HelperBusy
    /\ \/ TcpcFault(c) \/ TcpcStart(c) \/ SelectEnds(c) \/ SelectReady(c)
       \/ Recv(c) \/ RxCb(c) \/ PipeRead(c)
    /\ UNCHANGED <<ctrlVars, callVars, clientVars, tcEvent, evLive, conn,
                   helperVars>>

\* rt_thread_idle_excute deletes the exited thread's object.
IdleReap(c) ==
    /\ LowMayRun /\ tpc[c] = "defunct"
    /\ TcpcGoto(c, "none")
    /\ UNCHANGED <<ctrlVars, callVars, clientVars, pipe, eventVars, peerVars,
                   msg, helperVars>>

-----------------------------------------------------------------------------
(* The helper threads of session c, both polling the global tc_event.        *)

\* rt_event_recv(tc_event, CLOSE, clear), polled every 100 ms.
Tcth1Poll(c) ==
    /\ t1[c] = "poll"
    /\ EventOK => "CLOSE" \in evSet[tcEvent]
    /\ t1' = [t1 EXCEPT ![c] = IF EventOK THEN "send" ELSE "assert"]
    /\ evSet' = IF EventOK THEN [evSet EXCEPT ![tcEvent] = @ \ {"CLOSE"}] ELSE evSet
    /\ UNCHANGED <<arg1, clientVars, pipe, peerVars>>

\* Mutant: tcth1 closes the client without telling tcth2.
Tcth1Send_Not(c) ==
    /\ t1[c] = "send"
    /\ t1' = [t1 EXCEPT ![c] = IF arg1[c] = Null THEN "none" ELSE "close"]
    /\ UNCHANGED <<arg1, evSet, clientVars, pipe, peerVars>>

Tcth1Send(c) ==
    /\ t1[c] = "send"
    /\ t1' = [t1 EXCEPT ![c] = CASE ~EventOK -> "assert"
                                 [] EventOK /\ arg1[c] = Null -> "none"
                                 [] OTHER -> "close"]
    /\ evSet' = IF EventOK THEN [evSet EXCEPT ![tcEvent] = @ \union {"EXIT"}]
                ELSE evSet
    /\ UNCHANGED <<arg1, clientVars, pipe, peerVars>>

\* rt_tcpclient_close: socket_deinit asserts that closesocket() succeeds.
Tcth1Close(c) ==
    /\ t1[c] = "close"
    /\ t1' = [t1 EXCEPT ![c] = IF arg1[c] \in live \intersect sockOpen
                               THEN "free" ELSE "assert"]
    /\ sockOpen' = sockOpen \ {arg1[c]}
    /\ rcv' = [rcv EXCEPT ![arg1[c]] = "none"]
    /\ conn' = [conn EXCEPT ![arg1[c]] = "up"]
    /\ UNCHANGED <<arg1, evSet, live, rx, pipes, used, pipe>>

\* ... pipe_deinit and tcpclient_destory, which assert that close() succeeds.
Tcth1Free(c) ==
    /\ t1[c] = "free"
    /\ t1' = [t1 EXCEPT ![c] = IF arg1[c] \in live THEN "none" ELSE "assert"]
    /\ arg1' = [arg1 EXCEPT ![c] = Null]
    /\ live' = live \ {arg1[c]} /\ pipes' = pipes \ {arg1[c]}
    /\ rx' = rx \ {arg1[c]} /\ used' = [used EXCEPT ![arg1[c]] = Null]
    /\ pipe' = [pipe EXCEPT ![arg1[c]] = <<>>]
    /\ UNCHANGED <<evSet, sockOpen, peerVars>>

\* rt_event_recv(tc_event, EXIT, clear), polled every 100 ms.
Tcth2Poll(c) ==
    /\ t2[c] = "poll"
    /\ EventOK => "EXIT" \in evSet[tcEvent]
    /\ t2' = [t2 EXCEPT ![c] = IF EventOK THEN "delete" ELSE "assert"]
    /\ evSet' = IF EventOK THEN [evSet EXCEPT ![tcEvent] = @ \ {"EXIT"}] ELSE evSet
    /\ UNCHANGED <<end, evLive>>

\* Mutant: the event is not deleted.
Tcth2Delete_Not(c) ==
    /\ t2[c] = "delete"
    /\ t2' = [t2 EXCEPT ![c] = "endclr"]
    /\ UNCHANGED <<end, evLive, evSet>>

\* rt_event_delete: tc_event goes on pointing to the freed object.
Tcth2Delete(c) ==
    /\ t2[c] = "delete"
    /\ t2' = [t2 EXCEPT ![c] = IF EventOK THEN "endclr" ELSE "assert"]
    /\ evLive' = evLive \ {tcEvent}
    /\ evSet' = IF EventOK THEN [evSet EXCEPT ![tcEvent] = {}] ELSE evSet
    /\ UNCHANGED end

\* Mutant: the end flag is not cleared.
Tcth2End_Kept(c) ==
    /\ t2[c] = "endclr"
    /\ t2' = [t2 EXCEPT ![c] = "none"]
    /\ UNCHANGED <<end, evLive, evSet>>

Tcth2End(c) ==
    /\ t2[c] = "endclr"
    /\ t2' = [t2 EXCEPT ![c] = "none"]
    /\ end' = 0
    /\ UNCHANGED <<evLive, evSet>>

HelperRest == <<lock, socketHdl, cfg, callVars, tcEvent, tcpcVars>>

Tcth1Step(c) ==
    /\ Tcth1Poll(c) \/ Tcth1Send(c) \/ Tcth1Close(c) \/ Tcth1Free(c)
    /\ UNCHANGED <<HelperRest, end, evLive, t2>>

Tcth2Step(c) ==
    /\ Tcth2Poll(c) \/ Tcth2Delete(c) \/ Tcth2End(c)
    /\ UNCHANGED <<HelperRest, clientVars, pipe, peerVars, t1, arg1>>

-----------------------------------------------------------------------------
(* The server and the network.                                               *)

\* Bytes arrive; recv() returns what has accumulated, so a text is only seen
\* as such when it is received alone.
PeerSend(c) ==
    /\ Alive(c) /\ c \in sockOpen /\ conn[c] = "up"
    /\ \E m \in PeerActs \intersect PeerData :
          /\ m # "data" => MayEnd(c)
          /\ rcv' = [rcv EXCEPT ![c] = IF @ = "none" THEN m ELSE "data"]
    /\ UNCHANGED <<ctrlVars, callVars, clientVars, pipe, eventVars, conn,
                   tcpcVars, helperVars>>

PeerEnd(c) ==
    /\ Alive(c) /\ c \in sockOpen /\ conn[c] = "up" /\ MayEnd(c)
    /\ \E how \in PeerActs \intersect {"fin", "reset"} :
          conn' = [conn EXCEPT ![c] = how]
    /\ UNCHANGED <<ctrlVars, callVars, clientVars, pipe, eventVars, rcv,
                   tcpcVars, helperVars>>

-----------------------------------------------------------------------------
Call(t) ==
    /\ LowMayRun
    /\ CallConnect(t) \/ CallDisconnect(t) \/ CallSend(t) \/ SetNetCfg(t)
    /\ UNCHANGED sessVars

Monitor(t) == LowMayRun /\ KeepAlive(t) /\ UNCHANGED sessVars

CtrlStep(t) ==
    /\ \/ SetCurNetCfg(t) \/ SetReconnect(t) \/ LockTest(t) \/ LockSet(t)
       \/ ConnCheck(t) \/ ConnHdl(t) \/ ConnUnlock(t) \/ DiscFind(t)
       \/ DiscEnd(t) \/ DiscWait(t) \/ DiscUnlock(t) \/ SendUnlock(t)
    /\ UNCHANGED sessVars

InCall(t) ==
    /\ LowMayRun
    /\ \/ CtrlStep(t) \/ ConnBegin(t) \/ ConnStarted(t) \/ ConnStartFails(t)
       \/ ConnAttach(t) \/ ConnEvent(t) \/ ConnTcth1(t) \/ ConnTcth2(t)
       \/ SendWrite(t)

Next ==
    \/ \E t \in Callers : Call(t) \/ Monitor(t) \/ InCall(t)
    \/ \E c \in Clients : \/ TcpcStep(c) \/ Tcth1Step(c) \/ Tcth2Step(c)
                          \/ IdleReap(c) \/ PeerSend(c) \/ PeerEnd(c)

Spec == Init /\ [][Next]_vars

\* The scheduler runs every ready thread.  The threads sleep between their
\* polls and the processor is not saturated, so a thread that is ready again
\* and again while those above it sleep also gets to run.
Fairness ==
    /\ \A t \in Callers : SF_vars(Monitor(t)) /\ SF_vars(InCall(t))
    /\ \A c \in Clients : /\ SF_vars(TcpcStep(c)) /\ SF_vars(IdleReap(c))
                          /\ WF_vars(Tcth1Step(c)) /\ WF_vars(Tcth2Step(c))

FairSpec == Spec /\ Fairness

\* ... and the server is not away for ever: a connect() that is repeated
\* without end succeeds again and again.
ServerSpec == FairSpec /\ \A t \in Callers : SF_vars(LowMayRun /\ ConnStarted(t))

-----------------------------------------------------------------------------
(* Properties.                                                               *)

\* The state of session c as NetSession sees it: up while its tcpc runs, then
\* ending while any of its objects or threads is left or to be made.
SessionState(c) ==
    CASE Alive(c) -> "up"
      [] ~Alive(c) /\ (\/ tpc[c] # "none" \/ t1[c] # "none" \/ t2[c] # "none"
                       \/ c \in pipes \union evLive
                       \/ \E t \in Callers : hdl[t] = c /\ pc[t] \in Building)
           -> "ending"
      [] OTHER -> "idle"
Session == INSTANCE NetSession WITH st <- [c \in Clients |-> SessionState(c)]

\* The controller implements NetSession: connections follow one another, one
\* at a time, and a client object is used again only after its release.
RefinesSession == Session!Spec

\* ... and every connection that is over is released.
RefinesFairSession == Session!FairSpec

\* tcpc never works on a client that a tcth1 has closed: select_handle reads
\* thiz->sock_fd, the pipe and thiz->rx without a check, so whichever thread
\* closes the client must do so after tcpc's last use.
TcpcOwnsClient ==
    \A c \in Clients :
        Alive(c) => c \in live /\ c \in sockOpen /\ tpc[c] # "fault"

\* Every rt_tcpclient_close finds its client open and nobody else closing it:
\* no socket, pipe or memory block is released twice (the RT_ASSERT(res == 0)
\* of socket_deinit, pipe_deinit and tcpclient_destory).
ClosedOnce ==
    \A c \in Clients :
        /\ t1[c] = "close" => arg1[c] \in live \intersect sockOpen
        /\ t1[c] = "free" => arg1[c] \in live
        /\ \A d \in Clients \ {c} :
              {t1[c], t1[d]} \subseteq {"close", "free"} => arg1[c] # arg1[d]

\* At most one session runs: connect() ends the previous one first.
OneSession == \A c, d \in Clients : Alive(c) /\ Alive(d) => c = d

\* While no call is in progress, the session that runs was opened with the
\* parameters in force (setNetCfg reconnects an open session).
ParamsInEffect == NoCall => \A c \in Clients : Alive(c) => used[c] = cfg

\* send() never writes through a handle whose client has been freed.
SendHandleLive == \A t \in Callers : pc[t] # "fault"

\* No RT_ASSERT of the sequence fails and no freed client is touched.
NoFault ==
    /\ \A t \in Callers : pc[t] \notin {"assert", "fault"}
    /\ \A c \in Clients : /\ tpc[c] \notin {"assert", "fault"}
                          /\ t1[c] # "assert" /\ t2[c] # "assert"

\* When the threads of all sessions are gone and no call is in progress, every
\* client, socket, pipe device and event of the past sessions is released.
AllReleased ==
    (NoCall /\ \A c \in Clients : tpc[c] = "none" /\ t1[c] = "none" /\ t2[c] = "none")
        => live = {} /\ sockOpen = {} /\ pipes = {} /\ evLive = {}

\* While disconnect() waits for the end flag, a tcth2 that will clear it is
\* still there.
WaitHasWaker ==
    \A t \in Callers :
        pc[t] = "disc_wait" /\ end = 1 => \E c \in Clients : t2[c] # "none"

\* disconnect() returns once the line is quiet for the second select() needs.
DisconnectReturns ==
    (<>[](\A c \in Clients : rcv[c] = "none"))
        => \A t \in Callers : pc[t] = "disc_wait" ~> pc[t] = "idle"

\* The monitor keeps the board connected: without a session, one is opened.
KeepAliveReconnects == []<>TcpcFound
=============================================================================
