----------------------------- MODULE NetCtrlInv -----------------------------
(****************************************************************************)
(* The inductive invariant behind the ownership properties of NetCtrl, for  *)
(* a single calling thread and a server that does not send the text         *)
(* "TCP disconnect": whatever else the network does and whatever call       *)
(* fails, a client is closed once, after the last use by its own tcpc.      *)
(****************************************************************************)
EXTENDS NetCtrl

\* What makes the types inductive: connect() has a client at every step that
\* works on one.
HandleOK ==
    \A t \in Callers :
        pc[t] \in {"conn_sock"} \union (Building \ {"conn_unlock"}) => hdl[t] \in Clients
TypeInv == TypeOK /\ HandleOK

SingleCaller == \A s, t \in Callers : s = t

\* The only calls of connect() during which a session runs whose event does
\* not exist yet.
BeforeEvent == {"conn_hdl", "conn_rx", "conn_ev"}
WithoutEvent(c) == \E t \in Callers : pc[t] \in BeforeEvent /\ hdl[t] = c

\* Steps of a call at which no tcpc runs.
NoSessionPcs == {"disc_unlock", "conn_relock", "conn_retake", "conn_begin",
                 "conn_sock", "set_apply"}

\* The text that would close the client under a running tcpc never arrives,
\* and a tcpc in its callback has a message.
InvMsg ==
    \A c \in Clients :
        /\ rcv[c] # "disc" /\ msg[c] # "disc"
        /\ tpc[c] = "cb" => msg[c] # "none"

\* An event that does not exist has no bits.
InvEvent == \A c \in Clients : c \notin evLive => evSet[c] = {}

\* The client that connect() is building is open, and its helpers do not
\* exist; from the time the handle is stored it is the one in socketHdl.
InvBuild ==
    \A t \in Callers :
        /\ pc[t] \in {"conn_sock"} \union BeforeEvent \union {"conn_t1"} =>
              /\ hdl[t] \in live /\ hdl[t] \in sockOpen
              /\ t1[hdl[t]] = "none"
        /\ pc[t] \in {"conn_sock"} \union BeforeEvent => hdl[t] \notin evLive
        /\ pc[t] = "conn_sock" => tpc[hdl[t]] = "none"
        /\ pc[t] \in {"conn_rx", "conn_ev", "conn_t1"} => socketHdl = hdl[t]
        /\ pc[t] = "conn_t1" => tcEvent = hdl[t]

\* Where connect() and disconnect() believe that no session runs, none does.
InvQuiet ==
    \A t \in Callers, c \in Clients :
        /\ pc[t] \in NoSessionPcs => ~Alive(c)
        /\ pc[t] = "disc_wait" /\ end = 0 => ~Alive(c)
        /\ socketHdl = Null /\ Alive(c) => pc[t] = "conn_hdl"

\* Once the end of a session has been announced - a bit set in the event, a
\* helper between its two steps - the only session that can be running is one
\* whose own event is still to be created.
Announced ==
    \/ tcEvent \in evLive /\ evSet[tcEvent] # {}
    \/ \E c \in Clients : t1[c] = "send" \/ t2[c] \in {"delete", "endclr"}
InvToken == Announced => \A c \in Clients : Alive(c) => WithoutEvent(c)

\* A tcth1 works on the client of its own session; it holds it open until it
\* closes it, and the session's tcpc has ended by the time it does.
InvOwner ==
    \A c \in Clients :
        /\ t1[c] \in {"poll", "send", "close", "free"} => arg1[c] = c /\ c \in live
        /\ t1[c] \in {"poll", "send", "close"} => c \in sockOpen
        /\ t1[c] \in {"send", "close", "free"} => ~Alive(c)

Ownership ==
    /\ InvMsg /\ InvEvent /\ InvBuild /\ InvQuiet /\ InvToken /\ InvOwner
    /\ TcpcOwnsClient /\ OneSession

\* The inductive invariant: no client is used after it is closed, no two
\* sessions run, and what keeps it so.
OwnershipInv == TypeOK /\ Ownership

\* Who closes a client, whatever the server sends and whatever fails.  A client
\* under construction is open, has no tcth1 and, once the handle is stored, is
\* the one in socketHdl, so that its tcth1 is given the client of its own
\* session; that tcth1 then is the only thread to close it.
CloseBuild ==
    \A t \in Callers :
        /\ pc[t] \in {"conn_sock"} \union BeforeEvent \union {"conn_t1"} =>
              hdl[t] \in live \intersect sockOpen /\ t1[hdl[t]] = "none"
        /\ pc[t] \in {"conn_rx", "conn_ev", "conn_t1"} => socketHdl = hdl[t]
CloseOwner ==
    \A c \in Clients :
        /\ t1[c] \in {"poll", "send", "close", "free"} => arg1[c] = c /\ c \in live
        /\ t1[c] \in {"poll", "send", "close"} => c \in sockOpen
CloseInv == TypeInv /\ CloseBuild /\ CloseOwner

\* A failed rt_tcpclient_start leaves nothing behind: the calls after whose
\* failure the pipe device stays registered succeed.
CleanStart == FailAt \intersect {"open_read", "open_write", "thread"} = {}

\* A call refers to a client only while it builds one, and a client that is
\* not started yet has no tcth2 and no pipe device left from its last use.
InvRefs ==
    \A t \in Callers :
        /\ pc[t] \notin {"conn_sock", "assert", "fault"} \union Building => hdl[t] = Null
        /\ pc[t] = "conn_sock" => t2[hdl[t]] = "none" /\ hdl[t] \notin pipes

\* setNetCfg has changed the parameters and not yet ended the old session.
Replacing(t) ==
    \/ pc[t] = "set_find"
    \/ /\ pc[t] \in {"disc_lock", "disc_take", "disc_find", "disc_end", "disc_wait"}
       /\ ret[t] = "set_apply"

\* A session that runs, or is about to start, has the parameters in force,
\* unless it is being replaced.
InvParams ==
    /\ \A t \in Callers : pc[t] = "conn_sock" => used[hdl[t]] = cfg
    /\ \A c \in Clients : Alive(c) => used[c] = cfg \/ \E t \in Callers : Replacing(t)

\* The invariant behind the refinement of NetSession and ParamsInEffect.
SessionInv == OwnershipInv /\ InvRefs /\ InvParams

-----------------------------------------------------------------------------
(* The life of a session when calls and the server take turns (Calm).        *)

\* The timing and the failures under which the controller is safe: one thread
\* calls, it never calls send(), the server closes in good order, and only the
\* first calls of rt_tcpclient_start may fail.
CalmRun ==
    /\ SingleCaller /\ Callers # {} /\ Calm
    /\ \A t \in Callers : "send" \notin Ops[t]
    /\ PeerActs \intersect {"disc", "reset"} = {}
    /\ FailAt \subseteq {"client", "connect", "pipe"}

\* Steps of a call: before it ends the session it finds; and after it has
\* started one.
BeforeEnd == {"conn_lock", "conn_take", "conn_chk", "disc_lock", "disc_take",
              "disc_find", "disc_end", "set_find"}
Started == BeforeEvent \union {"conn_t1", "conn_t2"}

\* tcth1 no longer uses the event.
Late == {"none", "close", "free"}

\* A session of which nothing is left but its tcth1 and the thread object of
\* its tcpc.
Gone(c) == ~Alive(c) /\ t1[c] \in Late /\ t2[c] = "none" /\ c \notin evLive

HasEvent(c) == tcEvent = c /\ c \in evLive

\* A session that connect(), in thread t, has started but not yet completed.
UnderWay(t, c) ==
    /\ Alive(c) /\ t2[c] = "none"
    /\ \/ pc[t] \in BeforeEvent /\ t1[c] = "none" /\ c \notin evLive
       \/ pc[t] = "conn_t1" /\ t1[c] = "none" /\ HasEvent(c) /\ evSet[c] = {}
       \/ pc[t] = "conn_t2" /\ t1[c] = "poll" /\ HasEvent(c) /\ evSet[c] = {}
    /\ pc[t] \in {"conn_ev", "conn_t1", "conn_t2"} => c \in rx

Up(c) ==
    /\ HasEvent(c) /\ evSet[c] = {} /\ Alive(c) /\ c \in rx
    /\ t1[c] = "poll" /\ t2[c] = "poll"

\* A session that is over: its tcpc has posted CLOSE; tcth1 has taken it; tcth1
\* has posted EXIT; tcth2 has taken it, and deleted the event.
Ending(c) ==
    /\ tcEvent = c /\ ~Alive(c)
    /\ \/ c \in evLive /\ evSet[c] = {"CLOSE"} /\ t1[c] = "poll" /\ t2[c] = "poll"
       \/ c \in evLive /\ evSet[c] = {} /\ t1[c] = "send" /\ t2[c] = "poll"
       \/ c \in evLive /\ evSet[c] = {"EXIT"} /\ t1[c] \in Late /\ t2[c] = "poll"
       \/ c \in evLive /\ evSet[c] = {} /\ t1[c] \in Late /\ t2[c] = "delete"
       \/ c \notin evLive /\ t1[c] \in Late /\ t2[c] = "endclr"

\* Nothing has happened that will end the session.
Steady(c) == msg[c] \in {"none", "data"} /\ rcv[c] \in {"none", "data"} /\ conn[c] = "up"

\* Which sessions there may be at each step of a call.
InvPhase ==
    \A t \in Callers, c \in Clients :
        /\ pc[t] \in NoSessionPcs => Gone(c)
        /\ pc[t] \in Started => IF c = hdl[t] THEN UnderWay(t, c) ELSE Gone(c)
        /\ pc[t] \in BeforeEnd \union {"conn_unlock"} => Gone(c) \/ Up(c)
        /\ pc[t] \in {"idle", "disc_wait"} => Gone(c) \/ Up(c) \/ Ending(c)
        /\ pc[t] \in BeforeEnd => tpc[c] # "defunct"
        /\ pc[t] \notin {"idle", "disc_wait"} /\ Alive(c) => Steady(c)

\* disconnect() waits as long as the session it ends has a tcth2, and only then
\* is the end flag set.
InvWait ==
    \A t \in Callers :
        /\ end = 1 => pc[t] = "disc_wait" /\ \E c \in Clients : ~Gone(c)
        /\ pc[t] = "disc_wait" /\ end = 0 => \A c \in Clients : Gone(c)
        /\ pc[t] = "disc_end" => \E c \in Clients : ~Gone(c)

\* What is not released belongs to a tcth1 or to connect().
Owned(c) == \E t \in Callers : /\ hdl[t] = c
                               /\ pc[t] \in {"conn_sock", "conn_t1"} \union BeforeEvent
InvHeld ==
    \A c \in Clients :
        /\ c \in sockOpen => t1[c] \in {"poll", "send", "close"} \/ Owned(c)
        /\ c \in live \union pipes => t1[c] # "none" \/ Owned(c)

\* Before a client is used again its socket has nothing to receive, and its
\* tcpc no message.
InvClean ==
    \A c \in Clients :
        /\ ~Alive(c) => msg[c] = "none"
        /\ ~Alive(c) /\ t1[c] \in {"none", "free"} => rcv[c] = "none" /\ conn[c] = "up"
        /\ tpc[c] = "recv" => SockReady(c)

\* Nothing is sent, nobody is reset, and nothing has failed.
InvCalm ==
    /\ \A t \in Callers :
          pc[t] \notin {"send_lock", "send_take", "send_wr", "send_unlock", "assert", "fault"}
    /\ \A c \in Clients :
          pipe[c] = <<>> /\ conn[c] # "reset" /\ tpc[c] \notin {"assert", "fault"}

\* The invariant behind NoFault, AllReleased and WaitHasWaker.
CalmInv == SessionInv /\ InvPhase /\ InvWait /\ InvHeld /\ InvClean /\ InvCalm
=============================================================================
