---------------------------- MODULE NetCtrlProofs ----------------------------
(****************************************************************************)
(* Proofs about NetCtrl, for any number of clients, callers and parameters. *)
(****************************************************************************)
EXTENDS NetCtrlInv, SequenceTheorems, TLAPS

-----------------------------------------------------------------------------
(* Types.                                                                    *)

\* A step that leaves a group of variables alone preserves the group's types.
LEMMA Frame ==
    /\ CtrlTypes /\ UNCHANGED ctrlVars => CtrlTypes'
    /\ CallTypes /\ HandleOK /\ UNCHANGED callVars => CallTypes' /\ HandleOK'
    /\ ClientTypes /\ UNCHANGED clientVars => ClientTypes'
    /\ PipeTypes /\ UNCHANGED pipe => PipeTypes'
    /\ EventTypes /\ UNCHANGED eventVars => EventTypes'
    /\ PeerTypes /\ UNCHANGED peerVars => PeerTypes'
    /\ TcpcTypes /\ UNCHANGED tcpcVars => TcpcTypes'
    /\ HelperTypes /\ UNCHANGED helperVars => HelperTypes'
<1>1. CtrlTypes /\ UNCHANGED ctrlVars => CtrlTypes'
  BY DEF CtrlTypes, ctrlVars
<1>2. CallTypes /\ HandleOK /\ UNCHANGED callVars => CallTypes' /\ HandleOK'
  BY DEF CallTypes, HandleOK, callVars
<1>3. ClientTypes /\ UNCHANGED clientVars => ClientTypes'
  BY DEF ClientTypes, clientVars
<1>4. PipeTypes /\ UNCHANGED pipe => PipeTypes'
  BY DEF PipeTypes
<1>5. EventTypes /\ UNCHANGED eventVars => EventTypes'
  BY DEF EventTypes, eventVars
<1>6. PeerTypes /\ UNCHANGED peerVars => PeerTypes'
  BY DEF PeerTypes, peerVars
<1>7. TcpcTypes /\ UNCHANGED tcpcVars => TcpcTypes'
  BY DEF TcpcTypes, tcpcVars
<1>8. HelperTypes /\ UNCHANGED helperVars => HelperTypes'
  BY DEF HelperTypes, helperVars
<1> QED BY <1>1, <1>2, <1>3, <1>4, <1>5, <1>6, <1>7, <1>8

LEMMA FrameSess ==
    ASSUME TypeInv, UNCHANGED sessVars
    PROVE  /\ ClientTypes' /\ PipeTypes' /\ EventTypes' /\ PeerTypes'
           /\ TcpcTypes' /\ HelperTypes'
BY Frame DEF TypeInv, TypeOK, sessVars

\* A call starts, or the monitor's.
LEMMA TypeCall ==
    ASSUME TypeInv, NEW t \in Callers, Call(t) \/ Monitor(t)
    PROVE  TypeInv'
<1> USE DEF Starts, Goto, Stay, ctrlVars, CtrlTypes, CallTypes, CallerPcs, Handles,
            HandleOK, Building, TypeInv, TypeOK
<1>0. UNCHANGED sessVars
  BY DEF Call, Monitor
<1>1. CASE CallConnect(t)
  BY <1>0, <1>1, FrameSess DEF CallConnect
<1>2. CASE CallDisconnect(t)
  BY <1>0, <1>2, FrameSess DEF CallDisconnect
<1>3. CASE CallSend(t)
  BY <1>0, <1>3, FrameSess DEF CallSend
<1>4. CASE SetNetCfg(t)
  BY <1>0, <1>4, FrameSess DEF SetNetCfg
<1>5. CASE KeepAlive(t)
  BY <1>0, <1>5, FrameSess DEF KeepAlive
<1> QED BY <1>1, <1>2, <1>3, <1>4, <1>5 DEF Call, Monitor

\* A step of a call on the control object.
LEMMA TypeCtrl ==
    ASSUME TypeInv, NEW t \in Callers, CtrlStep(t)
    PROVE  TypeInv'
<1> USE DEF Goto, Stay, ctrlVars, CtrlTypes, CallTypes, CallerPcs, Handles,
            HandleOK, Building, TypeInv, TypeOK
<1>0. UNCHANGED sessVars
  BY DEF CtrlStep
<1>1. CASE SetCurNetCfg(t)
  BY <1>0, <1>1, FrameSess DEF SetCurNetCfg
<1>2. CASE SetReconnect(t)
  BY <1>0, <1>2, FrameSess DEF SetReconnect
<1>3. CASE LockTest(t)
  BY <1>0, <1>3, FrameSess DEF LockTest, Taking
<1>4. CASE LockSet(t)
  BY <1>0, <1>4, FrameSess DEF LockSet, Locked
<1>5. CASE ConnCheck(t)
  BY <1>0, <1>5, FrameSess DEF ConnCheck
<1>6. CASE ConnHdl(t)
  BY <1>0, <1>6, FrameSess DEF ConnHdl
<1>7. CASE ConnUnlock(t)
  BY <1>0, <1>7, FrameSess DEF ConnUnlock
<1>8. CASE DiscFind(t)
  BY <1>0, <1>8, FrameSess DEF DiscFind
<1>9. CASE DiscEnd(t)
  BY <1>0, <1>9, FrameSess DEF DiscEnd
<1>10. CASE DiscWait(t)
  BY <1>0, <1>10, FrameSess DEF DiscWait
<1>11. CASE DiscUnlock(t)
  BY <1>0, <1>11, FrameSess DEF DiscUnlock
<1>12. CASE SendUnlock(t)
  BY <1>0, <1>12, FrameSess DEF SendUnlock
<1> QED BY <1>1, <1>2, <1>3, <1>4, <1>5, <1>6, <1>7, <1>8, <1>9, <1>10,
           <1>11, <1>12 DEF CtrlStep

\* A step of connect() or send() on the session's objects.
LEMMA TypeInCall ==
    ASSUME TypeInv, NEW t \in Callers, InCall(t)
    PROVE  TypeInv'
<1> USE DEF TypeInv, TypeOK
<1>1. CASE CtrlStep(t)
  BY <1>1, TypeCtrl
<1>2. CASE ConnBegin(t)
  <2>1. CtrlTypes'
    BY <1>2 DEF ConnBegin, CtrlTypes, Handles
  <2>2. CallTypes' /\ HandleOK'
    BY <1>2 DEF ConnBegin, CallTypes, HandleOK, Handles, Goto, CallerPcs, Building
  <2>3. ClientTypes'
    BY <1>2 DEF ConnBegin, ClientTypes, CtrlTypes
  <2> QED BY <1>2, <2>1, <2>2, <2>3, Frame DEF ConnBegin
<1>3. CASE ConnStarted(t)
  <2>1. CallTypes' /\ HandleOK'
    BY <1>3 DEF ConnStarted, CallTypes, HandleOK, Goto, Stay, CallerPcs, Building
  <2>2. ClientTypes'
    BY <1>3 DEF ConnStarted, ClientTypes, HandleOK
  <2>3. TcpcTypes'
    BY <1>3 DEF ConnStarted, TcpcTypes, TcpcPcs
  <2> QED BY <1>3, <2>1, <2>2, <2>3, Frame DEF ConnStarted
<1>4. CASE ConnStartFails(t)
  <2>1. CtrlTypes'
    BY <1>4 DEF ConnStartFails, CtrlTypes, Handles
  <2>2. CallTypes' /\ HandleOK'
    BY <1>4 DEF ConnStartFails, CallTypes, HandleOK, Goto, Stay, CallerPcs, Building, Handles
  <2>3. ClientTypes'
    BY <1>4 DEF ConnStartFails, ClientTypes, HandleOK
  <2> QED BY <1>4, <2>1, <2>2, <2>3, Frame DEF ConnStartFails
<1>5. CASE ConnAttach(t)
  <2>1. CallTypes' /\ HandleOK'
    BY <1>5 DEF ConnAttach, CallTypes, HandleOK, Goto, Stay, CallerPcs, Building
  <2>2. ClientTypes'
    BY <1>5 DEF ConnAttach, ClientTypes
  <2> QED BY <1>5, <2>1, <2>2, Frame DEF ConnAttach
<1>6. CASE ConnEvent(t)
  <2>1. CallTypes' /\ HandleOK'
    BY <1>6 DEF ConnEvent, CallTypes, HandleOK, Goto, Stay, CallerPcs, Building
  <2>2. EventTypes'
    BY <1>6 DEF ConnEvent, EventTypes, HandleOK, Handles, Building
  <2> QED BY <1>6, <2>1, <2>2, Frame DEF ConnEvent
<1>7. CASE ConnTcth1(t)
  <2>1. CallTypes' /\ HandleOK'
    BY <1>7 DEF ConnTcth1, CallTypes, HandleOK, Goto, Stay, CallerPcs, Building
  <2>2. HelperTypes'
    BY <1>7 DEF ConnTcth1, HelperTypes, CtrlTypes, Tcth1Pcs
  <2> QED BY <1>7, <2>1, <2>2, Frame DEF ConnTcth1
<1>8. CASE ConnTcth2(t)
  <2>1. CallTypes' /\ HandleOK'
    BY <1>8 DEF ConnTcth2, CallTypes, HandleOK, Goto, Stay, CallerPcs, Building
  <2>2. HelperTypes'
    BY <1>8 DEF ConnTcth2, HelperTypes, Tcth2Pcs
  <2> QED BY <1>8, <2>1, <2>2, Frame DEF ConnTcth2
<1>9. CASE SendWrite(t)
  <2>1. CallTypes' /\ HandleOK'
    BY <1>9 DEF SendWrite, CallTypes, HandleOK, Goto, Stay, CallerPcs, Building
  <2>2. PipeTypes'
    <3>1. CASE UNCHANGED pipe
      BY <3>1, Frame
    <3>2. CASE ~UNCHANGED pipe
      <4>1. PICK m \in SendData : pipe' = [pipe EXCEPT ![socketHdl] = Append(@, m)]
        BY <1>9, <3>2 DEF SendWrite
      <4>2. socketHdl \in Clients /\ Len(pipe[socketHdl]) < PipeCap
        BY <1>9, <3>2 DEF SendWrite, ClientTypes, PipeHasRoom
      <4>3. /\ Append(pipe[socketHdl], m) \in Seq({"data", "exit"})
            /\ Len(Append(pipe[socketHdl], m)) = Len(pipe[socketHdl]) + 1
            /\ Len(pipe[socketHdl]) \in Nat
        BY <4>2, ConstantsOK, AppendProperties DEF PipeTypes
      <4> QED BY <4>1, <4>2, <4>3, ConstantsOK DEF PipeTypes
    <3> QED BY <3>1, <3>2
  <2> QED BY <1>9, <2>1, <2>2, Frame DEF SendWrite
<1> QED BY <1>1, <1>2, <1>3, <1>4, <1>5, <1>6, <1>7, <1>8, <1>9 DEF InCall

\* A step of thread tcpc.
LEMMA TypeTcpc ==
    ASSUME TypeInv, NEW c \in Clients, TcpcStep(c)
    PROVE  TypeInv'
<1> USE DEF TypeInv, TypeOK, TcpcGoto
<1>0. /\ CtrlTypes' /\ CallTypes' /\ HandleOK' /\ ClientTypes' /\ HelperTypes'
      /\ UNCHANGED <<tcEvent, evLive, conn>>
  BY Frame DEF TcpcStep
<1>a. ASSUME UNCHANGED evSet PROVE EventTypes'
  BY <1>0, <1>a, Frame DEF eventVars
<1>b. ASSUME UNCHANGED rcv PROVE PeerTypes'
  BY <1>0, <1>b, Frame DEF peerVars
<1>1. CASE TcpcFault(c)
  <2>1. TcpcTypes'
    BY <1>1 DEF TcpcFault, TcpcTypes, TcpcPcs
  <2> QED BY <1>0, <1>a, <1>b, <1>1, <2>1, Frame DEF TcpcFault
<1>2. CASE TcpcStart(c)
  <2>1. TcpcTypes'
    BY <1>2 DEF TcpcStart, TcpcTypes, TcpcPcs
  <2> QED BY <1>0, <1>a, <1>b, <1>2, <2>1, Frame DEF TcpcStart
<1>3. CASE SelectEnds(c)
  <2>1. TcpcTypes'
    BY <1>3 DEF SelectEnds, TcpcTypes, TcpcPcs
  <2> QED BY <1>0, <1>a, <1>b, <1>3, <2>1, Frame DEF SelectEnds
<1>4. CASE SelectReady(c)
  <2>1. TcpcTypes'
    BY <1>4 DEF SelectReady, TcpcTypes, TcpcPcs
  <2> QED BY <1>0, <1>a, <1>b, <1>4, <2>1, Frame DEF SelectReady
<1>5. CASE Recv(c)
  <2>1. TcpcTypes'
    BY <1>5 DEF Recv, TcpcTypes, TcpcPcs, PeerTypes
  <2>2. PeerTypes'
    BY <1>0, <1>5 DEF Recv, PeerTypes
  <2> QED BY <1>0, <1>a, <1>5, <2>1, <2>2, Frame DEF Recv
<1>6. CASE RxCb(c)
  <2>1. TcpcTypes'
    BY <1>6 DEF RxCb, AfterCb, TcpcTypes, TcpcPcs
  <2>2. EventTypes'
    <3>1. CASE UNCHANGED evSet
      BY <1>a, <3>1
    <3>2. CASE evSet' = [evSet EXCEPT ![tcEvent] = @ \union {"CLOSE"}] /\ EventOK
      BY <1>0, <3>2 DEF EventTypes, EventOK
    <3> QED BY <1>6, <3>1, <3>2 DEF RxCb
  <2> QED BY <1>0, <1>b, <1>6, <2>1, <2>2, Frame DEF RxCb
<1>7. CASE PipeRead(c)
  <2>1. TcpcTypes'
    BY <1>7 DEF PipeRead, TcpcTypes, TcpcPcs
  <2>2. PipeTypes'
    BY <1>7, ConstantsOK DEF PipeRead, PipeTypes
  <2> QED BY <1>0, <1>a, <1>b, <1>7, <2>1, <2>2 DEF PipeRead
<1> QED BY <1>1, <1>2, <1>3, <1>4, <1>5, <1>6, <1>7 DEF TcpcStep

\* A step of thread tcth1.
LEMMA TypeTcth1 ==
    ASSUME TypeInv, NEW c \in Clients, Tcth1Step(c)
    PROVE  TypeInv'
<1> USE DEF TypeInv, TypeOK
<1>0. UNCHANGED <<tcEvent, evLive, t2>>
  BY DEF Tcth1Step, HelperRest
<1>1. CtrlTypes' /\ CallTypes' /\ HandleOK' /\ TcpcTypes'
  BY Frame DEF Tcth1Step, HelperRest, ctrlVars
<1>2. CASE Tcth1Poll(c)
  <2>1. EventTypes'
    BY <1>0, <1>2 DEF Tcth1Poll, EventTypes, EventOK
  <2>2. HelperTypes'
    BY <1>0, <1>2 DEF Tcth1Poll, HelperTypes, Tcth1Pcs
  <2> QED BY <1>1, <1>2, <2>1, <2>2, Frame DEF Tcth1Poll
<1>3. CASE Tcth1Send(c)
  <2>1. EventTypes'
    BY <1>0, <1>3 DEF Tcth1Send, EventTypes, EventOK
  <2>2. HelperTypes'
    BY <1>0, <1>3 DEF Tcth1Send, HelperTypes, Tcth1Pcs
  <2> QED BY <1>1, <1>3, <2>1, <2>2, Frame DEF Tcth1Send
<1>4. CASE Tcth1Close(c)
  <2>1. ClientTypes' /\ PipeTypes'
    BY <1>4 DEF Tcth1Close, ClientTypes, PipeTypes
  <2>2. HelperTypes'
    BY <1>0, <1>4 DEF Tcth1Close, HelperTypes, Tcth1Pcs
  <2>3. PeerTypes'
    BY <1>4 DEF Tcth1Close, PeerTypes
  <2>4. EventTypes'
    BY <1>0, <1>4 DEF Tcth1Close, EventTypes
  <2> QED BY <1>1, <2>1, <2>2, <2>3, <2>4
<1>5. CASE Tcth1Free(c)
  <2>1. ClientTypes'
    BY <1>5 DEF Tcth1Free, ClientTypes
  <2>2. HelperTypes'
    BY <1>0, <1>5 DEF Tcth1Free, HelperTypes, Tcth1Pcs, Handles
  <2>3. PipeTypes'
    <3>1. pipe' = [pipe EXCEPT ![arg1[c]] = <<>>]
      BY <1>5 DEF Tcth1Free
    <3>2. \A d \in Clients : pipe'[d] \in {pipe[d], <<>>}
      BY <3>1 DEF PipeTypes
    <3>3. \A d \in Clients : Len(pipe'[d]) <= PipeCap
      BY <3>2, ConstantsOK DEF PipeTypes
    <3>4. DOMAIN pipe' = Clients /\ pipe' = [d \in Clients |-> pipe'[d]]
      BY <3>1 DEF PipeTypes
    <3>5. <<>> \in Seq({"data", "exit"})
      OBVIOUS
    <3>6. \A d \in Clients : pipe'[d] \in Seq({"data", "exit"})
      BY <3>2, <3>5 DEF PipeTypes
    <3> QED BY <3>3, <3>4, <3>6 DEF PipeTypes
  <2>4. EventTypes'
    BY <1>0, <1>5 DEF Tcth1Free, EventTypes
  <2> QED BY <1>1, <1>5, <2>1, <2>2, <2>3, <2>4, Frame DEF Tcth1Free
<1> QED BY <1>2, <1>3, <1>4, <1>5 DEF Tcth1Step

\* A step of thread tcth2.
LEMMA TypeTcth2 ==
    ASSUME TypeInv, NEW c \in Clients, Tcth2Step(c)
    PROVE  TypeInv'
<1> USE DEF TypeInv, TypeOK
<1>0. UNCHANGED <<lock, socketHdl, cfg, tcEvent, t1, arg1>>
  BY DEF Tcth2Step, HelperRest
<1>1. CallTypes' /\ HandleOK' /\ TcpcTypes' /\ ClientTypes' /\ PipeTypes' /\ PeerTypes'
  BY Frame DEF Tcth2Step, HelperRest
<1>2. CtrlTypes'
  BY <1>0 DEF Tcth2Step, Tcth2Poll, Tcth2Delete, Tcth2End, CtrlTypes
<1>3. HelperTypes'
  BY <1>0 DEF Tcth2Step, Tcth2Poll, Tcth2Delete, Tcth2End, HelperTypes, Tcth2Pcs
<1>4. EventTypes'
  BY <1>0 DEF Tcth2Step, Tcth2Poll, Tcth2Delete, Tcth2End, EventTypes, EventOK
<1> QED BY <1>1, <1>2, <1>3, <1>4

\* The idle thread and the network.
LEMMA TypeRest ==
    ASSUME TypeInv, NEW c \in Clients, IdleReap(c) \/ PeerSend(c) \/ PeerEnd(c)
    PROVE  TypeInv'
<1> USE DEF TypeInv, TypeOK
<1>1. CASE IdleReap(c)
  <2>1. TcpcTypes'
    BY <1>1 DEF IdleReap, TcpcGoto, TcpcTypes, TcpcPcs
  <2> QED BY <1>1, <2>1, Frame DEF IdleReap
<1>2. CASE PeerSend(c)
  <2>1. PeerTypes'
    BY <1>2 DEF PeerSend, PeerTypes, PeerData
  <2> QED BY <1>2, <2>1, Frame DEF PeerSend
<1>3. CASE PeerEnd(c)
  <2>1. PeerTypes'
    BY <1>3 DEF PeerEnd, PeerTypes
  <2> QED BY <1>3, <2>1, Frame DEF PeerEnd
<1> QED BY <1>1, <1>2, <1>3

LEMMA TypeInit == Init => TypeInv
<1> SUFFICES ASSUME Init PROVE TypeInv
  OBVIOUS
<1>1. CtrlTypes /\ CallTypes /\ HandleOK /\ ClientTypes
  BY DEF Init, CtrlTypes, CallTypes, HandleOK, ClientTypes, Handles, CallerPcs, Building
<1>2. PipeTypes
  BY ConstantsOK DEF Init, PipeTypes
<1>3. EventTypes /\ PeerTypes /\ TcpcTypes /\ HelperTypes
  BY DEF Init, EventTypes, PeerTypes, TcpcTypes, HelperTypes, Handles, TcpcPcs,
         Tcth1Pcs, Tcth2Pcs
<1> QED BY <1>1, <1>2, <1>3 DEF TypeInv, TypeOK

LEMMA TypeNext == TypeInv /\ [Next]_vars => TypeInv'
<1> SUFFICES ASSUME TypeInv, [Next]_vars PROVE TypeInv'
  OBVIOUS
<1>1. CASE UNCHANGED vars
  BY <1>1, Frame DEF TypeInv, TypeOK, vars, sessVars
<1>2. CASE \E t \in Callers : Call(t) \/ Monitor(t) \/ InCall(t)
  BY <1>2, TypeCall, TypeInCall
<1>3. CASE \E c \in Clients : \/ TcpcStep(c) \/ Tcth1Step(c) \/ Tcth2Step(c)
                             \/ IdleReap(c) \/ PeerSend(c) \/ PeerEnd(c)
  BY <1>3, TypeTcpc, TypeTcth1, TypeTcth2, TypeRest
<1> QED BY <1>1, <1>2, <1>3 DEF Next

\* The types hold in every behaviour, for any number of callers, any server and
\* any failure; connect() has a client at every step that works on one.
THEOREM TypeCorrect == Spec => []TypeOK
<1>1. TypeInv => TypeOK
  BY DEF TypeInv
<1> QED BY TypeInit, TypeNext, <1>1, PTL DEF Spec

-----------------------------------------------------------------------------
(* Ownership: one calling thread, no server that sends "TCP disconnect".     *)

\* A step that leaves the sessions' objects and threads alone.
LEMMA OwnFrame ==
    ASSUME Ownership, UNCHANGED sessVars
    PROVE  /\ InvMsg' /\ InvEvent' /\ InvOwner' /\ TcpcOwnsClient' /\ OneSession'
           /\ Announced' <=> Announced
           /\ \A c \in Clients : Alive(c)' <=> Alive(c)
<1> USE DEF Ownership, sessVars, clientVars, eventVars, peerVars, tcpcVars, helperVars
<1>1. InvMsg' /\ InvEvent'
  BY DEF InvMsg, InvEvent
<1>2. \A c \in Clients : Alive(c)' <=> Alive(c)
  BY DEF Alive
<1>3. InvOwner' /\ TcpcOwnsClient' /\ OneSession'
  BY <1>2 DEF InvOwner, TcpcOwnsClient, OneSession
<1>4. Announced' <=> Announced
  BY DEF Announced
<1> QED BY <1>1, <1>2, <1>3, <1>4

LEMMA OwnCall ==
    ASSUME SingleCaller, TypeInv, Ownership, NEW t \in Callers, Call(t) \/ Monitor(t)
    PROVE  Ownership'
<1>0. UNCHANGED sessVars /\ UNCHANGED <<hdl, end, socketHdl>>
  BY DEF Call, Monitor, CallConnect, CallDisconnect, CallSend, SetNetCfg, KeepAlive,
         Starts, Stay, ctrlVars
<1>1. /\ pc[t] = "idle"
      /\ pc'[t] \in {"conn_lock", "disc_lock", "send_lock", "set_find"}
  BY DEF Call, Monitor, CallConnect, CallDisconnect, CallSend, SetNetCfg, KeepAlive,
         Starts, Goto, TypeInv, TypeOK, CallTypes
<1>2. \A s \in Callers : s = t
  BY DEF SingleCaller
<1>3. InvBuild'
  BY <1>1, <1>2 DEF InvBuild, BeforeEvent
<1>4. InvQuiet'
  BY <1>0, <1>1, <1>2, OwnFrame DEF Ownership, InvQuiet, NoSessionPcs
<1>5. InvToken'
  BY <1>0, <1>1, <1>2, OwnFrame DEF Ownership, InvToken, WithoutEvent, BeforeEvent
<1> QED BY <1>0, <1>3, <1>4, <1>5, OwnFrame DEF Ownership

LEMMA OwnCtrl ==
    ASSUME SingleCaller, TypeInv, Ownership, NEW t \in Callers, CtrlStep(t)
    PROVE  Ownership'
<1> USE DEF Ownership, Goto, Stay, ctrlVars
<1>0. UNCHANGED sessVars
  BY DEF CtrlStep
<1>a. \A s \in Callers : s = t
  BY DEF SingleCaller
<1>b. \A c \in Clients : Alive(c)' <=> Alive(c)
  BY <1>0, OwnFrame
<1>c. pc \in [Callers -> CallerPcs]
  BY DEF TypeInv, TypeOK, CallTypes
<1>d. socketHdl' = Null => socketHdl = Null
  <2>1. CASE ConnHdl(t)
    BY <2>1, ConstantsOK DEF ConnHdl, TypeInv, HandleOK, Building
  <2>2. CASE ~ConnHdl(t)
    BY <2>2 DEF CtrlStep, SetCurNetCfg, SetReconnect, LockTest, LockSet, ConnCheck, HasSession,
                ConnUnlock, DiscFind, DiscEnd, DiscWait, DiscUnlock, SendUnlock
  <2> QED BY <2>1, <2>2
<1>1. InvBuild'
  <2>1. CASE ConnHdl(t)
    <3>1. pc'[t] = "conn_rx" /\ socketHdl' = hdl[t] /\ UNCHANGED hdl
      BY <1>c, <2>1 DEF ConnHdl
    <3>2. pc[t] = "conn_hdl"
      BY <2>1 DEF ConnHdl
    <3> QED BY <1>0, <1>a, <3>1, <3>2 DEF InvBuild, BeforeEvent, sessVars, clientVars,
               eventVars, tcpcVars, helperVars
  <2>2. CASE ~ConnHdl(t)
    <3>1. pc'[t] \notin {"conn_sock", "conn_t1"} \union BeforeEvent
      BY <1>c, <2>2 DEF CtrlStep, SetCurNetCfg, SetReconnect, LockTest, LockSet,
         ConnCheck, ConnUnlock, DiscFind, DiscEnd, DiscWait, DiscUnlock, SendUnlock,
         Taking, Locked, BeforeEvent, TypeInv, TypeOK, CallTypes
    <3> QED BY <1>a, <3>1 DEF InvBuild, BeforeEvent
  <2> QED BY <2>1, <2>2
<1>2. InvQuiet'
  <2>1. CASE \A c \in Clients : ~Alive(c)
    BY <1>b, <2>1 DEF InvQuiet
  <2>2. CASE \E c \in Clients : Alive(c)
    <3>1. TcpcFound
      BY <2>2 DEF TcpcFound, Alive
    <3>2. pc[t] \notin NoSessionPcs /\ ~(pc[t] = "disc_wait" /\ end = 0)
      BY <2>2 DEF InvQuiet
    <3>3. socketHdl = Null => pc[t] = "conn_hdl"
      BY <2>2 DEF InvQuiet
    <3>4. pc'[t] \notin NoSessionPcs
      BY <1>c, <3>1, <3>2, <3>3 DEF CtrlStep, SetCurNetCfg, SetReconnect, LockTest,
         LockSet, ConnCheck, HasSession, ConnHdl, ConnUnlock, DiscFind, DiscEnd, DiscWait,
         DiscUnlock, SendUnlock, Taking, Locked, NoSessionPcs
    <3>5. ~(pc'[t] = "disc_wait" /\ end' = 0)
      BY <1>c, <3>2 DEF CtrlStep, SetCurNetCfg, SetReconnect, LockTest,
         LockSet, ConnCheck, HasSession, ConnHdl, ConnUnlock, DiscFind, DiscEnd, DiscWait,
         DiscUnlock, SendUnlock, Taking, Locked, NoSessionPcs
    <3>6. socketHdl' # Null
      <4>1. CASE ConnHdl(t)
        BY <4>1, ConstantsOK DEF ConnHdl, TypeInv, HandleOK, Building
      <4>2. CASE ~ConnHdl(t)
        BY <1>c, <1>d, <3>3, <4>2 DEF CtrlStep, SetCurNetCfg, SetReconnect, LockTest,
           LockSet, ConnCheck, HasSession, ConnUnlock, DiscFind, DiscEnd, DiscWait,
           DiscUnlock, SendUnlock, Taking, Locked
      <4> QED BY <4>1, <4>2
    <3> QED BY <1>a, <3>4, <3>5, <3>6 DEF InvQuiet
  <2> QED BY <2>1, <2>2
<1>3. InvToken'
  <2>1. CASE ConnHdl(t)
    BY <1>0, <1>a, <1>b, <1>c, <2>1, OwnFrame
       DEF ConnHdl, InvToken, WithoutEvent, BeforeEvent
  <2>2. CASE ~ConnHdl(t)
    <3>1. pc[t] \notin BeforeEvent
      BY <2>2 DEF CtrlStep, SetCurNetCfg, SetReconnect, LockTest, LockSet,
         ConnCheck, ConnUnlock, DiscFind, DiscEnd, DiscWait, DiscUnlock, SendUnlock,
         Taking, Locked, BeforeEvent
    <3>2. Announced => \A c \in Clients : ~Alive(c)
      BY <1>a, <3>1 DEF InvToken, WithoutEvent
    <3> QED BY <1>0, <1>b, <3>2, OwnFrame DEF InvToken
  <2> QED BY <2>1, <2>2
<1> QED BY <1>0, <1>1, <1>2, <1>3, OwnFrame

LEMMA OwnBegin ==
    ASSUME SingleCaller, TypeInv, Ownership, NEW t \in Callers, ConnBegin(t)
    PROVE  Ownership'
<1> USE DEF Ownership
<1>a. \A s \in Callers : s = t
  BY DEF SingleCaller
<1>b. \A c \in Clients : ~Alive(c) /\ ~Alive(c)'
  BY DEF ConnBegin, InvQuiet, NoSessionPcs, Alive, tcpcVars
<1>1. InvMsg' /\ InvEvent'
  BY DEF ConnBegin, InvMsg, InvEvent, eventVars, peerVars, tcpcVars
<1>2. InvBuild'
  <2>1. CASE pc'[t] = "conn_sock"
    <3>1. PICK c \in Clients : /\ Allocatable(c) /\ c \in live' /\ c \in sockOpen'
                               /\ hdl' = [hdl EXCEPT ![t] = c]
      BY <2>1 DEF ConnBegin, Goto, TypeInv, TypeOK, CallTypes
    <3> QED BY <1>a, <2>1, <3>1 DEF ConnBegin, InvBuild, BeforeEvent, Allocatable,
               eventVars, tcpcVars, helperVars, TypeInv, TypeOK, CallTypes
  <2>2. CASE pc'[t] = "conn_unlock"
    BY <1>a, <2>2 DEF InvBuild, BeforeEvent
  <2> QED BY <2>1, <2>2 DEF ConnBegin, Goto, TypeInv, TypeOK, CallTypes
<1>3. InvQuiet' /\ InvToken' /\ TcpcOwnsClient' /\ OneSession'
  BY <1>b DEF InvQuiet, InvToken, TcpcOwnsClient, OneSession
<1>4. InvOwner'
  BY <1>b DEF ConnBegin, InvOwner, helperVars
<1> QED BY <1>1, <1>2, <1>3, <1>4

LEMMA OwnStarted ==
    ASSUME SingleCaller, TypeInv, Ownership, NEW t \in Callers, ConnStarted(t)
    PROVE  Ownership'
<1> USE DEF Ownership
<1>a. \A s \in Callers : s = t
  BY DEF SingleCaller
<1>b. /\ hdl[t] \in Clients /\ hdl[t] \in live /\ hdl[t] \in sockOpen
      /\ t1[hdl[t]] = "none" /\ hdl[t] \notin evLive
  BY DEF ConnStarted, TypeInv, HandleOK, InvBuild
<1>c. pc'[t] = "conn_hdl" /\ UNCHANGED hdl
  BY DEF ConnStarted, Goto, Stay, TypeInv, TypeOK, CallTypes
<1>d. \A c \in Clients : Alive(c)' <=> c = hdl[t]
  BY <1>b DEF ConnStarted, InvQuiet, NoSessionPcs, Alive, TypeInv, TypeOK, TcpcTypes
<1>1. InvMsg' /\ InvEvent'
  BY DEF ConnStarted, InvMsg, InvEvent, eventVars, peerVars, TypeInv, TypeOK, TcpcTypes
<1>2. InvBuild'
  BY <1>a, <1>b, <1>c DEF ConnStarted, InvBuild, BeforeEvent, eventVars, helperVars
<1>3. InvQuiet' /\ InvToken'
  BY <1>a, <1>c, <1>d DEF InvQuiet, InvToken, NoSessionPcs, WithoutEvent, BeforeEvent
<1>4. TcpcOwnsClient'
  BY <1>b, <1>d DEF ConnStarted, TcpcOwnsClient, TypeInv, TypeOK, TcpcTypes
<1>5. OneSession'
  BY <1>d DEF OneSession
<1>6. InvOwner'
  BY <1>b, <1>d DEF ConnStarted, InvOwner, helperVars
<1> QED BY <1>1, <1>2, <1>3, <1>4, <1>5, <1>6

LEMMA OwnStartFails ==
    ASSUME SingleCaller, TypeInv, Ownership, NEW t \in Callers, ConnStartFails(t)
    PROVE  Ownership'
<1> USE DEF Ownership
<1>a. \A s \in Callers : s = t
  BY DEF SingleCaller
<1>b. hdl[t] \in Clients /\ t1[hdl[t]] = "none"
  BY DEF ConnStartFails, TypeInv, HandleOK, InvBuild
<1>c. pc'[t] \in {"conn_unlock", "assert"}
  BY DEF ConnStartFails, Goto, Stay, TypeInv, TypeOK, CallTypes
<1>d. \A c \in Clients : ~Alive(c) /\ ~Alive(c)'
  BY DEF ConnStartFails, InvQuiet, NoSessionPcs, Alive, tcpcVars
<1>1. InvMsg' /\ InvEvent'
  BY DEF ConnStartFails, InvMsg, InvEvent, eventVars, peerVars, tcpcVars
<1>2. InvBuild'
  BY <1>a, <1>c DEF InvBuild, BeforeEvent
<1>3. InvQuiet' /\ InvToken' /\ TcpcOwnsClient' /\ OneSession'
  BY <1>d DEF InvQuiet, InvToken, TcpcOwnsClient, OneSession
<1>4. InvOwner'
  <2>1. \A c \in Clients \ {hdl[t]} : /\ c \in live => c \in live'
                                      /\ c \in sockOpen => c \in sockOpen'
    BY DEF ConnStartFails
  <2> QED BY <1>b, <1>d, <2>1 DEF ConnStartFails, InvOwner, helperVars
<1> QED BY <1>1, <1>2, <1>3, <1>4

LEMMA OwnBuild ==
    ASSUME SingleCaller, TypeInv, Ownership, NEW t \in Callers, ~HelperBusy,
           ConnAttach(t) \/ ConnEvent(t) \/ ConnTcth1(t) \/ ConnTcth2(t) \/ SendWrite(t)
    PROVE  Ownership'
<1> USE DEF Ownership, Goto, Stay
<1>a. \A s \in Callers : s = t
  BY DEF SingleCaller
<1>b. pc \in [Callers -> CallerPcs] /\ t1 \in [Clients -> Tcth1Pcs]
      /\ t2 \in [Clients -> Tcth2Pcs] /\ arg1 \in [Clients -> Handles]
  BY DEF TypeInv, TypeOK, CallTypes, HelperTypes
<1>c. /\ UNCHANGED <<hdl, end, socketHdl, live, sockOpen, evSet>>
      /\ UNCHANGED <<rcv, tpc, msg>>
  BY DEF ConnAttach, ConnEvent, ConnTcth1, ConnTcth2, SendWrite, ctrlVars, clientVars,
         eventVars, peerVars, tcpcVars
<1>d. \A c \in Clients : Alive(c)' <=> Alive(c)
  BY <1>c DEF Alive
<1>1. InvMsg' /\ TcpcOwnsClient' /\ OneSession'
  BY <1>c, <1>d DEF InvMsg, TcpcOwnsClient, OneSession
<1>2. InvQuiet'
  <2>1. pc[t] # "conn_hdl" /\ pc'[t] \notin NoSessionPcs \union {"disc_wait"}
    BY <1>b DEF ConnAttach, ConnEvent, ConnTcth1, ConnTcth2, SendWrite, NoSessionPcs
  <2> QED BY <1>a, <1>c, <1>d, <2>1 DEF InvQuiet
<1>3. CASE ConnAttach(t)
  <2>1. pc[t] = "conn_rx" /\ socketHdl = hdl[t] /\ hdl[t] \in live
    BY <1>3 DEF ConnAttach, InvBuild, BeforeEvent
  <2>2. pc'[t] = "conn_ev" /\ UNCHANGED <<tcEvent, evLive, evSet, t1, t2, arg1>>
    BY <1>b, <1>3, <2>1 DEF ConnAttach, eventVars, helperVars
  <2>3. InvBuild'
    BY <1>a, <1>c, <2>1, <2>2 DEF InvBuild, BeforeEvent
  <2>4. InvToken'
    BY <1>a, <1>c, <1>d, <2>1, <2>2 DEF InvToken, Announced, WithoutEvent, BeforeEvent
  <2> QED BY <1>1, <1>2, <1>c, <1>d, <2>2, <2>3, <2>4 DEF InvEvent, InvOwner
<1>4. CASE ConnEvent(t)
  <2>1. pc[t] = "conn_ev" /\ socketHdl = hdl[t] /\ hdl[t] \in Clients
        /\ hdl[t] \notin evLive /\ evSet[hdl[t]] = {}
    BY <1>4 DEF ConnEvent, InvBuild, BeforeEvent, InvEvent, TypeInv, HandleOK, Building
  <2>2. UNCHANGED <<evSet, t1, t2, arg1>>
    BY <1>4 DEF ConnEvent, helperVars
  <2>3. \/ pc'[t] = "conn_t1" /\ tcEvent' = hdl[t] /\ evLive' = evLive \union {hdl[t]}
        \/ pc'[t] = "conn_unlock" /\ tcEvent' = Null /\ evLive' = evLive
    BY <1>b, <1>4 DEF ConnEvent
  <2>4. InvBuild'
    BY <1>a, <1>c, <2>1, <2>2, <2>3 DEF InvBuild, BeforeEvent
  <2>5. ~Announced'
    BY <2>1, <2>2, <2>3, ConstantsOK
       DEF Announced, HelperBusy, TypeInv, TypeOK, EventTypes
  <2>6. InvEvent'
    BY <2>1, <2>2, <2>3 DEF InvEvent
  <2> QED BY <1>1, <1>2, <1>c, <1>d, <2>2, <2>4, <2>5, <2>6 DEF InvToken, InvOwner
<1>5. CASE ConnTcth1(t) \/ ConnTcth2(t) \/ SendWrite(t)
  <2>1. pc[t] \notin BeforeEvent
    BY <1>5 DEF ConnTcth1, ConnTcth2, SendWrite, BeforeEvent
  <2>2. pc'[t] \notin {"conn_sock", "conn_t1"} \union BeforeEvent
    BY <1>b, <1>5 DEF ConnTcth1, ConnTcth2, SendWrite, BeforeEvent
  <2>3. UNCHANGED <<tcEvent, evLive, evSet>>
    BY <1>5 DEF ConnTcth1, ConnTcth2, SendWrite, eventVars
  <2>4. InvBuild'
    BY <1>a, <2>2 DEF InvBuild, BeforeEvent
  <2>5. InvEvent'
    BY <2>3 DEF InvEvent
  <2>6. Announced' => Announced
    BY <1>b, <1>5, <2>3 DEF Announced, ConnTcth1, ConnTcth2, SendWrite, helperVars
  <2>7. InvToken'
    BY <1>a, <1>d, <2>1, <2>6 DEF InvToken, WithoutEvent
  <2>8. InvOwner'
    <3>1. CASE ConnTcth1(t)
      <4>1. /\ hdl[t] \in Clients /\ hdl[t] \in live /\ hdl[t] \in sockOpen
            /\ socketHdl = hdl[t]
        BY <3>1 DEF ConnTcth1, InvBuild, TypeInv, HandleOK, Building
      <4>2. \A c \in Clients : \/ t1'[c] = t1[c] /\ arg1'[c] = arg1[c]
                               \/ c = hdl[t] /\ t1'[c] = "poll" /\ arg1'[c] = c
        BY <1>b, <3>1, <4>1 DEF ConnTcth1
      <4> QED BY <1>c, <1>d, <4>1, <4>2 DEF InvOwner
    <3>2. CASE UNCHANGED <<t1, arg1>>
      BY <1>c, <1>d, <3>2 DEF InvOwner
    <3> QED BY <1>5, <3>1, <3>2 DEF ConnTcth2, SendWrite, helperVars
  <2> QED BY <1>1, <1>2, <2>4, <2>5, <2>7, <2>8
<1> QED BY <1>3, <1>4, <1>5

LEMMA OwnTcpc ==
    ASSUME TypeInv, Ownership, NEW c \in Clients, TcpcStep(c)
    PROVE  Ownership'
<1> USE DEF Ownership, TcpcGoto
<1>a. /\ UNCHANGED <<pc, hdl, end, socketHdl, live, sockOpen, rx>>
      /\ UNCHANGED <<tcEvent, evLive, t1, t2, arg1>>
  BY DEF TcpcStep, ctrlVars, callVars, clientVars, helperVars
<1>b. /\ tpc \in [Clients -> TcpcPcs] /\ evSet \in [Clients -> SUBSET {"CLOSE", "EXIT"}]
      /\ msg \in [Clients -> PeerData \union {"none", "eof"}]
      /\ rcv \in [Clients -> PeerData \union {"none"}]
  BY DEF TypeInv, TypeOK, TcpcTypes, EventTypes, PeerTypes
<1>c. ~TcpcFault(c)
  BY DEF TcpcFault, TcpcStale, TcpcOwnsClient, Alive
<1>d. /\ Alive(c) /\ tpc'[c] # "none" /\ tpc'[c] # "fault"
      /\ \A d \in Clients \ {c} : tpc'[d] = tpc[d]
  BY <1>b, <1>c DEF TcpcStep, TcpcStart, SelectEnds, SelectReady, Recv, RxCb, PipeRead,
     AfterCb, Alive
<1>e. \A d \in Clients : Alive(d)' => Alive(d)
  BY <1>d DEF Alive
<1>1. InvMsg'
  <2>1. CASE TcpcStart(c) \/ SelectReady(c) \/ PipeRead(c)
    <3>1. UNCHANGED <<rcv, msg>> /\ tpc'[c] # "cb"
      BY <1>b, <2>1 DEF TcpcStart, SelectReady, PipeRead
    <3> QED BY <1>d, <3>1 DEF InvMsg
  <2>2. CASE SelectEnds(c)
    BY <1>b, <2>2 DEF SelectEnds, InvMsg
  <2>3. CASE Recv(c)
    BY <1>b, <2>3 DEF Recv, InvMsg
  <2>4. CASE RxCb(c)
    <3>1. UNCHANGED rcv /\ msg' = [msg EXCEPT ![c] = "none"] /\ tpc'[c] # "cb"
      BY <1>b, <2>4 DEF RxCb, AfterCb
    <3> QED BY <1>b, <1>d, <3>1 DEF InvMsg
  <2> QED BY <1>c, <2>1, <2>2, <2>3, <2>4 DEF TcpcStep
<1>2. InvBuild'
  <2>1. \A d \in Clients : tpc[d] = "none" => tpc'[d] = "none"
    BY <1>d DEF Alive
  <2> QED BY <1>a, <2>1 DEF InvBuild, TypeInv, HandleOK
<1>3. InvQuiet'
  BY <1>a, <1>e DEF InvQuiet
<1>4. InvOwner' /\ OneSession'
  BY <1>a, <1>e DEF InvOwner, OneSession
<1>5. TcpcOwnsClient'
  BY <1>a, <1>d, <1>e DEF TcpcOwnsClient
<1>6. InvEvent' /\ InvToken'
  <2>1. CASE UNCHANGED evSet
    <3>1. Announced' <=> Announced
      BY <1>a, <2>1 DEF Announced
    <3> QED BY <1>a, <1>e, <2>1, <3>1 DEF InvEvent, InvToken, WithoutEvent
  <2>2. CASE ~UNCHANGED evSet
    <3>1. /\ tpc[c] = "cb" /\ msg[c] # "data" /\ EventOK
          /\ evSet' = [evSet EXCEPT ![tcEvent] = @ \union {"CLOSE"}]
          /\ \E l \in AfterCb(c) : TcpcGoto(c, l)
      BY <1>c, <2>2 DEF TcpcStep, TcpcStart, SelectEnds, SelectReady, Recv, RxCb, PipeRead
    <3>2. msg[c] \in {"exit", "eof"}
      BY <1>b, <3>1 DEF InvMsg, PeerData
    <3>3. ~Alive(c)'
      BY <1>b, <3>1, <3>2 DEF AfterCb, Alive
    <3>4. InvToken'
      BY <1>d, <1>e, <3>3 DEF OneSession, InvToken
    <3>5. InvEvent'
      BY <1>a, <1>b, <3>1 DEF InvEvent, EventOK
    <3> QED BY <3>4, <3>5
  <2> QED BY <2>1, <2>2
<1> QED BY <1>1, <1>2, <1>3, <1>4, <1>5, <1>6

LEMMA OwnTcth1 ==
    ASSUME TypeInv, Ownership, NEW c \in Clients, Tcth1Step(c)
    PROVE  Ownership'
<1> USE DEF Ownership
<1>a. UNCHANGED <<pc, hdl, end, socketHdl, tcEvent, evLive, tpc, msg, t2>>
  BY DEF Tcth1Step, HelperRest, callVars, tcpcVars
<1>b. /\ t1 \in [Clients -> Tcth1Pcs] /\ arg1 \in [Clients -> Handles]
      /\ evSet \in [Clients -> SUBSET {"CLOSE", "EXIT"}]
      /\ rcv \in [Clients -> PeerData \union {"none"}]
  BY DEF TypeInv, TypeOK, HelperTypes, EventTypes, PeerTypes
<1>c. \A d \in Clients : Alive(d)' <=> Alive(d)
  BY <1>a DEF Alive
<1>d. InvQuiet' /\ OneSession'
  BY <1>a, <1>c DEF InvQuiet, OneSession
<1>e. t1[c] \in {"poll", "send", "close", "free"}
  BY DEF Tcth1Step, Tcth1Poll, Tcth1Send, Tcth1Close, Tcth1Free
<1>f. /\ arg1[c] = c /\ c \in live /\ \A d \in Clients \ {c} : t1'[d] = t1[d]
  BY <1>b, <1>e DEF InvOwner, Tcth1Step, Tcth1Poll, Tcth1Send, Tcth1Close, Tcth1Free
\* connect() is not building this session: it would have no tcth1 yet.
<1>g. \A t \in Callers :
         pc[t] \in {"conn_sock"} \union BeforeEvent \union {"conn_t1"} => hdl[t] # c
  BY <1>e DEF InvBuild
<1>1. CASE Tcth1Poll(c) \/ Tcth1Send(c)
  <2>1. UNCHANGED <<arg1, live, sockOpen, rcv>>
    BY <1>1 DEF Tcth1Poll, Tcth1Send, clientVars, peerVars
  <2>2. InvMsg' /\ TcpcOwnsClient'
    BY <1>a, <1>c, <2>1 DEF InvMsg, TcpcOwnsClient
  <2>3. InvBuild'
    BY <1>a, <1>f, <1>g, <2>1 DEF InvBuild, TypeInv, HandleOK, Building, BeforeEvent
  <2>4. Announced' => Announced
    BY <1>1, <1>a, <1>b, <1>f DEF Announced, Tcth1Poll, Tcth1Send, EventOK
  <2>5. InvToken'
    BY <1>a, <1>c, <2>4 DEF InvToken, WithoutEvent
  <2>6. InvEvent'
    BY <1>1, <1>a, <1>b DEF InvEvent, Tcth1Poll, Tcth1Send, EventOK
  <2>7. InvOwner'
    <3>1. CASE t1'[c] \in {"none", "assert"}
      BY <1>c, <1>f, <2>1, <3>1 DEF InvOwner
    <3>2. CASE t1'[c] \in {"send", "close"}
      <4>1. Announced
        BY <1>1, <1>b, <3>2 DEF Announced, Tcth1Poll, Tcth1Send, EventOK
      <4>2. ~Alive(c)
        BY <1>g, <4>1 DEF InvToken, WithoutEvent
      <4>3. t1[c] \in {"poll", "send"}
        BY <1>1 DEF Tcth1Poll, Tcth1Send
      <4> QED BY <1>c, <1>f, <2>1, <3>2, <4>2, <4>3 DEF InvOwner
    <3> QED BY <1>1, <1>b, <3>1, <3>2 DEF Tcth1Poll, Tcth1Send
  <2> QED BY <1>d, <2>2, <2>3, <2>5, <2>6, <2>7
<1>2. CASE Tcth1Close(c) \/ Tcth1Free(c)
  <2>1. UNCHANGED evSet /\ ~Alive(c)
    BY <1>2 DEF Tcth1Close, Tcth1Free, InvOwner
  <2>2. \A d \in Clients \ {c} :
           /\ arg1'[d] = arg1[d]
           /\ (d \in live => d \in live') /\ (d \in sockOpen => d \in sockOpen')
    BY <1>2, <1>f, <1>b DEF Tcth1Close, Tcth1Free
  <2>3. InvMsg'
    <3>1. \A d \in Clients : rcv'[d] \in {rcv[d], "none"}
      BY <1>2, <1>b DEF Tcth1Close, Tcth1Free, peerVars
    <3> QED BY <1>a, <3>1 DEF InvMsg
  <2>4. TcpcOwnsClient'
    BY <1>a, <1>c, <2>1, <2>2 DEF TcpcOwnsClient
  <2>5. InvBuild'
    BY <1>a, <1>f, <1>g, <2>2 DEF InvBuild, TypeInv, HandleOK, Building, BeforeEvent
  <2>6. Announced' => Announced
    BY <1>2, <1>a, <1>b, <1>f, <2>1 DEF Announced, Tcth1Close, Tcth1Free
  <2>7. InvToken' /\ InvEvent'
    BY <1>a, <1>c, <2>1, <2>6 DEF InvToken, WithoutEvent, InvEvent
  <2>8. InvOwner'
    <3>1. CASE t1'[c] = "free"
      <4>1. c \in live' /\ arg1'[c] = c
        BY <1>2, <1>b, <1>f, <3>1 DEF Tcth1Close, Tcth1Free
      <4> QED BY <1>c, <1>f, <2>1, <2>2, <3>1, <4>1 DEF InvOwner
    <3>2. CASE t1'[c] \in {"none", "assert"}
      BY <1>c, <1>f, <2>2, <3>2 DEF InvOwner
    <3> QED BY <1>2, <1>b, <3>1, <3>2 DEF Tcth1Close, Tcth1Free
  <2> QED BY <1>d, <2>3, <2>4, <2>5, <2>7, <2>8
<1> QED BY <1>1, <1>2 DEF Tcth1Step

LEMMA OwnTcth2 ==
    ASSUME SingleCaller, TypeInv, Ownership, NEW c \in Clients, Tcth2Step(c)
    PROVE  Ownership'
<1> USE DEF Ownership
<1>a. /\ UNCHANGED <<pc, hdl, socketHdl, tcEvent, tpc, msg>>
      /\ UNCHANGED <<live, sockOpen, rcv, t1, arg1>>
  BY DEF Tcth2Step, HelperRest, callVars, tcpcVars, clientVars, peerVars
<1>b. /\ t2 \in [Clients -> Tcth2Pcs] /\ evSet \in [Clients -> SUBSET {"CLOSE", "EXIT"}]
  BY DEF TypeInv, TypeOK, HelperTypes, EventTypes
<1>c. \A d \in Clients : Alive(d)' <=> Alive(d)
  BY <1>a DEF Alive
<1>1. InvMsg' /\ InvOwner' /\ TcpcOwnsClient' /\ OneSession'
  BY <1>a, <1>c DEF InvMsg, InvOwner, TcpcOwnsClient, OneSession
<1>2. InvBuild'
  <2>1. evLive' \subseteq evLive
    BY DEF Tcth2Step, Tcth2Poll, Tcth2Delete, Tcth2End
  <2> QED BY <1>a, <2>1 DEF InvBuild
<1>3. InvEvent'
  BY <1>a, <1>b DEF InvEvent, Tcth2Step, Tcth2Poll, Tcth2Delete, Tcth2End, EventOK
<1>4. InvToken'
  <2>1. Announced' => Announced
    BY <1>a, <1>b DEF Announced, Tcth2Step, Tcth2Poll, Tcth2Delete, Tcth2End, EventOK
  <2> QED BY <1>a, <1>c, <2>1 DEF InvToken, WithoutEvent
<1>5. InvQuiet'
  <2>1. CASE UNCHANGED end
    BY <1>a, <1>c, <2>1 DEF InvQuiet
  <2>2. CASE t2[c] = "endclr"
    <3>1. \A d \in Clients : Alive(d) => WithoutEvent(d)
      BY <2>2 DEF Announced, InvToken
    <3>2. ASSUME NEW t \in Callers, pc[t] = "disc_wait" PROVE \A d \in Clients : ~Alive(d)
      BY <3>1, <3>2 DEF SingleCaller, WithoutEvent, BeforeEvent
    <3> QED BY <1>a, <1>c, <3>2 DEF InvQuiet
  <2> QED BY <2>1, <2>2 DEF Tcth2Step, Tcth2Poll, Tcth2Delete, Tcth2End
<1> QED BY <1>1, <1>2, <1>3, <1>4, <1>5

LEMMA OwnRest ==
    ASSUME "disc" \notin PeerActs, TypeInv, Ownership, NEW c \in Clients,
           IdleReap(c) \/ PeerSend(c) \/ PeerEnd(c)
    PROVE  Ownership'
<1> USE DEF Ownership
<1>a. /\ UNCHANGED <<pc, hdl, end, socketHdl, live, sockOpen, tcEvent, evLive, evSet>>
      /\ UNCHANGED <<msg, t1, t2, arg1>>
  BY DEF IdleReap, PeerSend, PeerEnd, ctrlVars, callVars, clientVars, eventVars,
         tcpcVars, helperVars
<1>b. tpc \in [Clients -> TcpcPcs] /\ rcv \in [Clients -> PeerData \union {"none"}]
  BY DEF TypeInv, TypeOK, TcpcTypes, PeerTypes
<1>c. \A d \in Clients : tpc'[d] = tpc[d] \/ (tpc[d] = "defunct" /\ tpc'[d] = "none")
  <2>1. CASE IdleReap(c)
    BY <1>b, <2>1 DEF IdleReap, TcpcGoto
  <2>2. CASE PeerSend(c) \/ PeerEnd(c)
    <3>1. tpc' = tpc
      BY <2>2 DEF PeerSend, PeerEnd, tcpcVars
    <3> QED BY <3>1
  <2> QED BY <2>1, <2>2
<1>d. \A d \in Clients : rcv'[d] = rcv[d] \/ rcv'[d] # "disc"
  BY <1>b DEF IdleReap, PeerSend, PeerEnd, peerVars
<1>e. \A d \in Clients : Alive(d)' <=> Alive(d)
  BY <1>c DEF Alive
<1>1. InvMsg'
  BY <1>a, <1>c, <1>d DEF InvMsg
<1>2. InvBuild'
  BY <1>a, <1>c DEF InvBuild, TypeInv, HandleOK
<1>3. InvQuiet' /\ InvOwner' /\ OneSession' /\ InvEvent'
  BY <1>a, <1>e DEF InvQuiet, InvOwner, OneSession, InvEvent
<1>4. TcpcOwnsClient'
  BY <1>a, <1>c, <1>e DEF TcpcOwnsClient
<1>5. InvToken'
  BY <1>a, <1>e DEF InvToken, Announced, WithoutEvent
<1> QED BY <1>1, <1>2, <1>3, <1>4, <1>5

LEMMA OwnInit == Init => Ownership
<1> SUFFICES ASSUME Init PROVE Ownership
  OBVIOUS
<1>1. InvMsg /\ InvEvent
  BY DEF Init, InvMsg, InvEvent
<1>2. \A c \in Clients : ~Alive(c)
  BY DEF Init, Alive
<1>3. InvBuild
  BY DEF Init, InvBuild, BeforeEvent
<1>4. InvQuiet /\ InvToken /\ TcpcOwnsClient /\ OneSession
  BY <1>2 DEF InvQuiet, InvToken, TcpcOwnsClient, OneSession
<1>5. InvOwner
  BY DEF Init, InvOwner
<1> QED BY <1>1, <1>3, <1>4, <1>5 DEF Ownership

LEMMA OwnNext ==
    ASSUME SingleCaller, "disc" \notin PeerActs, TypeInv, Ownership, [Next]_vars
    PROVE  Ownership'
<1>1. CASE UNCHANGED vars
  <2>1. UNCHANGED sessVars /\ UNCHANGED callVars /\ UNCHANGED ctrlVars
    BY <1>1 DEF vars
  <2>2. InvBuild' /\ InvQuiet' /\ InvToken'
    BY <2>1, OwnFrame DEF Ownership, InvBuild, InvQuiet, InvToken, WithoutEvent, sessVars,
       callVars, ctrlVars, clientVars, eventVars, tcpcVars, helperVars
  <2> QED BY <2>1, <2>2, OwnFrame DEF Ownership
<1>2. CASE \E t \in Callers : Call(t) \/ Monitor(t) \/ InCall(t)
  <2>1. PICK t \in Callers : Call(t) \/ Monitor(t) \/ InCall(t)
    BY <1>2
  <2>2. CASE Call(t) \/ Monitor(t)
    BY <2>2, OwnCall
  <2>3. CASE InCall(t)
    BY <2>3, OwnCtrl, OwnBegin, OwnStarted, OwnStartFails, OwnBuild DEF InCall, LowMayRun
  <2> QED BY <2>1, <2>2, <2>3
<1>3. CASE \E c \in Clients : \/ TcpcStep(c) \/ Tcth1Step(c) \/ Tcth2Step(c)
                             \/ IdleReap(c) \/ PeerSend(c) \/ PeerEnd(c)
  BY <1>3, OwnTcpc, OwnTcth1, OwnTcth2, OwnRest
<1> QED BY <1>1, <1>2, <1>3 DEF Next

\* With one calling thread, and a server that never sends the text
\* "TCP disconnect", no client is closed under its tcpc and at most one session
\* runs - whatever else the network does and whichever calls fail.
THEOREM OwnershipHolds ==
    ASSUME SingleCaller, "disc" \notin PeerActs
    PROVE  Spec => []OwnershipInv
<1>1. Init => TypeInv /\ Ownership
  BY TypeInit, OwnInit
<1>2. TypeInv /\ Ownership /\ [Next]_vars => TypeInv' /\ Ownership'
  BY TypeNext, OwnNext
<1>3. TypeInv /\ Ownership => OwnershipInv
  BY DEF TypeInv, OwnershipInv
<1> QED BY <1>1, <1>2, <1>3, PTL DEF Spec

-----------------------------------------------------------------------------
(* Who closes a client.                                                      *)

LEMMA CloseFrame ==
    ASSUME CloseBuild, CloseOwner,
           UNCHANGED <<pc, hdl, socketHdl, live, sockOpen, t1, arg1>>
    PROVE  CloseBuild' /\ CloseOwner'
BY DEF CloseBuild, CloseOwner

\* A step of a call that leaves the clients and the helpers alone.
LEMMA CloseCall ==
    ASSUME SingleCaller, CloseInv, NEW t \in Callers,
           Call(t) \/ Monitor(t) \/ CtrlStep(t)
    PROVE  CloseBuild' /\ CloseOwner'
<1> USE DEF CloseInv
<1>0. UNCHANGED <<live, sockOpen, t1, arg1>>
  BY DEF Call, Monitor, CtrlStep, sessVars, clientVars, helperVars
<1>1. CloseOwner'
  BY <1>0 DEF CloseOwner
<1>2. /\ hdl' = hdl \/ pc'[t] = "idle"
      /\ pc'[t] \notin {"conn_sock", "conn_hdl", "conn_ev", "conn_t1"}
      /\ pc'[t] = "conn_rx" => pc[t] = "conn_hdl" /\ socketHdl' = hdl[t] /\ hdl' = hdl
  <2> USE DEF TypeInv, TypeOK, CallTypes, Goto, Stay
  <2>1. CASE Call(t) \/ Monitor(t)
    BY <2>1 DEF Call, Monitor, CallConnect, CallDisconnect, CallSend, SetNetCfg,
                KeepAlive, Starts
  <2>2. CASE SetCurNetCfg(t) \/ SetReconnect(t) \/ ConnCheck(t)
    BY <2>2 DEF SetCurNetCfg, SetReconnect, ConnCheck
  <2>3. CASE LockTest(t) \/ LockSet(t)
    BY <2>3 DEF LockTest, LockSet, Taking, Locked
  <2>4. CASE ConnHdl(t) \/ ConnUnlock(t) \/ SendUnlock(t)
    BY <2>4 DEF ConnHdl, ConnUnlock, SendUnlock
  <2>5. CASE DiscFind(t) \/ DiscEnd(t) \/ DiscWait(t) \/ DiscUnlock(t)
    BY <2>5 DEF DiscFind, DiscEnd, DiscWait, DiscUnlock
  <2> QED BY <2>1, <2>2, <2>3, <2>4, <2>5 DEF CtrlStep
<1>3. CloseBuild'
  BY <1>0, <1>2 DEF SingleCaller, CloseBuild, BeforeEvent
<1> QED BY <1>1, <1>3

\* rt_tcpclient_start: a client is made, and started or given up.
LEMMA CloseStart ==
    ASSUME SingleCaller, CloseInv, NEW t \in Callers,
           ConnBegin(t) \/ ConnStarted(t) \/ ConnStartFails(t)
    PROVE  CloseBuild' /\ CloseOwner'
<1> USE DEF CloseInv, TypeInv, TypeOK, CallTypes, Goto, Stay
<1>0. UNCHANGED <<t1, arg1>>
  BY DEF ConnBegin, ConnStarted, ConnStartFails, helperVars
<1>1. CASE ConnBegin(t)
  <2>1. CASE live' = live /\ pc'[t] = "conn_unlock" /\ sockOpen' = sockOpen
    BY <1>0, <2>1 DEF SingleCaller, CloseBuild, CloseOwner, BeforeEvent
  <2>2. CASE \E c \in Clients : /\ t1[c] = "none" /\ hdl'[t] = c /\ pc'[t] = "conn_sock"
                                /\ live' = live \union {c} /\ sockOpen' = sockOpen \union {c}
    BY <1>0, <2>2 DEF SingleCaller, CloseBuild, CloseOwner, BeforeEvent
  <2> QED BY <1>1, <2>1, <2>2 DEF ConnBegin, Allocatable
<1>2. CASE ConnStarted(t)
  <2>1. /\ pc[t] = "conn_sock" /\ pc'[t] = "conn_hdl"
        /\ UNCHANGED <<hdl, live, sockOpen>>
    BY <1>2 DEF ConnStarted
  <2> QED BY <1>0, <2>1 DEF SingleCaller, CloseBuild, CloseOwner, BeforeEvent
<1>3. CASE ConnStartFails(t)
  <2>1. /\ pc[t] = "conn_sock" /\ pc'[t] \in {"conn_unlock", "assert"}
        /\ sockOpen' = sockOpen \ {hdl[t]} /\ live' \in {live, live \ {hdl[t]}}
    BY <1>3 DEF ConnStartFails
  <2>2. t1[hdl[t]] = "none"
    BY <2>1 DEF CloseBuild
  <2> QED BY <1>0, <2>1, <2>2 DEF SingleCaller, CloseBuild, CloseOwner, BeforeEvent
<1> QED BY <1>1, <1>2, <1>3

\* The rest of connect(), and send().
LEMMA CloseBuilding ==
    ASSUME SingleCaller, CloseInv, NEW t \in Callers,
           ConnAttach(t) \/ ConnEvent(t) \/ ConnTcth1(t) \/ ConnTcth2(t) \/ SendWrite(t)
    PROVE  CloseBuild' /\ CloseOwner'
<1> USE DEF CloseInv, TypeInv, TypeOK, CallTypes, HelperTypes, Goto, Stay
<1>0. UNCHANGED <<hdl, socketHdl, live, sockOpen>>
  BY DEF ConnAttach, ConnEvent, ConnTcth1, ConnTcth2, SendWrite, ctrlVars, clientVars
<1>1. CASE ConnAttach(t) \/ ConnEvent(t) \/ ConnTcth2(t) \/ SendWrite(t)
  <2>1. UNCHANGED <<t1, arg1>>
    BY <1>1 DEF ConnAttach, ConnEvent, ConnTcth2, SendWrite, helperVars
  <2>2. \/ pc[t] = "conn_rx" /\ pc'[t] \in {"conn_ev", "fault"}
        \/ pc[t] = "conn_ev" /\ pc'[t] \in {"conn_t1", "conn_unlock"}
        \/ pc'[t] \in {"conn_unlock", "send_unlock", "fault"}
    BY <1>1 DEF ConnAttach, ConnEvent, ConnTcth2, SendWrite
  <2> QED BY <1>0, <2>1, <2>2 DEF SingleCaller, CloseBuild, CloseOwner, BeforeEvent
<1>2. CASE ConnTcth1(t)
  <2>1. pc[t] = "conn_t1" /\ pc'[t] \in {"conn_t2", "conn_unlock"}
    BY <1>2 DEF ConnTcth1
  <2>2. CloseBuild'
    BY <2>1 DEF SingleCaller, CloseBuild, BeforeEvent
  <2>3. hdl[t] \in live \intersect sockOpen /\ socketHdl = hdl[t]
    BY <2>1 DEF CloseBuild
  <2>4. CloseOwner'
    BY <1>0, <1>2, <2>3 DEF ConnTcth1, CloseOwner
  <2> QED BY <2>2, <2>4
<1> QED BY <1>1, <1>2

\* A tcth1 closes its own client, which nobody is building.
LEMMA CloseTcth1 ==
    ASSUME CloseInv, NEW c \in Clients, Tcth1Step(c)
    PROVE  CloseBuild' /\ CloseOwner'
<1> USE DEF CloseInv, TypeInv, TypeOK, HelperTypes
<1>0. UNCHANGED <<pc, hdl, socketHdl>>
  BY DEF Tcth1Step, HelperRest, callVars
<1>4. live \subseteq Clients
  BY DEF ClientTypes
<1> USE DEF CloseBuild, CloseOwner
<1>1. CASE Tcth1Poll(c) \/ Tcth1Send(c)
  <2>1. /\ UNCHANGED <<live, sockOpen, arg1>>
        /\ t1[c] \in {"poll", "send"} /\ \A d \in Clients \ {c} : t1'[d] = t1[d]
    BY <1>1 DEF Tcth1Poll, Tcth1Send, clientVars
  <2>2. CloseBuild'
    BY <1>0, <1>4, <2>1
  <2>3. CloseOwner'
    BY <2>1
  <2> QED BY <2>2, <2>3
<1>2. CASE Tcth1Close(c)
  <2>1. /\ UNCHANGED <<live, arg1>> /\ sockOpen' = sockOpen \ {c}
        /\ t1[c] = "close" /\ t1'[c] \in {"free", "assert"}
        /\ \A d \in Clients \ {c} : t1'[d] = t1[d]
    BY <1>2 DEF Tcth1Close
  <2>2. CloseBuild'
    BY <1>0, <1>4, <2>1
  <2>3. CloseOwner'
    BY <2>1
  <2> QED BY <2>2, <2>3
<1>3. CASE Tcth1Free(c)
  <2>1. /\ UNCHANGED sockOpen /\ live' = live \ {c}
        /\ t1[c] = "free" /\ t1'[c] \in {"none", "assert"}
        /\ \A d \in Clients \ {c} : t1'[d] = t1[d] /\ arg1'[d] = arg1[d]
    BY <1>3 DEF Tcth1Free
  <2>2. CloseBuild'
    BY <1>0, <1>4, <2>1
  <2>3. CloseOwner'
    BY <2>1
  <2> QED BY <2>2, <2>3
<1> QED BY <1>1, <1>2, <1>3 DEF Tcth1Step

LEMMA CloseNext ==
    ASSUME SingleCaller, CloseInv, [Next]_vars
    PROVE  CloseInv'
<1>1. TypeInv'
  BY TypeNext DEF CloseInv
<1>2. CloseBuild' /\ CloseOwner'
  <2>1. CASE UNCHANGED vars
    BY <2>1, CloseFrame DEF CloseInv, vars, ctrlVars, callVars, sessVars, clientVars, helperVars
  <2>2. CASE \E t \in Callers : Call(t) \/ Monitor(t) \/ InCall(t)
    BY <2>2, CloseCall, CloseStart, CloseBuilding DEF InCall
  <2>3. ASSUME NEW c \in Clients, Tcth1Step(c)
        PROVE  CloseBuild' /\ CloseOwner'
    BY <2>3, CloseTcth1
  <2>4. ASSUME NEW c \in Clients,
               TcpcStep(c) \/ Tcth2Step(c) \/ IdleReap(c) \/ PeerSend(c) \/ PeerEnd(c)
        PROVE  CloseBuild' /\ CloseOwner'
    <3>1. UNCHANGED <<pc, hdl, socketHdl, live, sockOpen, t1, arg1>>
      BY <2>4 DEF TcpcStep, Tcth2Step, IdleReap, PeerSend, PeerEnd, HelperRest, ctrlVars,
                  callVars, clientVars, helperVars
    <3> QED BY <3>1, CloseFrame DEF CloseInv
  <2> QED BY <2>1, <2>2, <2>3, <2>4 DEF Next
<1> QED BY <1>1, <1>2 DEF CloseInv

\* With one calling thread every rt_tcpclient_close finds its client open and
\* nobody else closing it, whatever the server sends, "TCP disconnect" under a
\* running tcpc included, and whatever call fails: no RT_ASSERT(res == 0) of the
\* close path fails and nothing is released twice.
THEOREM ClosesOnce ==
    ASSUME SingleCaller
    PROVE  Spec => []ClosedOnce
<1>1. Init => CloseInv
  BY TypeInit DEF Init, CloseInv, CloseBuild, CloseOwner, BeforeEvent
<1>2. CloseInv /\ [Next]_vars => CloseInv'
  BY CloseNext
<1>3. CloseInv => ClosedOnce
  <2> SUFFICES ASSUME CloseInv PROVE ClosedOnce
    OBVIOUS
  <2>1. \A c \in Clients :
           /\ t1[c] \in {"close", "free"} => arg1[c] = c /\ c \in live
           /\ t1[c] = "close" => c \in sockOpen
    BY DEF CloseInv, CloseOwner
  <2> QED BY <2>1 DEF ClosedOnce
<1> QED BY <1>1, <1>2, <1>3, PTL DEF Spec

-----------------------------------------------------------------------------
(* The parameters in force, and the references of the calls.                 *)

LEMMA SessCall ==
    ASSUME SingleCaller, SessionInv, NEW t \in Callers, Call(t) \/ Monitor(t)
    PROVE  InvRefs' /\ InvParams'
<1> USE DEF SessionInv, OwnershipInv
<1>0. UNCHANGED sessVars /\ UNCHANGED hdl
  BY DEF Call, Monitor, CallConnect, CallDisconnect, CallSend, SetNetCfg, KeepAlive,
         Starts, Stay
<1>1. /\ pc[t] = "idle"
      /\ pc'[t] \in {"conn_lock", "disc_lock", "send_lock", "set_find"}
      /\ pc'[t] = "set_find" \/ cfg' = cfg
  BY DEF Call, Monitor, CallConnect, CallDisconnect, CallSend, SetNetCfg, KeepAlive,
         Starts, Goto, TypeOK, CallTypes, ctrlVars
<1>2. \A s \in Callers : s = t
  BY DEF SingleCaller
<1>3. InvRefs'
  BY <1>0, <1>1, <1>2 DEF InvRefs, Building
<1>4. InvParams'
  <2>1. ~Replacing(t)
    BY <1>1 DEF Replacing
  <2>2. \A c \in Clients : Alive(c) => used[c] = cfg
    BY <1>2, <2>1 DEF InvParams
  <2>3. used' = used /\ \A c \in Clients : Alive(c)' <=> Alive(c)
    BY <1>0 DEF sessVars, clientVars, tcpcVars, Alive
  <2>4. pc'[t] = "set_find" => Replacing(t)'
    BY DEF Replacing
  <2> QED BY <1>1, <1>2, <2>2, <2>3, <2>4 DEF InvParams
<1> QED BY <1>3, <1>4

LEMMA SessCtrl ==
    ASSUME SingleCaller, SessionInv, NEW t \in Callers, CtrlStep(t)
    PROVE  InvRefs' /\ InvParams'
<1> USE DEF SessionInv, OwnershipInv, Goto, Stay, ctrlVars
<1>0. UNCHANGED sessVars
  BY DEF CtrlStep
<1>a. \A s \in Callers : s = t
  BY DEF SingleCaller
<1>b. pc \in [Callers -> CallerPcs] /\ hdl \in [Callers -> Handles]
      /\ ret \in [Callers -> {"idle", "conn_relock", "set_apply"}]
  BY DEF TypeOK, CallTypes
<1>c. /\ pc'[t] # "conn_sock" /\ cfg' = cfg
      /\ pc'[t] \in Building => pc[t] = "conn_hdl"
      /\ pc[t] \notin {"conn_sock", "assert", "fault"}
      /\ pc[t] \in Building => pc[t] \in {"conn_hdl", "conn_unlock"}
  BY <1>b DEF CtrlStep, SetCurNetCfg, SetReconnect, LockTest, LockSet, ConnCheck, ConnHdl,
     ConnUnlock, DiscFind, DiscEnd, DiscWait, DiscUnlock, SendUnlock, Taking, Locked,
     Building
<1>1. InvRefs'
  <2>1. CASE ConnHdl(t)
    BY <1>a, <1>b, <1>c, <2>1 DEF ConnHdl, InvRefs, Building
  <2>2. CASE ConnUnlock(t)
    BY <1>a, <1>b, <1>c, <2>2 DEF ConnUnlock, InvRefs
  <2>3. CASE ~ConnHdl(t) /\ ~ConnUnlock(t)
    <3>1. UNCHANGED hdl /\ pc[t] \notin {"conn_hdl", "conn_unlock"}
      BY <2>3 DEF CtrlStep, SetCurNetCfg, SetReconnect, LockTest, LockSet, ConnCheck,
         DiscFind, DiscEnd, DiscWait, DiscUnlock, SendUnlock, Taking, Locked
    <3> QED BY <1>a, <1>c, <3>1 DEF InvRefs
  <2> QED BY <2>1, <2>2, <2>3
<1>2. InvParams'
  <2>1. used' = used /\ \A c \in Clients : Alive(c)' <=> Alive(c)
    BY <1>0 DEF sessVars, clientVars, tcpcVars, Alive
  <2>2. CASE ~Replacing(t)
    BY <1>a, <1>c, <2>1, <2>2 DEF InvParams
  <2>3. CASE \A c \in Clients : ~Alive(c)
    BY <1>a, <1>c, <2>1, <2>3 DEF InvParams
  <2>4. CASE Replacing(t) /\ \E c \in Clients : Alive(c)
    <3>1. TcpcFound
      BY <2>4 DEF TcpcFound, Alive
    <3>2. ~(pc[t] = "disc_wait" /\ end = 0)
      BY <2>4 DEF Ownership, InvQuiet
    <3>3. Replacing(t)'
      BY <1>b, <2>4, <3>1, <3>2 DEF Replacing, CtrlStep, SetCurNetCfg, SetReconnect,
         LockTest, LockSet, ConnCheck, ConnHdl, ConnUnlock, DiscFind, DiscEnd, DiscWait,
         DiscUnlock, SendUnlock, Taking, Locked
    <3> QED BY <1>a, <1>c, <3>3 DEF InvParams
  <2> QED BY <2>2, <2>3, <2>4
<1> QED BY <1>1, <1>2

LEMMA SessBegin ==
    ASSUME SingleCaller, SessionInv, NEW t \in Callers,
           ConnBegin(t) \/ ConnStarted(t) \/ ConnStartFails(t)
    PROVE  InvRefs' /\ InvParams'
<1> USE DEF SessionInv, OwnershipInv, Goto, Stay
<1>a. \A s \in Callers : s = t
  BY DEF SingleCaller
<1>b. /\ pc \in [Callers -> CallerPcs] /\ hdl \in [Callers -> Handles]
      /\ tpc \in [Clients -> TcpcPcs] /\ used \in [Clients -> Params \union {Null}]
  BY DEF TypeOK, CallTypes, TcpcTypes, ClientTypes
<1>c. \A c \in Clients : ~Alive(c)
  BY DEF Ownership, InvQuiet, NoSessionPcs, ConnBegin, ConnStarted, ConnStartFails
<1>1. CASE ConnBegin(t)
  <2>1. cfg' = cfg /\ \A c \in Clients : ~Alive(c)'
    BY <1>1, <1>c DEF ConnBegin, tcpcVars, Alive
  <2>2. \/ \E c \in Clients : /\ Allocatable(c) /\ used'[c] = cfg /\ hdl'[t] = c
                              /\ pc'[t] = "conn_sock"
        \/ pc'[t] = "conn_unlock" /\ hdl' = hdl
    BY <1>1, <1>b DEF ConnBegin
  <2>3. UNCHANGED <<t2, pipes>>
    BY <1>1 DEF ConnBegin, helperVars
  <2> QED BY <1>a, <2>1, <2>2, <2>3 DEF InvRefs, InvParams, Allocatable, Building
<1>2. CASE ConnStarted(t)
  <2>1. hdl[t] \in Clients => \A c \in Clients : Alive(c)' => c = hdl[t]
    BY <1>2, <1>b, <1>c DEF ConnStarted, Alive
  <2>2. hdl[t] \notin Clients => \A c \in Clients : ~Alive(c)'
    BY <1>2, <1>b, <1>c DEF ConnStarted, Alive
  <2>3. /\ pc[t] = "conn_sock" /\ pc'[t] = "conn_hdl" /\ hdl' = hdl
        /\ used' = used /\ cfg' = cfg
    BY <1>2, <1>b DEF ConnStarted, ctrlVars
  <2> QED BY <1>a, <2>1, <2>2, <2>3 DEF InvRefs, InvParams, Building
<1>3. CASE ConnStartFails(t)
  <2>1. pc'[t] \in {"conn_unlock", "assert"} /\ \A c \in Clients : ~Alive(c)'
    BY <1>3, <1>b, <1>c DEF ConnStartFails, tcpcVars, Alive
  <2> QED BY <1>a, <2>1 DEF InvRefs, InvParams, Building
<1> QED BY <1>1, <1>2, <1>3

LEMMA SessBuild ==
    ASSUME SingleCaller, SessionInv, NEW t \in Callers,
           ConnAttach(t) \/ ConnEvent(t) \/ ConnTcth1(t) \/ ConnTcth2(t) \/ SendWrite(t)
    PROVE  InvRefs' /\ InvParams'
<1> USE DEF SessionInv, OwnershipInv, Goto, Stay
<1>a. \A s \in Callers : s = t
  BY DEF SingleCaller
<1>b. pc \in [Callers -> CallerPcs]
  BY DEF TypeOK, CallTypes
<1>c. UNCHANGED <<hdl, used, cfg, tpc>>
  BY DEF ConnAttach, ConnEvent, ConnTcth1, ConnTcth2, SendWrite, ctrlVars, clientVars,
         tcpcVars
<1>d. /\ pc[t] \in {"conn_rx", "conn_ev", "conn_t1", "conn_t2", "send_wr"}
      /\ pc'[t] \in Building \union {"send_unlock", "fault"}
      /\ pc'[t] = "send_unlock" => pc[t] = "send_wr"
  BY <1>b DEF ConnAttach, ConnEvent, ConnTcth1, ConnTcth2, SendWrite, Building
<1>1. InvRefs'
  BY <1>a, <1>c, <1>d DEF InvRefs, Building
<1>2. InvParams'
  <2>1. ~Replacing(t)
    BY <1>d DEF Replacing, ConnAttach, ConnEvent, ConnTcth1, ConnTcth2, SendWrite
  <2>2. \A c \in Clients : Alive(c)' => Alive(c)
    BY <1>c DEF Alive
  <2> QED BY <1>a, <1>c, <1>d, <2>1, <2>2 DEF InvParams, Building
<1> QED BY <1>1, <1>2

LEMMA SessThreads ==
    ASSUME SessionInv, TypeInv, NEW c \in Clients,
           TcpcStep(c) \/ Tcth1Step(c) \/ Tcth2Step(c)
           \/ IdleReap(c) \/ PeerSend(c) \/ PeerEnd(c)
    PROVE  InvRefs' /\ InvParams'
<1> USE DEF SessionInv, OwnershipInv
<1>a. UNCHANGED <<callVars, cfg>>
  BY DEF TcpcStep, Tcth1Step, Tcth2Step, HelperRest, IdleReap, PeerSend, PeerEnd, ctrlVars
<1>b. /\ t1 \in [Clients -> Tcth1Pcs] /\ t2 \in [Clients -> Tcth2Pcs]
      /\ tpc \in [Clients -> TcpcPcs] /\ used \in [Clients -> Params \union {Null}]
      /\ \A t \in Callers : pc[t] = "conn_sock" => hdl[t] \in Clients
  BY DEF TypeInv, TypeOK, HandleOK, HelperTypes, TcpcTypes, ClientTypes
<1>1. \A d \in Clients : Alive(d)' => Alive(d)
  <2>1. CASE TcpcStep(c)
    BY <1>b, <2>1 DEF TcpcStep, TcpcFault, TcpcStart, SelectEnds, SelectReady, Recv, RxCb,
       PipeRead, TcpcGoto, AfterCb, Alive, TcpcStale
  <2>2. CASE IdleReap(c)
    BY <1>b, <2>2 DEF IdleReap, TcpcGoto, Alive
  <2>3. CASE tpc' = tpc
    BY <2>3 DEF Alive
  <2> QED BY <2>1, <2>2, <2>3 DEF Tcth1Step, Tcth2Step, HelperRest, PeerSend, PeerEnd,
             tcpcVars
<1>2. \A d \in Clients : used'[d] = used[d] \/ (~Alive(d) /\ t1[d] = "free")
  <2>1. CASE Tcth1Free(c)
    <3>1. arg1[c] = c /\ ~Alive(c) /\ t1[c] = "free"
      BY <2>1 DEF Tcth1Free, Ownership, InvOwner
    <3> QED BY <1>b, <2>1, <3>1 DEF Tcth1Free
  <2>2. CASE used' = used
    BY <2>2
  <2> QED BY <2>1, <2>2 DEF TcpcStep, Tcth1Step, Tcth1Poll, Tcth1Send, Tcth1Close, Tcth2Step,
             IdleReap, PeerSend, PeerEnd, clientVars
<1>3. \A d \in Clients : t2[d] = "none" => t2'[d] = "none"
  <2>1. CASE Tcth2Step(c)
    BY <1>b, <2>1 DEF Tcth2Step, Tcth2Poll, Tcth2Delete, Tcth2End
  <2>2. CASE t2' = t2
    BY <2>2
  <2> QED BY <2>1, <2>2 DEF TcpcStep, Tcth1Step, IdleReap, PeerSend, PeerEnd, helperVars
<1>4. pipes' \subseteq pipes
  BY DEF TcpcStep, Tcth1Step, Tcth1Poll, Tcth1Send, Tcth1Close, Tcth1Free, Tcth2Step,
         IdleReap, PeerSend, PeerEnd, clientVars
<1>5. InvRefs'
  BY <1>a, <1>b, <1>3, <1>4 DEF InvRefs, callVars
<1>6. InvParams'
  <2>1. \A t \in Callers : pc[t] = "conn_sock" => t1[hdl[t]] = "none"
    BY DEF Ownership, InvBuild
  <2>2. \A t \in Callers : Replacing(t)' <=> Replacing(t)
    BY <1>a DEF callVars, Replacing
  <2>3. \A t \in Callers : pc'[t] = "conn_sock" => used'[hdl'[t]] = cfg'
    BY <1>a, <1>b, <1>2, <2>1 DEF InvParams, callVars
  <2>4. \A d \in Clients : Alive(d)' => used'[d] = cfg' \/ \E t \in Callers : Replacing(t)'
    BY <1>a, <1>1, <1>2, <2>2 DEF InvParams
  <2> QED BY <2>3, <2>4 DEF InvParams
<1> QED BY <1>5, <1>6

LEMMA SessNext ==
    ASSUME SingleCaller, TypeInv, SessionInv, [Next]_vars
    PROVE  InvRefs' /\ InvParams'
<1>1. CASE UNCHANGED vars
  BY <1>1 DEF SessionInv, InvRefs, InvParams, Replacing, Alive, vars, sessVars, callVars,
     ctrlVars, clientVars, tcpcVars, helperVars
<1>2. CASE \E t \in Callers : Call(t) \/ Monitor(t) \/ InCall(t)
  BY <1>2, SessCall, SessCtrl, SessBegin, SessBuild DEF InCall
<1>3. CASE \E c \in Clients : \/ TcpcStep(c) \/ Tcth1Step(c) \/ Tcth2Step(c)
                             \/ IdleReap(c) \/ PeerSend(c) \/ PeerEnd(c)
  BY <1>3, SessThreads
<1> QED BY <1>1, <1>2, <1>3 DEF Next

LEMMA SessionInvariant ==
    ASSUME SingleCaller, "disc" \notin PeerActs
    PROVE  Spec => [](TypeInv /\ SessionInv)
<1>1. Init => TypeInv /\ SessionInv
  <2> SUFFICES ASSUME Init PROVE TypeInv /\ SessionInv
    OBVIOUS
  <2>1. InvRefs /\ InvParams
    BY DEF Init, InvRefs, InvParams, Alive
  <2> QED BY <2>1, TypeInit, OwnInit DEF SessionInv, OwnershipInv, TypeInv
<1>2. TypeInv /\ SessionInv /\ [Next]_vars => TypeInv' /\ SessionInv'
  BY TypeNext, OwnNext, SessNext DEF SessionInv, OwnershipInv, TypeInv
<1> QED BY <1>1, <1>2, PTL DEF Spec

\* With one calling thread, and a server that never sends the text
\* "TCP disconnect", a session that runs between two calls was opened with the
\* parameters in force: setNetCfg replaces every session that has others.
THEOREM ParamsTakeEffect ==
    ASSUME SingleCaller, "disc" \notin PeerActs
    PROVE  Spec => []ParamsInEffect
<1>1. SessionInv => ParamsInEffect
  BY DEF SessionInv, InvParams, Replacing, ParamsInEffect, NoCall
<1> QED BY <1>1, SessionInvariant, PTL

-----------------------------------------------------------------------------
(* The refinement of NetSession.                                             *)

\* Something of session c is left, or still to be made.
Held(c) ==
    \/ tpc[c] # "none" \/ t1[c] # "none" \/ t2[c] # "none"
    \/ c \in pipes \union evLive
    \/ \E t \in Callers : hdl[t] = c /\ pc[t] \in Building

\* The three states of a session.
LEMMA StateOf ==
    \A c \in Clients :
        /\ Alive(c) => SessionState(c) = "up"
        /\ ~Alive(c) /\ Held(c) => SessionState(c) = "ending"
        /\ ~Held(c) => SessionState(c) = "idle" /\ ~Alive(c)
BY DEF SessionState, Held, Alive

LEMMA StateOfNext ==
    \A c \in Clients :
        /\ Alive(c)' => SessionState(c)' = "up"
        /\ ~Alive(c)' /\ Held(c)' => SessionState(c)' = "ending"
        /\ ~Held(c)' => SessionState(c)' = "idle" /\ ~Alive(c)'
BY DEF SessionState, Held, Alive

\* A step that keeps every session as it is.
LEMMA SameSessions ==
    ASSUME \A c \in Clients : (Alive(c)' <=> Alive(c)) /\ (Held(c)' <=> Held(c))
    PROVE  [Session!Next]_([c \in Clients |-> SessionState(c)])
<1>1. \A c \in Clients : SessionState(c)' = SessionState(c)
  BY StateOf, StateOfNext
<1> QED BY <1>1

\* A step that changes one session, from one state to the next.
LEMMA OneChanges ==
    ASSUME NEW c \in Clients,
           \A d \in Clients \ {c} : (Alive(d)' <=> Alive(d)) /\ (Held(d)' <=> Held(d)),
           \/ Alive(c) /\ (Alive(c)' \/ Held(c)')
           \/ ~Alive(c) /\ ~Alive(c)' /\ Held(c)
           \/ ~Held(c) /\ Alive(c)' /\ \A d \in Clients : ~Alive(d)
    PROVE  [Session!Next]_([x \in Clients |-> SessionState(x)])
<1> DEFINE st == [x \in Clients |-> SessionState(x)]
<1>1. \A d \in Clients \ {c} : SessionState(d)' = SessionState(d)
  BY StateOf, StateOfNext
<1>2. \/ SessionState(c)' = SessionState(c)
      \/ SessionState(c) = "up" /\ SessionState(c)' = "ending"
      \/ SessionState(c) = "ending" /\ SessionState(c)' = "idle"
      \/ /\ SessionState(c) = "idle" /\ SessionState(c)' = "up"
         /\ \A d \in Clients : SessionState(d) # "up"
  BY StateOf, StateOfNext
<1>3. st' = [st EXCEPT ![c] = SessionState(c)']
  BY <1>1
<1>4. st[c] = SessionState(c) /\ \A d \in Clients : st[d] = SessionState(d)
  OBVIOUS
<1>5. CASE SessionState(c)' = SessionState(c)
  BY <1>1, <1>5
<1>6. CASE SessionState(c) = "up" /\ SessionState(c)' = "ending"
  <2>1. Session!Over(c)
    BY <1>3, <1>4, <1>6 DEF Session!Over
  <2> QED BY <2>1 DEF Session!Next
<1>7. CASE SessionState(c) = "ending" /\ SessionState(c)' = "idle"
  <2>1. Session!Release(c)
    BY <1>3, <1>4, <1>7 DEF Session!Release
  <2> QED BY <2>1 DEF Session!Next
<1>8. CASE /\ SessionState(c) = "idle" /\ SessionState(c)' = "up"
           /\ \A d \in Clients : SessionState(d) # "up"
  <2>1. Session!Open(c)
    BY <1>3, <1>4, <1>8 DEF Session!Open
  <2> QED BY <2>1 DEF Session!Next
<1> QED BY <1>2, <1>5, <1>6, <1>7, <1>8

LEMMA RefCtrl ==
    ASSUME SingleCaller, SessionInv, NEW t \in Callers,
           Call(t) \/ Monitor(t) \/ CtrlStep(t)
    PROVE  [Session!Next]_([c \in Clients |-> SessionState(c)])
<1> USE DEF SessionInv, OwnershipInv, Goto, Stay
<1>0. UNCHANGED sessVars
  BY DEF Call, Monitor, CtrlStep
<1>a. \A s \in Callers : s = t
  BY DEF SingleCaller
<1>b. pc \in [Callers -> CallerPcs] /\ hdl \in [Callers -> Handles]
      /\ ret \in [Callers -> {"idle", "conn_relock", "set_apply"}]
  BY DEF TypeOK, CallTypes
<1>c. \A c \in Clients : Alive(c)' <=> Alive(c)
  BY <1>0 DEF sessVars, tcpcVars, Alive
<1>d. UNCHANGED <<tpc, t1, t2, pipes, evLive>>
  BY <1>0 DEF sessVars, clientVars, eventVars, tcpcVars, helperVars
<1>1. CASE ConnUnlock(t)
  <2>1. pc[t] = "conn_unlock" /\ pc'[t] = "idle"
    BY <1>1, <1>b DEF ConnUnlock
  <2>2. \A d \in Clients : d # hdl[t] => (Held(d)' <=> Held(d))
    BY <1>a, <1>d, <2>1 DEF Held, Building
  <2>3. ASSUME NEW c \in Clients, c = hdl[t]
        PROVE  [Session!Next]_([x \in Clients |-> SessionState(x)])
    <3>1. Held(c)
      BY <2>1, <2>3 DEF Held, Building
    <3>2. \A d \in Clients \ {c} : (Alive(d)' <=> Alive(d)) /\ (Held(d)' <=> Held(d))
      BY <1>c, <2>2, <2>3
    <3> QED BY <1>c, <3>1, <3>2, OneChanges
  <2>4. CASE hdl[t] \notin Clients
    BY <1>c, <2>2, <2>4, SameSessions
  <2> QED BY <2>3, <2>4
<1>2. CASE ~ConnUnlock(t)
  <2>1. UNCHANGED hdl /\ (pc'[t] \in Building <=> pc[t] \in Building)
    BY <1>2, <1>b DEF Call, Monitor, CallConnect, CallDisconnect, CallSend, SetNetCfg,
       KeepAlive, Starts, CtrlStep, SetCurNetCfg, SetReconnect, LockTest, LockSet, ConnCheck,
       ConnHdl, DiscFind, DiscEnd, DiscWait, DiscUnlock, SendUnlock, Taking, Locked, Building
  <2>2. \A c \in Clients : Held(c)' <=> Held(c)
    BY <1>a, <1>d, <2>1 DEF Held
  <2> QED BY <1>c, <2>2, SameSessions
<1> QED BY <1>1, <1>2

LEMMA RefBegin ==
    ASSUME SingleCaller, CleanStart, TypeInv, SessionInv, NEW t \in Callers,
           ConnBegin(t) \/ ConnStarted(t) \/ ConnStartFails(t)
    PROVE  [Session!Next]_([c \in Clients |-> SessionState(c)])
<1> USE DEF SessionInv, OwnershipInv, Goto, Stay
<1>a. \A s \in Callers : s = t
  BY DEF SingleCaller
<1>b. /\ pc \in [Callers -> CallerPcs] /\ hdl \in [Callers -> Handles]
      /\ tpc \in [Clients -> TcpcPcs] /\ Null \notin Clients
      /\ pc[t] = "conn_sock" => hdl[t] \in Clients
  BY ConstantsOK DEF TypeInv, TypeOK, HandleOK, CallTypes, TcpcTypes
<1>c. \A c \in Clients : ~Alive(c)
  BY DEF Ownership, InvQuiet, NoSessionPcs, ConnBegin, ConnStarted, ConnStartFails
<1>1. CASE ConnBegin(t)
  <2>1. UNCHANGED <<tpc, t1, t2, pipes, evLive>>
    BY <1>1 DEF ConnBegin, tcpcVars, helperVars, eventVars
  <2>2. pc[t] \notin Building /\ hdl[t] = Null
    BY <1>1 DEF ConnBegin, InvRefs, Building
  <2>3. pc'[t] = "conn_sock" \/ (pc'[t] = "conn_unlock" /\ hdl' = hdl)
    BY <1>1, <1>b DEF ConnBegin
  <2>4. \A c \in Clients : ~(hdl'[t] = c /\ pc'[t] \in Building)
    BY <1>b, <2>2, <2>3 DEF Building
  <2>5. \A c \in Clients : (Alive(c)' <=> Alive(c)) /\ (Held(c)' <=> Held(c))
    BY <1>a, <2>1, <2>2, <2>4 DEF Alive, Held
  <2> QED BY <2>5, SameSessions
<1>2. CASE ConnStarted(t)
  <2>0. PICK c \in Clients : c = hdl[t]
    BY <1>2, <1>b DEF ConnStarted
  <2>1. /\ pc[t] = "conn_sock" /\ pipes' = pipes \union {c}
        /\ tpc' = [tpc EXCEPT ![c] = "start"] /\ pc'[t] = "conn_hdl"
        /\ UNCHANGED <<hdl, t1, t2, evLive>>
    BY <1>2, <1>b, <2>0 DEF ConnStarted, eventVars, helperVars
  <2>2. ~Held(c) /\ Alive(c)'
    BY <1>a, <1>b, <2>0, <2>1 DEF Held, Alive, Ownership, InvBuild, InvRefs, BeforeEvent,
       Building
  <2>3. \A d \in Clients \ {c} : (Alive(d)' <=> Alive(d)) /\ (Held(d)' <=> Held(d))
    BY <1>a, <1>b, <2>0, <2>1 DEF Held, Alive
  <2> QED BY <1>c, <2>1, <2>2, <2>3, OneChanges
<1>3. CASE ConnStartFails(t)
  <2>1. /\ UNCHANGED <<tpc, t1, t2, pipes, evLive>>
        /\ pc[t] = "conn_sock" /\ pc'[t] = "conn_unlock" /\ hdl'[t] = Null
    BY <1>3, <1>b DEF ConnStartFails, CleanStart, tcpcVars, helperVars, eventVars
  <2>2. \A c \in Clients : (Alive(c)' <=> Alive(c)) /\ (Held(c)' <=> Held(c))
    BY <1>a, <1>b, <2>1 DEF Alive, Held, Building
  <2> QED BY <2>2, SameSessions
<1> QED BY <1>1, <1>2, <1>3

LEMMA RefBuild ==
    ASSUME SingleCaller, TypeInv, SessionInv, NEW t \in Callers,
           ConnAttach(t) \/ ConnEvent(t) \/ ConnTcth1(t) \/ ConnTcth2(t) \/ SendWrite(t)
    PROVE  [Session!Next]_([c \in Clients |-> SessionState(c)])
<1> USE DEF SessionInv, OwnershipInv, Goto, Stay
<1>a. \A s \in Callers : s = t
  BY DEF SingleCaller
<1>b. /\ pc \in [Callers -> CallerPcs] /\ t1 \in [Clients -> Tcth1Pcs]
      /\ t2 \in [Clients -> Tcth2Pcs]
      /\ ~SendWrite(t) => hdl[t] \in Clients
  BY DEF TypeInv, TypeOK, HandleOK, CallTypes, HelperTypes, Building, ConnAttach, ConnEvent,
         ConnTcth1, ConnTcth2
<1>c. UNCHANGED <<hdl, tpc, pipes>>
  BY DEF ConnAttach, ConnEvent, ConnTcth1, ConnTcth2, SendWrite, clientVars, tcpcVars
<1>d. \A c \in Clients : Alive(c)' <=> Alive(c)
  BY <1>c DEF Alive
<1>1. CASE SendWrite(t)
  <2>1. UNCHANGED <<t1, t2, evLive>> /\ pc[t] \notin Building /\ pc'[t] \notin Building
    BY <1>1, <1>b DEF SendWrite, helperVars, eventVars, Building
  <2>2. \A c \in Clients : Held(c)' <=> Held(c)
    BY <1>a, <1>c, <2>1 DEF Held
  <2> QED BY <1>d, <2>2, SameSessions
<1>2. CASE ~SendWrite(t)
  <2>1. pc[t] \in Building /\ pc'[t] \in Building
    <3>1. CASE ConnAttach(t)
      <4>1. socketHdl \in live
        BY <3>1 DEF ConnAttach, Ownership, InvBuild, BeforeEvent
      <4> QED BY <1>b, <3>1, <4>1 DEF ConnAttach, Building
    <3>2. CASE ConnEvent(t) \/ ConnTcth1(t) \/ ConnTcth2(t)
      BY <1>b, <3>2 DEF ConnEvent, ConnTcth1, ConnTcth2, Building
    <3> QED BY <1>2, <3>1, <3>2
  <2>0. PICK c \in Clients : c = hdl[t]
    BY <1>2, <1>b
  <2>2. Held(c) /\ Held(c)'
    BY <1>c, <2>0, <2>1 DEF Held
  <2>3. \A d \in Clients \ {c} : /\ t1'[d] = t1[d] /\ t2'[d] = t2[d]
                                 /\ d \in evLive' <=> d \in evLive
    BY <1>2, <1>b, <2>0 DEF ConnAttach, ConnEvent, ConnTcth1, ConnTcth2, helperVars, eventVars
  <2>4. \A d \in Clients \ {c} : Held(d)' <=> Held(d)
    BY <1>a, <1>c, <2>0, <2>1, <2>3 DEF Held
  <2>5. \A d \in Clients : Held(d)' <=> Held(d)
    BY <2>2, <2>4
  <2> QED BY <1>d, <2>5, SameSessions
<1> QED BY <1>1, <1>2

LEMMA RefThreads ==
    ASSUME TypeInv, SessionInv, NEW c \in Clients,
           TcpcStep(c) \/ Tcth1Step(c) \/ Tcth2Step(c)
           \/ IdleReap(c) \/ PeerSend(c) \/ PeerEnd(c)
    PROVE  [Session!Next]_([x \in Clients |-> SessionState(x)])
<1> USE DEF SessionInv, OwnershipInv
<1>a. UNCHANGED <<pc, hdl>>
  BY DEF TcpcStep, Tcth1Step, Tcth2Step, HelperRest, IdleReap, PeerSend, PeerEnd, callVars
<1>b. /\ t1 \in [Clients -> Tcth1Pcs] /\ t2 \in [Clients -> Tcth2Pcs]
      /\ tpc \in [Clients -> TcpcPcs] /\ tcEvent \in Handles
  BY DEF TypeInv, TypeOK, HelperTypes, TcpcTypes, EventTypes
<1>1. CASE TcpcStep(c)
  <2>1. UNCHANGED <<t1, t2, pipes, evLive>>
    BY <1>1 DEF TcpcStep, clientVars, helperVars
  <2>2. /\ Alive(c) /\ tpc'[c] # "none"
        /\ \A d \in Clients \ {c} : tpc'[d] = tpc[d]
    BY <1>1, <1>b DEF TcpcStep, TcpcFault, TcpcStart, SelectEnds, SelectReady, Recv, RxCb,
       PipeRead, TcpcGoto, AfterCb, Alive, TcpcStale
  <2>3. Held(c)'
    BY <2>2 DEF Held
  <2>4. \A d \in Clients \ {c} : (Alive(d)' <=> Alive(d)) /\ (Held(d)' <=> Held(d))
    BY <1>a, <2>1, <2>2 DEF Alive, Held
  <2> QED BY <2>2, <2>3, <2>4, OneChanges
<1>2. CASE Tcth1Step(c)
  <2>1. UNCHANGED <<tpc, t2, evLive>>
    BY <1>2 DEF Tcth1Step, HelperRest, tcpcVars
  <2>2. /\ t1[c] # "none" /\ arg1[c] = c
        /\ \A d \in Clients \ {c} : t1'[d] = t1[d]
    BY <1>2, <1>b DEF Tcth1Step, Tcth1Poll, Tcth1Send, Tcth1Close, Tcth1Free, Ownership,
       InvOwner
  <2>3. \A d \in Clients \ {c} : d \in pipes' <=> d \in pipes
    BY <1>2, <2>2 DEF Tcth1Step, Tcth1Poll, Tcth1Send, Tcth1Close, Tcth1Free, clientVars
  <2>4. Held(c) /\ (Alive(c)' <=> Alive(c))
    BY <2>1, <2>2 DEF Held, Alive
  <2>5. \A d \in Clients \ {c} : (Alive(d)' <=> Alive(d)) /\ (Held(d)' <=> Held(d))
    BY <1>a, <2>1, <2>2, <2>3 DEF Alive, Held
  <2> QED BY <2>4, <2>5, OneChanges
<1>3. CASE Tcth2Step(c)
  <2>1. UNCHANGED <<tpc, t1, pipes>>
    BY <1>3 DEF Tcth2Step, HelperRest, tcpcVars, clientVars
  <2>2. \A d \in Clients : Alive(d)' <=> Alive(d)
    BY <2>1 DEF Alive
  <2>3. \A d \in Clients \ {c} : t2'[d] = t2[d]
    BY <1>3, <1>b DEF Tcth2Step, Tcth2Poll, Tcth2Delete, Tcth2End
  <2>4. t2[c] # "none" /\ Held(c)
    BY <1>3 DEF Tcth2Step, Tcth2Poll, Tcth2Delete, Tcth2End, Held
  <2>5. CASE evLive' = evLive
    <3>1. \A d \in Clients \ {c} : Held(d)' <=> Held(d)
      BY <1>a, <2>1, <2>3, <2>5 DEF Held
    <3> QED BY <2>2, <2>4, <3>1, OneChanges
  <2>6. CASE evLive' # evLive
    <3>1. /\ evLive' = evLive \ {tcEvent} /\ tcEvent \in evLive /\ tcEvent \in Clients
          /\ t2'[c] # "none"
      BY <1>3, <1>b, <2>6 DEF Tcth2Step, Tcth2Poll, Tcth2Delete, Tcth2End, TypeInv, TypeOK,
         EventTypes
    <3>2. Held(c)' /\ Held(tcEvent)
      BY <3>1 DEF Held
    <3>3. \A d \in Clients \ {tcEvent} : Held(d)' <=> Held(d)
      BY <1>a, <2>1, <2>3, <2>4, <3>1, <3>2 DEF Held
    <3> QED BY <2>2, <3>1, <3>2, <3>3, OneChanges
  <2> QED BY <2>5, <2>6
<1>4. CASE IdleReap(c)
  <2>1. UNCHANGED <<t1, t2, pipes, evLive>>
    BY <1>4 DEF IdleReap, clientVars, eventVars, helperVars
  <2>2. /\ tpc[c] = "defunct" /\ tpc'[c] = "none"
        /\ \A d \in Clients \ {c} : tpc'[d] = tpc[d]
    BY <1>4, <1>b DEF IdleReap, TcpcGoto
  <2>3. Held(c) /\ ~Alive(c) /\ ~Alive(c)'
    BY <2>2 DEF Held, Alive
  <2>4. \A d \in Clients \ {c} : (Alive(d)' <=> Alive(d)) /\ (Held(d)' <=> Held(d))
    BY <1>a, <2>1, <2>2 DEF Alive, Held
  <2> QED BY <2>3, <2>4, OneChanges
<1>5. CASE PeerSend(c) \/ PeerEnd(c)
  <2>1. UNCHANGED <<tpc, t1, t2, pipes, evLive>>
    BY <1>5 DEF PeerSend, PeerEnd, clientVars, eventVars, tcpcVars, helperVars
  <2>2. \A d \in Clients : (Alive(d)' <=> Alive(d)) /\ (Held(d)' <=> Held(d))
    BY <1>a, <2>1 DEF Alive, Held
  <2> QED BY <2>2, SameSessions
<1> QED BY <1>1, <1>2, <1>3, <1>4, <1>5

\* The controller implements NetSession for any number of client objects: with
\* one calling thread, no text "TCP disconnect", and a start that fails, if at
\* all, before it has registered its pipe, connections follow one another, one
\* at a time, and a client object serves another connection only after all of
\* its own has been released.
THEOREM SessionRefined ==
    ASSUME SingleCaller, "disc" \notin PeerActs, CleanStart
    PROVE  Spec => RefinesSession
<1>1. Init => Session!Init
  <2> SUFFICES ASSUME Init PROVE Session!Init
    OBVIOUS
  <2>1. \A c \in Clients : ~Held(c)
    BY DEF Init, Held, Building
  <2> QED BY <2>1, StateOf DEF Session!Init
<1>2. TypeInv /\ SessionInv /\ [Next]_vars
        => [Session!Next]_([c \in Clients |-> SessionState(c)])
  <2> SUFFICES ASSUME TypeInv, SessionInv, [Next]_vars
               PROVE  [Session!Next]_([c \in Clients |-> SessionState(c)])
    OBVIOUS
  <2>1. CASE UNCHANGED vars
    <3>1. \A c \in Clients : (Alive(c)' <=> Alive(c)) /\ (Held(c)' <=> Held(c))
      BY <2>1 DEF Alive, Held, vars, sessVars, callVars, clientVars, eventVars, tcpcVars,
         helperVars
    <3> QED BY <3>1, SameSessions
  <2>2. CASE \E t \in Callers : Call(t) \/ Monitor(t) \/ InCall(t)
    BY <2>2, RefCtrl, RefBegin, RefBuild DEF InCall
  <2>3. CASE \E c \in Clients : \/ TcpcStep(c) \/ Tcth1Step(c) \/ Tcth2Step(c)
                               \/ IdleReap(c) \/ PeerSend(c) \/ PeerEnd(c)
    BY <2>3, RefThreads
  <2> QED BY <2>1, <2>2, <2>3 DEF Next
<1> QED BY <1>1, <1>2, SessionInvariant, PTL DEF Spec, RefinesSession, Session!Spec

-----------------------------------------------------------------------------
(* Calm runs: nothing fails, everything is released, nobody waits in vain.   *)

LEMMA CalmFrame ==
    ASSUME UNCHANGED sessVars
    PROVE  \A c \in Clients :
              /\ Alive(c)' <=> Alive(c)
              /\ Gone(c)' <=> Gone(c)
              /\ Up(c)' <=> Up(c)
              /\ Ending(c)' <=> Ending(c)
              /\ Steady(c)' <=> Steady(c)
<1> USE DEF sessVars, clientVars, eventVars, peerVars, tcpcVars, helperVars
<1>1. \A c \in Clients : Alive(c)' <=> Alive(c)
  BY DEF Alive
<1>2. \A c \in Clients : Gone(c)' <=> Gone(c)
  BY <1>1 DEF Gone
<1>3. \A c \in Clients : Up(c)' <=> Up(c)
  BY <1>1 DEF Up, HasEvent
<1>4. \A c \in Clients : Ending(c)' <=> Ending(c)
  BY <1>1 DEF Ending
<1>5. \A c \in Clients : Steady(c)' <=> Steady(c)
  BY DEF Steady
<1> QED BY <1>1, <1>2, <1>3, <1>4, <1>5

\* The parts of the invariant that only the sessions' objects enter.
LEMMA CalmFrameClean ==
    ASSUME UNCHANGED sessVars, InvClean
    PROVE  InvClean'
<1>1. \A c \in Clients : Alive(c)' <=> Alive(c)
  BY CalmFrame
<1> QED BY <1>1 DEF InvClean, SockReady, sessVars, peerVars, tcpcVars, helperVars

\* When a call starts every session is up, with nothing under way, or gone.
LEMMA CalmCall ==
    ASSUME CalmRun, TypeInv, CalmInv, NEW t \in Callers, Call(t) \/ Monitor(t)
    PROVE  InvPhase' /\ InvWait' /\ InvHeld' /\ InvClean' /\ InvCalm'
<1> USE DEF CalmInv
<1>a. \A s \in Callers : s = t
  BY DEF CalmRun, SingleCaller
<1>0. UNCHANGED sessVars /\ UNCHANGED <<hdl, end>>
  BY DEF Call, Monitor, CallConnect, CallDisconnect, CallSend, SetNetCfg, KeepAlive,
         Starts, Stay, ctrlVars
<1>1. /\ pc[t] = "idle" /\ Settled
      /\ pc'[t] \in {"conn_lock", "disc_lock", "set_find"}
  BY DEF Call, Monitor, CallConnect, CallDisconnect, CallSend, SetNetCfg, KeepAlive,
         Starts, Goto, MayCall, CalmRun, TypeInv, TypeOK, CallTypes
<1>2. \A c \in Clients : /\ Gone(c) \/ Up(c)
                         /\ tpc[c] # "defunct" /\ (Alive(c) => Steady(c))
  BY <1>1 DEF Settled, InvPhase, Alive, Gone, Up, Ending, Steady, Late
<1>3. InvPhase'
  BY <1>0, <1>1, <1>2, <1>a, CalmFrame DEF InvPhase, NoSessionPcs, Started, BeforeEvent,
     BeforeEnd, sessVars, tcpcVars
<1>4. InvWait'
  BY <1>0, <1>1, <1>a DEF InvWait
<1>5. InvHeld'
  BY <1>0, <1>1, <1>a DEF InvHeld, Owned, BeforeEvent, sessVars, clientVars, helperVars
<1>6. InvCalm'
  BY <1>0, <1>1, <1>a DEF InvCalm, sessVars, peerVars, tcpcVars
<1> QED BY <1>0, <1>3, <1>4, <1>5, <1>6, CalmFrameClean

LEMMA CalmCtrl ==
    ASSUME CalmRun, TypeInv, CalmInv, NEW t \in Callers, CtrlStep(t)
    PROVE  InvPhase' /\ InvWait' /\ InvHeld' /\ InvClean' /\ InvCalm'
<1> USE DEF CalmInv, Goto, Stay, ctrlVars
<1>a. \A s \in Callers : s = t
  BY DEF CalmRun, SingleCaller
<1>0. UNCHANGED sessVars
  BY DEF CtrlStep
<1>b. pc \in [Callers -> CallerPcs] /\ end \in {0, 1}
      /\ ret \in [Callers -> {"idle", "conn_relock", "set_apply"}]
  BY DEF TypeInv, TypeOK, CtrlTypes, CallTypes
<1>c. UNCHANGED <<tpc, t1, t2, live, sockOpen, pipes, evLive, evSet, tcEvent, rx>>
  BY <1>0 DEF sessVars, clientVars, eventVars, tcpcVars, helperVars
<1>d. pc[t] \notin {"send_lock", "send_take", "send_unlock"}
  BY DEF InvCalm
<1>1. CASE ConnHdl(t)
  <2>1. pc[t] = "conn_hdl" /\ pc'[t] = "conn_rx" /\ UNCHANGED <<hdl, end>>
    BY <1>1, <1>b DEF ConnHdl
  <2>2. \A c \in Clients : IF c = hdl[t] THEN UnderWay(t, c) ELSE Gone(c)
    BY <2>1 DEF InvPhase, Started, BeforeEvent
  <2>3. \A c \in Clients : c = hdl[t] => UnderWay(t, c)'
    BY <1>0, <1>c, <2>1, <2>2, CalmFrame DEF UnderWay, BeforeEvent, HasEvent
  <2>4. InvPhase'
    BY <1>0, <1>a, <2>1, <2>2, <2>3, CalmFrame DEF InvPhase, Started, BeforeEvent,
       NoSessionPcs, BeforeEnd
  <2>5. InvWait'
    BY <1>a, <2>1 DEF InvWait
  <2>6. InvHeld'
    BY <1>a, <1>c, <2>1 DEF InvHeld, Owned, BeforeEvent
  <2>7. InvCalm'
    BY <1>0, <1>a, <2>1 DEF InvCalm, sessVars, peerVars, tcpcVars
  <2> QED BY <1>0, <2>4, <2>5, <2>6, <2>7, CalmFrameClean
<1>2. CASE ~ConnHdl(t)
  \* Where the call was, and where it is now.
  <2>1. /\ pc'[t] \notin Started \union {"conn_sock", "conn_unlock"}
        /\ pc[t] \notin Started \union {"conn_sock"}
        /\ pc'[t] \notin {"send_lock", "send_take", "send_wr", "send_unlock", "assert", "fault"}
    BY <1>2, <1>b, <1>d DEF CtrlStep, SetCurNetCfg, SetReconnect, LockTest, LockSet,
       ConnCheck, ConnUnlock, DiscFind, DiscEnd, DiscWait, DiscUnlock, SendUnlock, Taking,
       Locked, Started, BeforeEvent
  <2>2. InvHeld'
    BY <1>a, <1>c, <2>1 DEF InvHeld, Owned, Started
  <2>3. InvCalm'
    BY <1>0, <1>a, <2>1 DEF InvCalm, sessVars, peerVars, tcpcVars
  <2>4. CASE \A c \in Clients : Gone(c)
    <3>1. \A c \in Clients : Gone(c)' /\ ~Alive(c)'
      BY <1>0, <2>4, CalmFrame DEF Gone
    <3>2. pc'[t] \in BeforeEnd => \A c \in Clients : tpc[c] # "defunct"
      <4>1. CASE SetReconnect(t)
        BY <4>1 DEF SetReconnect, CalmRun
      <4>2. CASE ~SetReconnect(t)
        <5>1. pc'[t] \in BeforeEnd => pc[t] \in BeforeEnd
          BY <1>2, <1>b, <1>d, <4>2 DEF CtrlStep, SetCurNetCfg, LockTest, LockSet,
             ConnCheck, ConnUnlock, DiscFind, DiscEnd, DiscWait, DiscUnlock, SendUnlock,
             Taking, Locked, BeforeEnd
        <5> QED BY <5>1 DEF InvPhase
      <4> QED BY <4>1, <4>2
    <3>3. InvPhase'
      BY <1>a, <1>c, <2>1, <3>1, <3>2 DEF InvPhase
    <3>4. ~DiscEnd(t) /\ end = 0 /\ end' = 0
      <4>1. ~DiscEnd(t)
        BY <2>4 DEF DiscEnd, InvWait
      <4>2. end = 0
        BY <1>b, <2>4 DEF InvWait
      <4> QED BY <1>2, <4>1, <4>2 DEF CtrlStep, SetCurNetCfg, SetReconnect, LockTest, LockSet,
                 ConnCheck, ConnUnlock, DiscFind, DiscWait, DiscUnlock, SendUnlock
    <3>5. pc'[t] # "disc_end"
      <4>1. ~TcpcFound \/ pc[t] # "disc_find"
        BY <2>4 DEF TcpcFound, InvPhase, BeforeEnd, Gone, Alive
      <4> QED BY <1>2, <1>b, <4>1 DEF CtrlStep, SetCurNetCfg, SetReconnect, LockTest, LockSet,
                 ConnCheck, ConnUnlock, DiscFind, DiscEnd, DiscWait, DiscUnlock, SendUnlock,
                 Taking, Locked
    <3>6. InvWait'
      BY <1>a, <3>1, <3>4, <3>5 DEF InvWait
    <3> QED BY <1>0, <2>2, <2>3, <3>3, <3>6, CalmFrameClean
  <2>5. CASE \E c \in Clients : ~Gone(c)
    <3>1. pc[t] \in BeforeEnd \union {"conn_unlock"} /\ end = 0
      <4>1. pc[t] \in CallerPcs /\ pc[t] \notin NoSessionPcs
        BY <1>b, <2>5 DEF InvPhase
      <4>2. pc[t] # "idle" /\ ~(pc[t] = "disc_wait" /\ end # 0)
        BY <1>2 DEF CtrlStep, SetCurNetCfg, SetReconnect, LockTest, LockSet, ConnCheck,
           ConnUnlock, DiscFind, DiscEnd, DiscWait, DiscUnlock, SendUnlock, Taking, Locked
      <4>3. pc[t] # "disc_wait"
        BY <2>5, <4>2 DEF InvWait
      <4>4. pc[t] \in BeforeEnd \union {"conn_unlock"}
        BY <1>d, <2>1, <4>1, <4>2, <4>3 DEF CallerPcs, NoSessionPcs, BeforeEnd, Started,
           BeforeEvent, InvCalm
      <4> QED BY <1>b, <4>3, <4>4 DEF InvWait
    <3>2. \A c \in Clients : /\ Gone(c) \/ Up(c)
                             /\ Alive(c) => Steady(c)
      BY <3>1 DEF InvPhase, BeforeEnd
    <3>3. PICK c \in Clients : Alive(c)
      BY <2>5, <3>2 DEF Up
    <3>4. TcpcFound
      BY <3>3 DEF TcpcFound, Alive
    <3>5. socketHdl # Null
      BY <3>1, <3>3 DEF SessionInv, OwnershipInv, Ownership, InvQuiet, BeforeEnd
    <3>6. /\ pc'[t] \in BeforeEnd \union {"idle", "disc_wait"}
          /\ pc'[t] \in BeforeEnd => pc[t] \in BeforeEnd
          /\ pc'[t] = "disc_wait" <=> end' = 1
          /\ pc'[t] # "disc_wait" => end' = 0
      BY <1>2, <1>b, <3>1, <3>4, <3>5 DEF CtrlStep, SetCurNetCfg, SetReconnect, LockTest,
         LockSet, ConnCheck, HasSession, ConnUnlock, DiscFind, DiscEnd, DiscWait, DiscUnlock,
         SendUnlock, Taking, Locked, BeforeEnd
    <3>7. InvPhase'
      BY <1>0, <1>a, <1>c, <3>2, <3>6, CalmFrame DEF InvPhase, BeforeEnd, NoSessionPcs,
         Started, BeforeEvent
    <3>8. InvWait'
      <4>1. ~Gone(c)'
        BY <1>0, <3>3, CalmFrame DEF Gone
      <4> QED BY <1>a, <3>6, <4>1 DEF InvWait
    <3> QED BY <1>0, <2>2, <2>3, <3>7, <3>8, CalmFrameClean
  <2> QED BY <2>4, <2>5
<1> QED BY <1>1, <1>2

\* connect() begins when every session is gone, and its new client stays the
\* only session until it is complete.
LEMMA CalmBegin ==
    ASSUME CalmRun, TypeInv, CalmInv, NEW t \in Callers,
           ConnBegin(t) \/ ConnStarted(t) \/ ConnStartFails(t)
    PROVE  InvPhase' /\ InvWait' /\ InvHeld' /\ InvClean' /\ InvCalm'
<1> USE DEF CalmInv, Goto, Stay
<1>a. \A s \in Callers : s = t
  BY DEF CalmRun, SingleCaller
<1>b. /\ pc \in [Callers -> CallerPcs] /\ hdl \in [Callers -> Handles] /\ end \in {0, 1}
      /\ tpc \in [Clients -> TcpcPcs] /\ Null \notin Clients
      /\ pc[t] = "conn_sock" => hdl[t] \in Clients
  BY ConstantsOK DEF TypeInv, TypeOK, HandleOK, CtrlTypes, CallTypes, TcpcTypes
<1>c. (\A c \in Clients : Gone(c) /\ ~Alive(c)) /\ end = 0
  <2>1. pc[t] \in {"conn_begin", "conn_sock"}
    BY DEF ConnBegin, ConnStarted, ConnStartFails
  <2> QED BY <1>b, <2>1 DEF InvPhase, InvWait, NoSessionPcs, Gone
<1>d. UNCHANGED <<t1, t2, evLive, tcEvent, evSet, rcv, conn, msg, pipe>>
  BY DEF ConnBegin, ConnStarted, ConnStartFails, helperVars, eventVars, peerVars, tcpcVars
<1>e. end' = 0
  BY <1>c DEF ConnBegin, ConnStarted, ConnStartFails, ctrlVars
<1>1. CASE ConnBegin(t) \/ ConnStartFails(t)
  <2>1. tpc' = tpc /\ pc'[t] \in {"conn_sock", "conn_unlock"}
    BY <1>1, <1>b DEF ConnBegin, ConnStartFails, CalmRun, tcpcVars
  <2>2. \A c \in Clients : Gone(c)' /\ ~Alive(c)'
    BY <1>c, <1>d, <2>1 DEF Gone, Alive
  <2>3. InvPhase' /\ InvWait'
    BY <1>a, <1>e, <2>1, <2>2 DEF InvPhase, InvWait, BeforeEnd, Started, BeforeEvent
  <2>4. InvClean' /\ InvCalm'
    BY <1>a, <1>d, <2>1 DEF InvClean, InvCalm, SockReady, Alive
  <2>5. CASE ConnBegin(t)
    <3>1. CASE pc'[t] = "conn_sock"
      <4>1. PICK c \in Clients : /\ live' = live \union {c} /\ sockOpen' = sockOpen \union {c}
                                 /\ hdl'[t] = c
        BY <1>b, <2>5, <3>1 DEF ConnBegin
      <4>2. Owned(c)' /\ \A d \in Clients : ~Owned(d)
        BY <1>a, <2>5, <3>1, <4>1 DEF Owned, ConnBegin, BeforeEvent
      <4>3. pipes' = pipes
        BY <2>5 DEF ConnBegin
      <4> QED BY <1>d, <2>3, <2>4, <4>1, <4>2, <4>3 DEF InvHeld
    <3>2. CASE pc'[t] = "conn_unlock"
      <4>1. UNCHANGED <<live, sockOpen, pipes>> /\ \A d \in Clients : ~Owned(d)
        BY <1>a, <1>b, <2>5, <3>2 DEF ConnBegin, Owned, BeforeEvent
      <4> QED BY <1>d, <2>3, <2>4, <4>1 DEF InvHeld
    <3> QED BY <2>1, <3>1, <3>2
  <2>6. CASE ConnStartFails(t)
    <3>1. /\ live' = live \ {hdl[t]} /\ sockOpen' = sockOpen \ {hdl[t]}
          /\ pipes' = pipes /\ hdl[t] \notin pipes
      BY <2>6 DEF ConnStartFails, CalmRun, SessionInv, InvRefs
    <3>2. \A d \in Clients : Owned(d) => d = hdl[t]
      BY <1>a DEF Owned
    <3> QED BY <1>d, <2>3, <2>4, <3>1, <3>2 DEF InvHeld
  <2> QED BY <1>1, <2>5, <2>6
<1>2. CASE ConnStarted(t)
  <2>0. PICK c \in Clients : c = hdl[t]
    BY <1>2, <1>b DEF ConnStarted
  <2>1. /\ pc[t] = "conn_sock" /\ pc'[t] = "conn_hdl" /\ hdl' = hdl
        /\ tpc' = [tpc EXCEPT ![c] = "start"] /\ pipes' = pipes \union {c}
        /\ UNCHANGED <<live, sockOpen>>
    BY <1>2, <1>b, <2>0 DEF ConnStarted
  <2>2. t1[c] = "none"
    BY <2>0, <2>1 DEF SessionInv, OwnershipInv, Ownership, InvBuild
  <2>3. Alive(c)' /\ \A d \in Clients \ {c} : Gone(d)' /\ ~Alive(d)'
    BY <1>b, <1>c, <1>d, <2>1 DEF Gone, Alive
  <2>4. UnderWay(t, c)'
    BY <1>c, <1>d, <2>1, <2>2, <2>3 DEF UnderWay, Gone, BeforeEvent
  <2>5. Steady(c)'
    BY <1>c, <1>d, <2>2 DEF Steady, InvClean
  <2>6. InvPhase' /\ InvWait'
    BY <1>a, <1>e, <2>0, <2>1, <2>3, <2>4, <2>5 DEF InvPhase, InvWait, BeforeEnd, Started,
       BeforeEvent, NoSessionPcs
  <2>7. InvClean' /\ InvCalm'
    BY <1>a, <1>b, <1>d, <2>1 DEF InvClean, InvCalm, SockReady, Alive
  <2>8. Owned(c)' /\ \A d \in Clients : Owned(d) => d = c
    BY <1>a, <2>0, <2>1 DEF Owned, BeforeEvent
  <2>9. InvHeld'
    BY <1>d, <2>1, <2>8 DEF InvHeld
  <2> QED BY <2>6, <2>7, <2>9
<1> QED BY <1>1, <1>2

LEMMA CalmBuild ==
    ASSUME CalmRun, TypeInv, CalmInv, NEW t \in Callers,
           ConnAttach(t) \/ ConnEvent(t) \/ ConnTcth1(t) \/ ConnTcth2(t) \/ SendWrite(t)
    PROVE  InvPhase' /\ InvWait' /\ InvHeld' /\ InvClean' /\ InvCalm'
<1> USE DEF CalmInv, Goto, Stay
<1>a. \A s \in Callers : s = t
  BY DEF CalmRun, SingleCaller
<1>b. /\ pc \in [Callers -> CallerPcs] /\ end \in {0, 1}
      /\ t1 \in [Clients -> Tcth1Pcs] /\ t2 \in [Clients -> Tcth2Pcs]
  BY DEF TypeInv, TypeOK, CtrlTypes, CallTypes, HelperTypes
<1>c. ~SendWrite(t)
  BY DEF SendWrite, InvCalm
<1>d. /\ UNCHANGED <<hdl, end, tpc, msg, rcv, conn, pipe>>
      /\ UNCHANGED <<live, sockOpen, pipes, evSet>>
  BY <1>c DEF ConnAttach, ConnEvent, ConnTcth1, ConnTcth2, ctrlVars, clientVars, eventVars,
     tcpcVars, peerVars
<1>e. PICK c \in Clients : c = hdl[t]
  BY <1>c DEF ConnAttach, ConnEvent, ConnTcth1, ConnTcth2, TypeInv, HandleOK, Building
<1>f. pc[t] \in {"conn_rx", "conn_ev", "conn_t1", "conn_t2"}
  BY <1>c DEF ConnAttach, ConnEvent, ConnTcth1, ConnTcth2
<1>g. UnderWay(t, c) /\ Steady(c) /\ end = 0 /\ \A d \in Clients \ {c} : Gone(d) /\ ~Alive(d)
  BY <1>b, <1>e, <1>f DEF InvPhase, InvWait, Started, BeforeEvent, UnderWay, Gone
<1>h. Steady(c)' /\ \A d \in Clients : Alive(d)' <=> Alive(d)
  BY <1>d, <1>g DEF Steady, Alive
<1>1. \A d \in Clients \ {c} : Gone(d)'
  <2>1. \A d \in Clients \ {c} : /\ t1'[d] = t1[d] /\ t2'[d] = t2[d]
                                 /\ d \in evLive' <=> d \in evLive
    BY <1>b, <1>c, <1>e DEF ConnAttach, ConnEvent, ConnTcth1, ConnTcth2, helperVars, eventVars
  <2> QED BY <1>g, <1>h, <2>1 DEF Gone
<1>2. \/ pc'[t] \in {"conn_ev", "conn_t1", "conn_t2"} /\ UnderWay(t, c)'
      \/ pc'[t] = "conn_unlock" /\ Up(c)'
  <2>1. CASE ConnAttach(t)
    <3>1. pc[t] = "conn_rx" /\ socketHdl = c /\ c \in live
      BY <1>e, <2>1 DEF ConnAttach, SessionInv, OwnershipInv, Ownership, InvBuild, BeforeEvent
    <3>2. pc'[t] = "conn_ev" /\ c \in rx' /\ UNCHANGED <<t1, t2, evLive, tcEvent>>
      BY <1>b, <2>1, <3>1 DEF ConnAttach, helperVars, eventVars
    <3> QED BY <1>d, <1>g, <1>h, <3>1, <3>2 DEF UnderWay, BeforeEvent
  <2>2. CASE ConnEvent(t)
    <3>1. pc[t] = "conn_ev" /\ c \notin evLive /\ evSet[c] = {}
      BY <1>e, <2>2 DEF ConnEvent, SessionInv, OwnershipInv, Ownership, InvBuild, BeforeEvent,
         InvEvent
    <3>2. /\ pc'[t] = "conn_t1" /\ tcEvent' = c /\ c \in evLive'
          /\ UNCHANGED <<t1, t2, rx>>
      BY <1>b, <1>e, <2>2 DEF ConnEvent, CalmRun, helperVars, clientVars
    <3> QED BY <1>d, <1>g, <1>h, <3>1, <3>2 DEF UnderWay, BeforeEvent, HasEvent
  <2>3. CASE ConnTcth1(t)
    <3>1. /\ pc[t] = "conn_t1" /\ pc'[t] = "conn_t2" /\ t1'[c] = "poll"
          /\ UNCHANGED <<t2, rx, evLive, tcEvent>>
      BY <1>b, <1>e, <2>3 DEF ConnTcth1, CalmRun, clientVars, eventVars
    <3> QED BY <1>d, <1>g, <1>h, <3>1 DEF UnderWay, BeforeEvent, HasEvent
  <2>4. CASE ConnTcth2(t)
    <3>1. /\ pc[t] = "conn_t2" /\ pc'[t] = "conn_unlock" /\ t2'[c] = "poll"
          /\ UNCHANGED <<t1, rx, evLive, tcEvent>>
      BY <1>b, <1>e, <2>4 DEF ConnTcth2, CalmRun, clientVars, eventVars
    <3> QED BY <1>d, <1>g, <1>h, <3>1 DEF UnderWay, BeforeEvent, HasEvent, Up
  <2> QED BY <1>c, <2>1, <2>2, <2>3, <2>4
<1>3. InvPhase' /\ InvWait'
  BY <1>a, <1>d, <1>e, <1>g, <1>h, <1>1, <1>2 DEF InvPhase, InvWait, BeforeEnd, Started,
     BeforeEvent, NoSessionPcs
<1>4. InvCalm'
  BY <1>a, <1>d, <1>2 DEF InvCalm
<1>5. InvClean'
  <2>1. \A d \in Clients \ {c} : t1'[d] = t1[d]
    BY <1>b, <1>c, <1>e DEF ConnAttach, ConnEvent, ConnTcth1, ConnTcth2, helperVars
  <2>2. Alive(c)
    BY <1>g DEF UnderWay
  <2> QED BY <1>d, <1>h, <2>1, <2>2 DEF InvClean, SockReady
<1>6. InvHeld'
  <2>1. \A d \in Clients \ {c} : t1'[d] = t1[d]
    BY <1>b, <1>c, <1>e DEF ConnAttach, ConnEvent, ConnTcth1, ConnTcth2, helperVars
  <2>2. \A d \in Clients : Owned(d) => d = c
    BY <1>a, <1>e DEF Owned
  <2>3. Owned(c)' \/ t1'[c] = "poll"
    BY <1>d, <1>e, <1>2 DEF Owned, BeforeEvent, UnderWay, Up
  <2> QED BY <1>d, <2>1, <2>2, <2>3 DEF InvHeld
<1> QED BY <1>3, <1>4, <1>5, <1>6

\* What a step of a thread or of the server may do to the sessions.
LEMMA CalmSettle ==
    ASSUME InvPhase, NEW t \in Callers, \A s \in Callers : s = t, UNCHANGED <<pc, hdl>>,
           \A c \in Clients :
              /\ Gone(c) => Gone(c)'
              /\ UnderWay(t, c) => UnderWay(t, c)'
              /\ Up(c) => Up(c)' \/ (Ending(c)' /\ pc[t] \in {"idle", "disc_wait"})
              /\ Ending(c) => Ending(c)' \/ Gone(c)'
              /\ tpc'[c] = "defunct" => tpc[c] = "defunct" \/ pc[t] \in {"idle", "disc_wait"}
              /\ Alive(c)' /\ pc[t] \notin {"idle", "disc_wait"} => Steady(c)'
    PROVE  InvPhase'
BY DEF InvPhase, BeforeEnd

\* A session with a tcpc is up or about to be, and the call that builds it
\* knows no other.
LEMMA CalmAlive ==
    ASSUME CalmRun, TypeInv, CalmInv, NEW t \in Callers, NEW c \in Clients,
           ~Gone(c)
    PROVE  \/ pc[t] \in Started /\ c = hdl[t] /\ UnderWay(t, c)
           \/ pc[t] \in BeforeEnd \union {"conn_unlock", "idle", "disc_wait"} /\ Up(c)
           \/ pc[t] \in {"idle", "disc_wait"} /\ Ending(c)
<1>1. pc[t] \in NoSessionPcs \union Started \union BeforeEnd
                 \union {"conn_unlock", "idle", "disc_wait"}
  BY DEF TypeInv, TypeOK, CallTypes, CalmInv, InvCalm, CallerPcs, NoSessionPcs, Started,
         BeforeEvent, BeforeEnd
<1> QED BY <1>1 DEF CalmInv, InvPhase

LEMMA CalmTcpc ==
    ASSUME CalmRun, TypeInv, CalmInv, NEW c \in Clients, TcpcStep(c)
    PROVE  InvPhase' /\ InvWait' /\ InvHeld' /\ InvClean' /\ InvCalm'
<1> USE DEF CalmInv, TcpcGoto
<1>t. PICK t \in Callers : \A s \in Callers : s = t
  BY DEF CalmRun, SingleCaller
<1>a. /\ UNCHANGED <<pc, hdl, end, live, sockOpen, rx, pipes>>
      /\ UNCHANGED <<tcEvent, evLive, conn, t1, t2>>
  BY DEF TcpcStep, ctrlVars, callVars, clientVars, helperVars
<1>b. /\ tpc \in [Clients -> TcpcPcs] /\ evSet \in [Clients -> SUBSET {"CLOSE", "EXIT"}]
      /\ msg \in [Clients -> PeerData \union {"none", "eof"}]
      /\ rcv \in [Clients -> PeerData \union {"none"}]
      /\ pipe \in [Clients -> Seq({"data", "exit"})] /\ end \in {0, 1}
  BY DEF TypeInv, TypeOK, TcpcTypes, EventTypes, PeerTypes, PipeTypes, CtrlTypes
<1>c. ~TcpcFault(c)
  BY DEF TcpcFault, TcpcStale, TcpcOwnsClient, Alive, SessionInv, OwnershipInv, Ownership
<1>d. pipe[c] = <<>> /\ ~PipeReady(c) /\ pipe[c] # <<"exit">>
  BY DEF InvCalm, PipeReady
<1>e. Alive(c) /\ ~Gone(c)
  BY <1>c DEF TcpcStep, TcpcStart, SelectEnds, SelectReady, Recv, RxCb, PipeRead, Alive, Gone
<1>f. \/ pc[t] \in Started /\ c = hdl[t] /\ UnderWay(t, c)
      \/ pc[t] \in BeforeEnd \union {"conn_unlock", "idle", "disc_wait"} /\ Up(c)
  BY <1>e, CalmAlive DEF Ending
<1>g. pc[t] \notin {"idle", "disc_wait"} => Steady(c)
  BY <1>e DEF InvPhase
<1>h. pipe' = pipe
  BY <1>b, <1>c, <1>d DEF TcpcStep, TcpcStart, SelectEnds, SelectReady, Recv, RxCb, PipeRead
<1>i. \A d \in Clients \ {c} : tpc'[d] = tpc[d] /\ msg'[d] = msg[d] /\ rcv'[d] = rcv[d]
  BY <1>b, <1>c DEF TcpcStep, TcpcStart, SelectEnds, SelectReady, Recv, RxCb, PipeRead
\* The session goes on, or its end is announced.
<1>1. \/ /\ Alive(c)' /\ tpc'[c] \notin {"assert", "fault"} /\ UNCHANGED evSet
         /\ tpc'[c] = "recv" => SockReady(c)'
         /\ pc[t] \in {"idle", "disc_wait"} \/ Steady(c)'
      \/ /\ pc[t] \in {"idle", "disc_wait"} /\ Up(c) /\ tpc'[c] = "defunct"
         /\ msg'[c] = "none" /\ evSet' = [evSet EXCEPT ![c] = {"CLOSE"}]
  <2>1. CASE TcpcStart(c) \/ SelectReady(c) \/ PipeRead(c)
    <3>1. /\ UNCHANGED <<evSet, rcv, msg>> /\ tpc'[c] \in {"select", "recv"}
          /\ tpc'[c] = "recv" => SockReady(c)
      BY <1>b, <1>d, <2>1 DEF TcpcStart, SelectReady, PipeRead, CalmRun
    <3> QED BY <1>a, <1>g, <3>1 DEF Alive, Steady, SockReady
  <2>2. CASE SelectEnds(c)
    <3>1. end = 1 /\ tpc'[c] = "cb" /\ UNCHANGED evSet
      BY <1>b, <2>2 DEF SelectEnds, CalmRun
    <3> QED BY <1>t, <3>1 DEF InvWait, Alive
  <2>3. CASE Recv(c)
    <3>1. /\ tpc'[c] = "cb" /\ UNCHANGED evSet /\ SockReady(c)
          /\ msg'[c] = IF rcv[c] = "none" THEN "eof" ELSE rcv[c]
          /\ rcv'[c] = "none"
      BY <1>b, <2>3 DEF Recv, InvCalm, InvClean
    <3> QED BY <1>a, <1>g, <3>1 DEF Alive, Steady, SockReady
  <2>4. CASE RxCb(c) /\ msg[c] = "data"
    <3>1. tpc'[c] = "select" /\ UNCHANGED evSet /\ msg'[c] = "none" /\ rcv' = rcv
      BY <1>b, <1>d, <2>4 DEF RxCb, AfterCb
    <3> QED BY <1>a, <1>g, <3>1 DEF Alive, Steady
  <2>5. CASE RxCb(c) /\ msg[c] # "data"
    <3>1. msg[c] \in {"exit", "eof"}
      BY <1>b, <2>5 DEF SessionInv, OwnershipInv, Ownership, InvMsg, RxCb, PeerData
    <3>2. pc[t] \in {"idle", "disc_wait"} /\ Up(c)
      BY <1>f, <1>g, <3>1 DEF Steady, Started, BeforeEvent
    <3>3. c \in rx /\ EventOK /\ tcEvent = c /\ evSet[c] = {}
      BY <3>2 DEF Up, HasEvent, EventOK
    <3>4. /\ tpc'[c] = "defunct" /\ msg'[c] = "none"
          /\ evSet' = [evSet EXCEPT ![c] = @ \union {"CLOSE"}]
      BY <1>b, <2>5, <3>1, <3>3 DEF RxCb, AfterCb, CalmRun
    <3> QED BY <1>b, <3>2, <3>3, <3>4
  <2> QED BY <1>c, <2>1, <2>2, <2>3, <2>4, <2>5 DEF TcpcStep
<1>2. \A d \in Clients \ {c} : /\ Alive(d)' <=> Alive(d)
                               /\ evSet'[d] = evSet[d]
                               /\ Steady(d)' <=> Steady(d)
  BY <1>a, <1>b, <1>i, <1>1 DEF Alive, Steady
<1>3. \A d \in Clients \ {c} : /\ Gone(d)' <=> Gone(d)
                               /\ UnderWay(t, d)' <=> UnderWay(t, d)
                               /\ Up(d)' <=> Up(d)
                               /\ Ending(d)' <=> Ending(d)
  BY <1>a, <1>2 DEF Gone, UnderWay, Up, Ending, HasEvent
<1>4. ~Gone(c)' /\ ~Ending(c)
  BY <1>a, <1>e, <1>f, <1>1 DEF Gone, Up, UnderWay, Ending, Late, Alive
<1>5. UnderWay(t, c) => UnderWay(t, c)'
  <2>1. UnderWay(t, c) => pc[t] \notin {"idle", "disc_wait"}
    BY DEF UnderWay, BeforeEvent
  <2> QED BY <1>a, <1>1, <2>1 DEF UnderWay, HasEvent
<1>6. Up(c) => Up(c)' \/ (Ending(c)' /\ pc[t] \in {"idle", "disc_wait"})
  <2>1. CASE Alive(c)' /\ UNCHANGED evSet
    BY <1>a, <2>1 DEF Up, HasEvent
  <2>2. CASE /\ tpc'[c] = "defunct" /\ evSet' = [evSet EXCEPT ![c] = {"CLOSE"}]
             /\ pc[t] \in {"idle", "disc_wait"}
    BY <1>a, <1>b, <2>2 DEF Up, Ending, HasEvent, Alive
  <2> QED BY <1>1, <2>1, <2>2
<1>7. \A d \in Clients :
        /\ tpc'[d] = "defunct" => tpc[d] = "defunct" \/ pc[t] \in {"idle", "disc_wait"}
        /\ Alive(d)' /\ pc[t] \notin {"idle", "disc_wait"} => Steady(d)'
  <2>1. ASSUME NEW d \in Clients \ {c}
        PROVE  /\ tpc'[d] = "defunct" => tpc[d] = "defunct"
               /\ Alive(d)' /\ pc[t] \notin {"idle", "disc_wait"} => Steady(d)'
    BY <1>i, <1>2 DEF InvPhase
  <2> QED BY <1>1, <2>1 DEF Alive
<1>8. InvPhase'
  <2>1. \A d \in Clients :
              /\ Gone(d) => Gone(d)'
              /\ UnderWay(t, d) => UnderWay(t, d)'
              /\ Up(d) => Up(d)' \/ (Ending(d)' /\ pc[t] \in {"idle", "disc_wait"})
              /\ Ending(d) => Ending(d)' \/ Gone(d)'
    BY <1>e, <1>3, <1>4, <1>5, <1>6
  <2> QED BY <1>t, <1>a, <1>7, <2>1, CalmSettle
<1>9. InvWait'
  <2>1. \A d \in Clients : Gone(d)' <=> Gone(d)
    BY <1>e, <1>3, <1>4
  <2> QED BY <1>a, <2>1 DEF InvWait
<1>10. InvHeld'
  BY <1>a DEF InvHeld, Owned
<1>11. InvClean'
  <2>1. \A d \in Clients \ {c} : SockReady(d)' <=> SockReady(d)
    BY <1>a, <1>i DEF SockReady
  <2>2. /\ ~Alive(c)' => msg'[c] = "none" /\ t1'[c] = "poll"
        /\ tpc'[c] = "recv" => SockReady(c)'
    BY <1>a, <1>1 DEF Up
  <2> QED BY <1>a, <1>i, <1>2, <2>1, <2>2 DEF InvClean
<1>12. InvCalm'
  BY <1>a, <1>h, <1>i, <1>1 DEF InvCalm
<1> QED BY <1>8, <1>9, <1>10, <1>11, <1>12

LEMMA CalmTcth1 ==
    ASSUME CalmRun, TypeInv, CalmInv, NEW c \in Clients, Tcth1Step(c)
    PROVE  InvPhase' /\ InvWait' /\ InvHeld' /\ InvClean' /\ InvCalm'
<1> USE DEF CalmInv
<1>t. PICK t \in Callers : \A s \in Callers : s = t
  BY DEF CalmRun, SingleCaller
<1>a. UNCHANGED <<pc, hdl, end, tcEvent, evLive, tpc, msg, t2>>
  BY DEF Tcth1Step, HelperRest, callVars, tcpcVars
<1>b. /\ t1 \in [Clients -> Tcth1Pcs] /\ arg1 \in [Clients -> Handles]
      /\ evSet \in [Clients -> SUBSET {"CLOSE", "EXIT"}] /\ Null \notin Clients
      /\ rcv \in [Clients -> PeerData \union {"none"}]
      /\ conn \in [Clients -> {"up", "fin", "reset"}]
      /\ pipe \in [Clients -> Seq({"data", "exit"})]
  BY ConstantsOK DEF TypeInv, TypeOK, HelperTypes, EventTypes, PeerTypes, PipeTypes
<1>c. \A d \in Clients : Alive(d)' <=> Alive(d)
  BY <1>a DEF Alive
<1>d. t1[c] \in {"poll", "send", "close", "free"}
  BY DEF Tcth1Step, Tcth1Poll, Tcth1Send, Tcth1Close, Tcth1Free
<1>e. /\ arg1[c] = c /\ c \in live /\ ~Owned(c)
      /\ t1[c] = "close" => c \in sockOpen
      /\ t1[c] \in {"close", "free"} => ~Alive(c)
  BY <1>d DEF SessionInv, OwnershipInv, Ownership, InvOwner, InvBuild, Owned, BeforeEvent
<1>f. \A d \in Clients \ {c} : t1'[d] = t1[d]
  BY <1>b DEF Tcth1Step, Tcth1Poll, Tcth1Send, Tcth1Close, Tcth1Free
<1>g. \A d \in Clients : Owned(d)' <=> Owned(d)
  BY <1>a DEF Owned
<1>1. CASE Tcth1Poll(c) \/ Tcth1Send(c)
  <2>a. UNCHANGED <<live, sockOpen, rx, pipes, pipe, rcv, conn>>
    BY <1>1 DEF Tcth1Poll, Tcth1Send, clientVars, peerVars
  <2>1. t1[c] \in {"poll", "send"} /\ ~Gone(c)
    BY <1>1 DEF Tcth1Poll, Tcth1Send, Gone, Late
  <2>2. Ending(c) /\ pc[t] \in {"idle", "disc_wait"}
    <3>1. ASSUME HasEvent(c), evSet[c] = {}, t1[c] = "poll" PROVE FALSE
      BY <1>1, <3>1 DEF Tcth1Poll, Tcth1Send, HasEvent, EventOK
    <3>2. ~Up(c) /\ ~UnderWay(t, c)
      BY <2>1, <3>1 DEF Up, UnderWay
    <3> QED BY <2>1, <3>2, CalmAlive
  <2>3. Ending(c)' /\ t1'[c] \in {"send", "close"} /\ tcEvent = c
        /\ \A d \in Clients \ {c} : evSet'[d] = evSet[d]
    <3>1. tcEvent = c /\ ~Alive(c)' /\ t2[c] = "poll" /\ c \in evLive /\ EventOK
      BY <1>c, <2>1, <2>2 DEF Ending, Late, EventOK
    <3>2. CASE Tcth1Poll(c)
      <4>1. t1[c] = "poll" /\ evSet[c] = {"CLOSE"}
        BY <2>2, <3>2 DEF Ending, Tcth1Poll, Late
      <4>2. t1'[c] = "send" /\ evSet' = [evSet EXCEPT ![c] = @ \ {"CLOSE"}]
        BY <1>b, <3>1, <3>2 DEF Tcth1Poll
      <4>3. evSet'[c] = {}
        BY <1>b, <4>1, <4>2
      <4> QED BY <1>a, <1>b, <3>1, <4>2, <4>3 DEF Ending
    <3>3. CASE Tcth1Send(c)
      <4>1. t1[c] = "send" /\ evSet[c] = {}
        BY <2>2, <3>3 DEF Ending, Tcth1Send, Late
      <4>2. t1'[c] = "close" /\ evSet' = [evSet EXCEPT ![c] = @ \union {"EXIT"}]
        BY <1>b, <1>e, <3>1, <3>3 DEF Tcth1Send
      <4>3. evSet'[c] = {"EXIT"}
        BY <1>b, <4>1, <4>2
      <4> QED BY <1>a, <1>b, <3>1, <4>2, <4>3 DEF Ending, Late
    <3> QED BY <1>1, <3>2, <3>3
  <2>4. \A d \in Clients : /\ Gone(d)' <=> Gone(d)
                           /\ ~UnderWay(t, d)
    <3>1. \A d \in Clients : ~UnderWay(t, d)
      BY <2>2 DEF UnderWay, BeforeEvent
    <3>2. \A d \in Clients \ {c} : Gone(d)' <=> Gone(d)
      BY <1>a, <1>c, <1>f DEF Gone
    <3>3. ~Gone(c)'
      BY <1>a, <2>1, <2>2 DEF Gone, Ending, Late
    <3> QED BY <2>1, <3>1, <3>2, <3>3
  <2>5. \A d \in Clients : (Up(d) => d # c) /\ (Up(d) \/ Ending(d) => d = c)
    BY <2>2, <2>3 DEF Up, Ending, HasEvent
  <2>6. InvPhase'
    <3>1. \A d \in Clients :
             /\ tpc'[d] = "defunct" => tpc[d] = "defunct"
             /\ Alive(d)' /\ pc[t] \notin {"idle", "disc_wait"} => Steady(d)'
      BY <1>a, <2>2
    <3> QED BY <1>t, <1>a, <2>3, <2>4, <2>5, <3>1, CalmSettle
  <2>7. InvWait'
    BY <1>a, <2>4 DEF InvWait
  <2>8. InvHeld'
    BY <1>f, <1>g, <2>a, <2>1, <2>3 DEF InvHeld
  <2>9. InvClean' /\ InvCalm'
    BY <1>a, <1>c, <1>f, <2>a, <2>3 DEF InvClean, InvCalm, SockReady
  <2> QED BY <2>6, <2>7, <2>8, <2>9
<1>2. CASE Tcth1Close(c) \/ Tcth1Free(c)
  <2>1. /\ ~Alive(c) /\ t1[c] \in {"close", "free"} /\ UNCHANGED evSet
        /\ t1'[c] \in {"none", "free"}
    BY <1>2, <1>b, <1>e DEF Tcth1Close, Tcth1Free
  <2>2. \A d \in Clients \ {c} : /\ rcv'[d] = rcv[d] /\ conn'[d] = conn[d]
                                 /\ pipe'[d] = pipe[d]
                                 /\ d \in live' <=> d \in live
                                 /\ d \in sockOpen' <=> d \in sockOpen
                                 /\ d \in pipes' <=> d \in pipes
                                 /\ d \in rx' <=> d \in rx
    BY <1>2, <1>b, <1>e DEF Tcth1Close, Tcth1Free, peerVars
  <2>3. \A d \in Clients \ {c} : /\ Gone(d)' <=> Gone(d)
                                 /\ UnderWay(t, d)' <=> UnderWay(t, d)
                                 /\ Up(d)' <=> Up(d)
                                 /\ Ending(d)' <=> Ending(d)
                                 /\ Steady(d)' <=> Steady(d)
    BY <1>a, <1>c, <1>f, <2>1, <2>2 DEF Gone, UnderWay, Up, Ending, HasEvent, Steady
  <2>4. /\ Gone(c)' <=> Gone(c)
        /\ Ending(c)' <=> Ending(c)
        /\ ~Up(c) /\ ~UnderWay(t, c)
    BY <1>a, <1>c, <2>1 DEF Gone, Ending, Late, Up, UnderWay
  <2>5. InvPhase'
    <3>1. ASSUME NEW d \in Clients
          PROVE  /\ tpc'[d] = "defunct" => tpc[d] = "defunct"
                 /\ Alive(d)' /\ pc[t] \notin {"idle", "disc_wait"} => Steady(d)'
      BY <1>a, <1>c, <2>1, <2>3 DEF InvPhase
    <3>2. \A d \in Clients : /\ Gone(d) => Gone(d)'
                             /\ UnderWay(t, d) => UnderWay(t, d)'
                             /\ Up(d) => Up(d)'
                             /\ Ending(d) => Ending(d)'
      BY <2>3, <2>4
    <3> QED BY <1>t, <1>a, <3>1, <3>2, CalmSettle
  <2>6. InvWait'
    <3>1. \A d \in Clients : Gone(d)' <=> Gone(d)
      BY <2>3, <2>4
    <3> QED BY <1>a, <3>1 DEF InvWait
  <2>7. InvHeld'
    <3>1. c \notin sockOpen' /\ (t1'[c] = "none" => c \notin live' \union pipes')
      <4>1. CASE Tcth1Close(c)
        BY <1>b, <1>e, <4>1 DEF Tcth1Close
      <4>2. CASE Tcth1Free(c)
        BY <1>e, <4>2 DEF Tcth1Free, InvHeld
      <4> QED BY <1>2, <4>1, <4>2
    <3> QED BY <1>f, <1>g, <2>2, <3>1 DEF InvHeld
  <2>8. InvClean'
    <3>1. rcv'[c] = "none" /\ conn'[c] = "up"
      <4>1. CASE Tcth1Close(c)
        BY <1>b, <1>e, <4>1 DEF Tcth1Close
      <4>2. CASE Tcth1Free(c)
        BY <2>1, <4>2 DEF Tcth1Free, InvClean, peerVars
      <4> QED BY <1>2, <4>1, <4>2
    <3>2. tpc'[c] # "recv" /\ msg'[c] = "none"
      BY <1>a, <2>1 DEF Alive, InvClean
    <3>3. \A d \in Clients \ {c} : SockReady(d)' <=> SockReady(d)
      BY <2>2 DEF SockReady
    <3> QED BY <1>a, <1>c, <1>f, <2>2, <3>1, <3>2, <3>3 DEF InvClean
  <2>9. InvCalm'
    <3>1. pipe'[c] = <<>> /\ conn'[c] # "reset"
      BY <1>2, <1>b, <1>e DEF Tcth1Close, Tcth1Free, InvCalm, peerVars
    <3> QED BY <1>a, <2>2, <3>1 DEF InvCalm
  <2> QED BY <2>5, <2>6, <2>7, <2>8, <2>9
<1> QED BY <1>1, <1>2 DEF Tcth1Step

LEMMA CalmTcth2 ==
    ASSUME CalmRun, TypeInv, CalmInv, NEW c \in Clients, Tcth2Step(c)
    PROVE  InvPhase' /\ InvWait' /\ InvHeld' /\ InvClean' /\ InvCalm'
<1> USE DEF CalmInv
<1>t. PICK t \in Callers : \A s \in Callers : s = t
  BY DEF CalmRun, SingleCaller
<1>a. /\ UNCHANGED <<pc, hdl, tcEvent, tpc, msg, live, sockOpen, rx, pipes>>
      /\ UNCHANGED <<pipe, rcv, conn, t1>>
  BY DEF Tcth2Step, HelperRest, callVars, tcpcVars, clientVars, peerVars
<1>b. /\ t2 \in [Clients -> Tcth2Pcs] /\ evSet \in [Clients -> SUBSET {"CLOSE", "EXIT"}]
  BY DEF TypeInv, TypeOK, HelperTypes, EventTypes
<1>c. \A d \in Clients : Alive(d)' <=> Alive(d)
  BY <1>a DEF Alive
<1>d. t2[c] \in {"poll", "delete", "endclr"} /\ ~Gone(c)
  BY DEF Tcth2Step, Tcth2Poll, Tcth2Delete, Tcth2End, Gone
\* tcth2 has the session's end to itself: it takes EXIT, which tcth1 posted.
<1>e. Ending(c) /\ pc[t] \in {"idle", "disc_wait"}
  <2>1. ~UnderWay(t, c)
    BY <1>d DEF UnderWay
  <2>2. ~Up(c)
    BY DEF Up, HasEvent, EventOK, Tcth2Step, Tcth2Poll, Tcth2Delete, Tcth2End
  <2> QED BY <1>d, <2>1, <2>2, CalmAlive
<1>f. /\ tcEvent = c /\ ~Alive(c)
      /\ \A d \in Clients \ {c} : Gone(d) /\ t2'[d] = t2[d] /\ (d \in evLive' <=> d \in evLive)
  <2>1. tcEvent = c /\ ~Alive(c)
    BY <1>e DEF Ending
  <2>2. \A d \in Clients \ {c} : ~UnderWay(t, d) /\ ~Up(d) /\ ~Ending(d)
    BY <1>e, <2>1 DEF UnderWay, BeforeEvent, Up, HasEvent, Ending
  <2>3. \A d \in Clients \ {c} : Gone(d)
    BY <2>2, CalmAlive
  <2> QED BY <1>b, <2>1, <2>3 DEF Tcth2Step, Tcth2Poll, Tcth2Delete, Tcth2End
<1>g. \A d \in Clients \ {c} : Gone(d)' /\ ~Up(d) /\ ~Ending(d)
  BY <1>a, <1>c, <1>f DEF Gone, Up, HasEvent, Ending
<1>1. (Ending(c)' /\ t2'[c] # "none" /\ end' = end) \/ (Gone(c)' /\ end' = 0)
  <2>1. CASE Tcth2Poll(c)
    <3>1. c \in evLive /\ EventOK
      BY <1>e, <2>1 DEF Ending, Tcth2Poll, EventOK
    <3>2. evSet[c] = {"EXIT"} /\ t1[c] \in Late
      BY <1>e, <2>1, <3>1 DEF Ending, Tcth2Poll
    <3>3. /\ t2'[c] = "delete" /\ evSet' = [evSet EXCEPT ![c] = @ \ {"EXIT"}]
          /\ UNCHANGED <<end, evLive>>
      BY <1>b, <1>f, <2>1, <3>1 DEF Tcth2Poll
    <3>4. evSet'[c] = {}
      BY <1>b, <3>2, <3>3
    <3> QED BY <1>a, <1>c, <1>f, <3>1, <3>2, <3>3, <3>4 DEF Ending
  <2>2. CASE Tcth2Delete(c)
    <3>1. c \in evLive /\ t1[c] \in Late /\ EventOK
      BY <1>e, <2>2 DEF Ending, Tcth2Delete, EventOK
    <3>2. t2'[c] = "endclr" /\ c \notin evLive' /\ UNCHANGED end
      BY <1>b, <1>f, <2>2, <3>1 DEF Tcth2Delete
    <3> QED BY <1>a, <1>c, <1>f, <3>1, <3>2 DEF Ending
  <2>3. CASE Tcth2End(c)
    <3>1. c \notin evLive /\ t1[c] \in Late
      BY <1>e, <2>3 DEF Ending, Tcth2End
    <3>2. t2'[c] = "none" /\ end' = 0 /\ UNCHANGED evLive
      BY <1>b, <2>3 DEF Tcth2End
    <3> QED BY <1>a, <1>c, <1>f, <3>1, <3>2 DEF Gone
  <2> QED BY <2>1, <2>2, <2>3 DEF Tcth2Step
<1>2. InvPhase'
  <2>1. \A d \in Clients : /\ tpc'[d] = "defunct" => tpc[d] = "defunct"
                           /\ ~UnderWay(t, d)
    BY <1>a, <1>e DEF UnderWay, BeforeEvent
  <2>2. ~Up(c)
    BY <1>f DEF Up
  <2> QED BY <1>t, <1>a, <1>d, <1>e, <1>g, <1>1, <2>1, <2>2, CalmSettle
<1>3. InvWait'
  <2>1. Ending(c)' /\ t2'[c] # "none" => ~Gone(c)'
    BY DEF Gone
  <2>2. \A s \in Callers : /\ pc'[s] = pc[s] /\ pc[s] # "disc_end"
                           /\ pc[s] = "disc_wait" /\ end = 0 => FALSE
                           /\ end = 1 => pc[s] = "disc_wait"
    BY <1>t, <1>a, <1>d, <1>e DEF InvWait
  <2>3. ASSUME Ending(c)', t2'[c] # "none", end' = end PROVE InvWait'
    BY <2>1, <2>2, <2>3 DEF InvWait
  <2>4. ASSUME Gone(c)', end' = 0 PROVE InvWait'
    BY <1>g, <2>2, <2>4 DEF InvWait
  <2> QED BY <1>1, <2>3, <2>4
<1>4. InvHeld' /\ InvClean' /\ InvCalm'
  BY <1>a, <1>c DEF InvHeld, Owned, InvClean, InvCalm, SockReady
<1> QED BY <1>2, <1>3, <1>4

LEMMA CalmRest ==
    ASSUME CalmRun, TypeInv, CalmInv, NEW c \in Clients,
           IdleReap(c) \/ PeerSend(c) \/ PeerEnd(c)
    PROVE  InvPhase' /\ InvWait' /\ InvHeld' /\ InvClean' /\ InvCalm'
<1> USE DEF CalmInv
<1>t. PICK t \in Callers : \A s \in Callers : s = t
  BY DEF CalmRun, SingleCaller
<1>a. /\ UNCHANGED <<pc, hdl, end, live, sockOpen, rx, pipes, pipe>>
      /\ UNCHANGED <<tcEvent, evLive, evSet, msg, t1, t2>>
  BY DEF IdleReap, PeerSend, PeerEnd, ctrlVars, callVars, clientVars, eventVars, tcpcVars,
         helperVars
<1>b. /\ tpc \in [Clients -> TcpcPcs] /\ rcv \in [Clients -> PeerData \union {"none"}]
      /\ conn \in [Clients -> {"up", "fin", "reset"}]
  BY DEF TypeInv, TypeOK, TcpcTypes, PeerTypes
<1>c. \A d \in Clients : /\ tpc'[d] = tpc[d] \/ (tpc[d] = "defunct" /\ tpc'[d] = "none")
                         /\ Alive(d)' <=> Alive(d)
  BY <1>b DEF IdleReap, PeerSend, PeerEnd, TcpcGoto, tcpcVars, Alive
<1>d. \A d \in Clients \ {c} : rcv'[d] = rcv[d] /\ conn'[d] = conn[d]
  BY <1>b DEF IdleReap, PeerSend, PeerEnd, peerVars
<1>1. \A d \in Clients : /\ Gone(d)' <=> Gone(d)
                         /\ UnderWay(t, d)' <=> UnderWay(t, d)
                         /\ Up(d)' <=> Up(d)
                         /\ Ending(d)' <=> Ending(d)
  BY <1>a, <1>c DEF Gone, UnderWay, Up, Ending, HasEvent
\* Only data arrives during a call; the server ends the session between calls.
<1>2. /\ conn'[c] # "reset"
      /\ Alive(c) \/ (rcv'[c] = rcv[c] /\ conn'[c] = conn[c])
      /\ SockReady(c) => SockReady(c)'
      /\ pc[t] # "idle" /\ Steady(c) => Steady(c)'
  <2>1. CASE IdleReap(c)
    BY <1>a, <2>1 DEF IdleReap, peerVars, InvCalm, SockReady, Steady
  <2>2. CASE PeerSend(c)
    <3>1. conn' = conn /\ Alive(c) /\ rcv'[c] \in PeerData
      BY <1>b, <2>2 DEF PeerSend, PeerData
    <3>2. pc[t] # "idle" => rcv'[c] = "data"
      BY <1>b, <2>2 DEF PeerSend, MayEnd, NoCall, CalmRun
    <3> QED BY <1>a, <3>1, <3>2 DEF InvCalm, SockReady, Steady, PeerData
  <2>3. CASE PeerEnd(c)
    <3>1. rcv' = rcv /\ conn'[c] = "fin" /\ Alive(c) /\ pc[t] = "idle"
      BY <1>b, <2>3 DEF PeerEnd, MayEnd, NoCall, CalmRun
    <3> QED BY <3>1 DEF SockReady
  <2> QED BY <2>1, <2>2, <2>3
<1>3. InvPhase'
  <2>1. \A d \in Clients \ {c} : Steady(d)' <=> Steady(d)
    BY <1>a, <1>d DEF Steady
  <2>2. ASSUME NEW d \in Clients
        PROVE  /\ tpc'[d] = "defunct" => tpc[d] = "defunct"
               /\ Alive(d)' /\ pc[t] \notin {"idle", "disc_wait"} => Steady(d)'
    BY <1>c, <1>2, <2>1 DEF InvPhase
  <2> QED BY <1>t, <1>a, <1>1, <2>2, CalmSettle
<1>4. InvWait'
  BY <1>a, <1>1 DEF InvWait
<1>5. InvHeld'
  BY <1>a DEF InvHeld, Owned
<1>6. InvClean'
  <2>1. \A d \in Clients : SockReady(d) => SockReady(d)'
    BY <1>d, <1>2 DEF SockReady
  <2> QED BY <1>a, <1>c, <1>d, <1>2, <2>1 DEF InvClean
<1>7. InvCalm'
  BY <1>a, <1>c, <1>d, <1>2 DEF InvCalm
<1> QED BY <1>3, <1>4, <1>5, <1>6, <1>7

LEMMA CalmNext ==
    ASSUME CalmRun, TypeInv, CalmInv, [Next]_vars
    PROVE  InvPhase' /\ InvWait' /\ InvHeld' /\ InvClean' /\ InvCalm'
<1>1. CASE UNCHANGED vars
  <2>1. UNCHANGED sessVars /\ UNCHANGED <<pc, hdl, end>>
    BY <1>1 DEF vars, callVars, ctrlVars
  <2>2. UNCHANGED <<tpc, t1, t2, live, sockOpen, pipes, pipe, conn, evLive, evSet, tcEvent, rx>>
    BY <2>1 DEF sessVars, clientVars, eventVars, peerVars, tcpcVars, helperVars
  <2>3. \A t \in Callers, c \in Clients : UnderWay(t, c)' <=> UnderWay(t, c)
    BY <2>1, <2>2, CalmFrame DEF UnderWay, HasEvent
  <2>4. InvPhase' /\ InvWait'
    BY <2>1, <2>2, <2>3, CalmFrame DEF CalmInv, InvPhase, InvWait
  <2>5. InvHeld' /\ InvCalm'
    BY <2>1, <2>2 DEF CalmInv, InvHeld, Owned, InvCalm
  <2> QED BY <2>1, <2>4, <2>5, CalmFrameClean DEF CalmInv
<1>2. CASE \E t \in Callers : Call(t) \/ Monitor(t) \/ InCall(t)
  BY <1>2, CalmCall, CalmCtrl, CalmBegin, CalmBuild DEF InCall
<1>3. CASE \E c \in Clients : \/ TcpcStep(c) \/ Tcth1Step(c) \/ Tcth2Step(c)
                             \/ IdleReap(c) \/ PeerSend(c) \/ PeerEnd(c)
  BY <1>3, CalmTcpc, CalmTcth1, CalmTcth2, CalmRest
<1> QED BY <1>1, <1>2, <1>3 DEF Next

LEMMA CalmInvariant ==
    ASSUME CalmRun
    PROVE  Spec => [](TypeInv /\ CalmInv)
<1>0. SingleCaller /\ "disc" \notin PeerActs
  BY DEF CalmRun
<1>1. Init => TypeInv /\ CalmInv
  <2> SUFFICES ASSUME Init PROVE TypeInv /\ CalmInv
    OBVIOUS
  <2>1. InvRefs /\ InvParams
    BY DEF Init, InvRefs, InvParams, Alive
  <2>2. \A c \in Clients : ~Alive(c) /\ Gone(c)
    BY DEF Init, Alive, Gone, Late
  <2>3. InvPhase /\ InvWait
    BY <2>2 DEF Init, InvPhase, InvWait, BeforeEnd, Started, BeforeEvent
  <2>4. InvHeld /\ InvClean /\ InvCalm
    BY DEF Init, InvHeld, InvClean, InvCalm
  <2> QED BY <2>1, <2>3, <2>4, TypeInit, OwnInit
          DEF CalmInv, SessionInv, OwnershipInv, TypeInv
<1>2. TypeInv /\ CalmInv /\ [Next]_vars => TypeInv' /\ CalmInv'
  BY <1>0, TypeNext, OwnNext, SessNext, CalmNext DEF CalmInv, SessionInv, OwnershipInv, TypeInv
<1> QED BY <1>1, <1>2, PTL DEF Spec

\* In a calm run no RT_ASSERT of the controller fails and no freed client is
\* touched, for any number of clients and any order of the calls.
THEOREM NothingFails ==
    ASSUME CalmRun
    PROVE  Spec => []NoFault
<1>1. TypeInv /\ CalmInv => NoFault
  <2> SUFFICES ASSUME TypeInv, CalmInv PROVE NoFault
    OBVIOUS
  <2>1. \A c \in Clients : t1[c] # "assert" /\ t2[c] # "assert"
    <3>1. PICK t \in Callers : TRUE
      BY DEF CalmRun
    <3> QED BY <3>1, CalmAlive DEF Gone, Up, UnderWay, Ending, Late
  <2> QED BY <2>1 DEF NoFault, CalmInv, InvCalm
<1> QED BY <1>1, CalmInvariant, PTL

\* In a calm run nothing of a session is left once its threads are gone: no
\* socket, pipe device, event or client leaks, however many sessions there were.
THEOREM EverythingReleased ==
    ASSUME CalmRun
    PROVE  Spec => []AllReleased
<1>1. TypeInv /\ CalmInv => AllReleased
  <2> SUFFICES ASSUME TypeInv, CalmInv, NoCall,
                      \A c \in Clients : tpc[c] = "none" /\ t1[c] = "none" /\ t2[c] = "none"
               PROVE  live = {} /\ sockOpen = {} /\ pipes = {} /\ evLive = {}
    BY DEF AllReleased
  <2>1. PICK t \in Callers : pc[t] = "idle"
    BY DEF CalmRun, NoCall
  <2>2. \A c \in Clients : c \notin evLive
    BY <2>1, CalmAlive DEF Gone, Up, UnderWay, BeforeEvent, Ending
  <2>3. \A c \in Clients : c \notin sockOpen /\ c \notin live \union pipes
    BY DEF CalmInv, InvHeld, Owned, NoCall, BeforeEvent
  <2> QED BY <2>2, <2>3 DEF TypeInv, TypeOK, ClientTypes, EventTypes
<1> QED BY <1>1, CalmInvariant, PTL

\* In a calm run disconnect() never waits for a thread that is not there: as
\* long as the end flag is set some tcth2 is still to clear it.
THEOREM WaiterIsWoken ==
    ASSUME CalmRun
    PROVE  Spec => []WaitHasWaker
<1>1. TypeInv /\ CalmInv => WaitHasWaker
  <2> SUFFICES ASSUME TypeInv, CalmInv, NEW t \in Callers, pc[t] = "disc_wait", end = 1
               PROVE  \E c \in Clients : t2[c] # "none"
    BY DEF WaitHasWaker
  <2>1. PICK c \in Clients : ~Gone(c)
    BY DEF CalmInv, InvWait
  <2> QED BY <2>1, CalmAlive DEF Up, Ending, UnderWay, BeforeEvent
<1> QED BY <1>1, CalmInvariant, PTL
=============================================================================
