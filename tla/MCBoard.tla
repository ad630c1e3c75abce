------------------------------- MODULE MCBoard -------------------------------
(****************************************************************************)
(* Instances for TLC of the parts of the board that share no state: the     *)
(* parameter store, an encoder, the motors, the sampler, the receiver of    *)
(* the UART, the receiver of the Ethernet, and, from the kernel, the mutex  *)
(* and the pipe.  A behaviour is one of a single part, the one in focus;    *)
(* the others stay as they start.                                           *)
(****************************************************************************)
EXTENDS NetParam, Encoder, Motor, Sampler, SerialRx, EthRx, Mutex, Pipe

VARIABLE focus

boardVars == <<parVars, encVars, motVars, adsVars, rxVars, ethVars,
               mtxVars, pipeVars, focus>>

Parts == {"param", "encoder", "motor", "sampler", "serial", "eth",
          "mutex", "pipe"}

BoardInit ==
    /\ focus \in Parts
    /\ ParInit /\ EncInit /\ MotInit /\ AdsInit /\ RxInit /\ EthInit
    /\ MtxInit /\ PipeInit
    \* The choices of an initial state are made for the part in focus only.
    /\ focus # "param" => dev /\ ee = ZeroBlock
    /\ focus # "motor" => arr = 0
    /\ focus # "sampler" => adsDev

\* The part p is in focus; a step of it leaves the others alone.
On(p) == focus = p /\ UNCHANGED focus

BoardNext ==
    \/ /\ On("param") /\ ParNext
       /\ UNCHANGED <<encVars, motVars, adsVars, rxVars, ethVars, mtxVars,
                      pipeVars>>
    \/ /\ On("encoder") /\ EncNext
       /\ UNCHANGED <<parVars, motVars, adsVars, rxVars, ethVars, mtxVars,
                      pipeVars>>
    \/ /\ On("motor") /\ MotNext
       /\ UNCHANGED <<parVars, encVars, adsVars, rxVars, ethVars, mtxVars,
                      pipeVars>>
    \/ /\ On("sampler") /\ AdsNext
       /\ UNCHANGED <<parVars, encVars, motVars, rxVars, ethVars, mtxVars,
                      pipeVars>>
    \/ /\ On("serial") /\ RxNext
       /\ UNCHANGED <<parVars, encVars, motVars, adsVars, ethVars, mtxVars,
                      pipeVars>>
    \/ /\ On("eth") /\ EthNext
       /\ UNCHANGED <<parVars, encVars, motVars, adsVars, rxVars, mtxVars,
                      pipeVars>>
    \/ /\ On("mutex") /\ MtxNext
       /\ UNCHANGED <<parVars, encVars, motVars, adsVars, rxVars, ethVars, pipeVars>>
    \/ /\ On("pipe") /\ PipeNext
       /\ UNCHANGED <<parVars, encVars, motVars, adsVars, rxVars, ethVars, mtxVars>>

\* The fairness of the part in focus: AdsFair, RxFair, MtxFair, PipeFair.
BoardFair ==
    /\ WF_adsVars(focus = "sampler" /\ AdsNext)
    /\ WF_rxVars(focus = "serial" /\ RxRead)
    /\ WF_rxVars(focus = "serial" /\ RxTake)
    /\ WF_rxVars(focus = "serial" /\ RxReadEnd)
    /\ \A t \in Threads : WF_mtxVars(focus = "mutex" /\ TakeReturn(t))
    /\ WF_pipeVars(focus = "pipe" /\ RNext)
    /\ WF_pipeVars(focus = "pipe" /\ WStep)
    /\ WF_pipeVars(focus = "pipe" /\ HeapDone)
    /\ SF_pipeVars(focus = "pipe" /\ ReadTake)
    /\ SF_pipeVars(focus = "pipe" /\ WriteTake)
    /\ SF_pipeVars(focus = "pipe" /\ CloseRead)

BoardSpec == BoardInit /\ [][BoardNext]_boardVars /\ BoardFair

\* The types of the parts that interrupts or other threads reach: no mailbox,
\* count, index or state of a thread leaves its range, whatever part runs.
BoardTypeOK ==
    EncTypeOK /\ AdsTypeOK /\ RxTypeOK /\ EthTypeOK /\ MtxTypeOK /\ PipeTypeOK

\* Failing transfers do not keep the task taski2c1 on a channel.
SamplerMoves == focus = "sampler" => AdsEveryChannel

\* Speeds and test_pwm arguments in nanoseconds.
SpeedsTried == {0, 1, -17, 39, -1001, 364080, 364083, -3000001, 11000000}
PwmArgsTried == {<<0, 0>>, <<5000, 6000>>, <<1000000, 1>>}

\* The priorities of the firmware's threads that share buses.
Priorities == [t \in Threads |-> 23 - t]
=============================================================================
