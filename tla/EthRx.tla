-------------------------------- MODULE EthRx --------------------------------
(****************************************************************************)
(* Receiving Ethernet frames and following the link: the DMA fills a ring   *)
(* of descriptors, the interrupt posts a message to the thread erx, and erx *)
(* empties the ring and hands the frames to lwIP; the state of the PHY      *)
(* reaches the netif through the same mailbox.  The thread etx shares the   *)
(* lock of the HAL with erx.  A frame stored in the ring is represented by  *)
(* its number; one that finds no descriptor is lost in the MAC.             *)
(****************************************************************************)
EXTENDS Integers

CONSTANTS
    RxBufs,      \* ETH_RXBUFNB: 4 in the firmware
    ErxMbox,     \* RT_LWIP_ETHTHREAD_MBOX_SIZE: 32
    MaxFrames,   \* frames explored
    PhySpeeds    \* values of phy_speed explored; 0 is no link

ASSUME EthOK ==
    /\ RxBufs \in Nat \ {0} /\ ErxMbox \in Nat \ {0} /\ MaxFrames \in Nat
    /\ 0 \in PhySpeeds

Descs == 0..(RxBufs - 1)

VARIABLES
    ring,        \* per descriptor: the frame in it, 0 when the DMA owns it
    dmaAt,       \* the descriptor the DMA fills next
    cpuAt,       \* heth->RxDesc
    rbus,        \* DMASR.RBUS: no descriptor was free, reception is suspended
    ethR,        \* DMASR.R: a frame was received
    ethIsr,      \* TRUE: HAL_ETH_IRQHandler has posted and not cleared R yet
    ethLock,     \* heth->Lock
    erxMb,       \* messages in eth_rx_thread_mb
    erx,         \* where eth_rx_thread_entry stands
    erxDesc,     \* RxFrameInfos.FSRxDesc
    erxGot,      \* the frame copied into the pbuf p; 0: none
    erxLink,     \* status, read from link_status; FALSE when not in use
    etx,         \* where rt_stm32_eth_tx stands
    phy,         \* where phy_linkchange stands
    phySpeed,    \* phy_speed: 0 when the link is down
    linkChanged, linkStatus,     \* of struct eth_device
    netifUp,     \* NETIF_FLAG_LINK_UP
    ethStored, ethTaken,         \* the last frame stored, and taken by erx
    ethCut       \* the last pass of erx ended before it found the ring empty

ethVars == <<ring, dmaAt, cpuAt, rbus, ethR, ethIsr, ethLock, erxMb, erx,
             erxDesc, erxGot, erxLink, etx, phy, phySpeed, linkChanged,
             linkStatus, netifUp, ethStored, ethTaken, ethCut>>

dmaVars == <<ring, dmaAt, rbus, ethR, ethStored>>
linkVars == <<linkChanged, linkStatus, netifUp>>

EthTypeOK ==
    /\ ring \in [Descs -> 0..MaxFrames]
    /\ dmaAt \in Descs /\ cpuAt \in Descs /\ erxDesc \in Descs
    /\ rbus \in BOOLEAN /\ ethR \in BOOLEAN /\ ethIsr \in BOOLEAN
    /\ ethLock \in BOOLEAN /\ erxLink \in BOOLEAN /\ ethCut \in BOOLEAN
    /\ linkChanged \in BOOLEAN /\ linkStatus \in BOOLEAN /\ netifUp \in BOOLEAN
    /\ erxMb \in 0..ErxMbox
    /\ erx \in {"recv", "link", "set", "get", "scan", "copy", "release",
                "resume", "input"}
    /\ erxGot \in 0..MaxFrames
    /\ etx \in {"idle", "lock", "hold"}
    /\ phy \in {"start", "first", "idle", "timer"}
    /\ phySpeed \in PhySpeeds
    /\ ethStored \in 0..MaxFrames /\ ethTaken \in 0..MaxFrames

\* After rt_stm32_eth_init, before phy_monitor_thread_entry has found the PHY.
EthInit ==
    /\ ring = [d \in Descs |-> 0] /\ dmaAt = 0 /\ cpuAt = 0
    /\ rbus = FALSE /\ ethR = FALSE /\ ethIsr = FALSE /\ ethLock = FALSE
    /\ erxMb = 0 /\ erx = "recv" /\ erxDesc = 0 /\ erxGot = 0
    /\ erxLink = FALSE
    /\ etx = "idle" /\ phy = "start" /\ phySpeed = 0
    /\ linkChanged = FALSE /\ linkStatus = FALSE /\ netifUp = FALSE
    /\ ethStored = 0 /\ ethTaken = 0 /\ ethCut = FALSE

\* Buffer2NextDescAddr: the descriptors are chained into a ring.
NextDesc(d) == IF d = RxBufs - 1 THEN 0 ELSE d + 1

\* The DMA, external: it stores a frame and looks at the next descriptor.  It
\* does not go on while it is suspended.
DmaStores ==
    /\ ethStored < MaxFrames /\ ~rbus /\ ring[dmaAt] = 0
    /\ ethStored' = ethStored + 1
    /\ ring' = [ring EXCEPT ![dmaAt] = ethStored']
    /\ dmaAt' = NextDesc(dmaAt)
    /\ rbus' = (ring'[dmaAt'] # 0)
    /\ ethR' = TRUE
    /\ UNCHANGED <<cpuAt, ethIsr, ethLock, erxMb, erx, erxDesc, erxGot,
                   erxLink, etx, phy, phySpeed, ethTaken, ethCut>>
    /\ UNCHANGED linkVars

\* Mutant: a full mailbox is not noticed.
Posted_Over == erxMb + 1

\* rt_mb_send with a full mailbox fails, and nobody looks at the result.
Posted == IF erxMb = ErxMbox THEN erxMb ELSE erxMb + 1

\* HAL_ETH_IRQHandler calls HAL_ETH_RxCpltCallback, which posts, ...
EthIrq ==
    /\ ethR /\ ~ethIsr
    /\ erxMb' = Posted
    /\ ethIsr' = TRUE
    /\ UNCHANGED <<cpuAt, ethLock, erx, erxDesc, erxGot, erxLink, etx, phy,
                   phySpeed, ethTaken, ethCut, dmaVars, linkVars>>

\* ... and then clears R and, whoever holds it, the lock.
EthIrqEnd ==
    /\ ethIsr
    /\ ethR' = FALSE /\ ethLock' = FALSE /\ ethIsr' = FALSE
    /\ UNCHANGED <<ring, dmaAt, rbus, ethStored, cpuAt, erxMb, erx, erxDesc,
                   erxGot, erxLink, etx, phy, phySpeed, ethTaken, ethCut>>
    /\ UNCHANGED linkVars

-----------------------------------------------------------------------------
(* phy_linkchange: called once by phy_monitor_thread_entry, then by the      *)
(* timer, whose interrupt lets no thread run but may be interrupted by ETH.  *)

PhySame ==
    /\ ~ethIsr /\ phy = "start"
    /\ phy' = "idle"
    /\ UNCHANGED <<cpuAt, ethIsr, ethLock, erxMb, erx, erxDesc, erxGot,
                   erxLink, etx, phySpeed, ethTaken, ethCut, dmaVars, linkVars>>

\* Mutant: a change that erx has not seen yet is not replaced.
PhyChange_Pending(speed) ==
    /\ ~ethIsr /\ phy \in {"start", "idle"}
    /\ speed # phySpeed
    /\ phySpeed' = speed
    /\ linkChanged' = TRUE
    /\ linkStatus' = IF linkChanged THEN linkStatus ELSE speed # 0
    /\ phy' = IF phy = "start" THEN "first" ELSE "timer"
    /\ UNCHANGED <<cpuAt, ethIsr, ethLock, erxMb, erx, erxDesc, erxGot,
                   erxLink, etx, netifUp, ethTaken, ethCut, dmaVars>>

\* Another state than the last one; eth_device_linkchange notes it, ...
PhyChange(speed) ==
    /\ ~ethIsr /\ phy \in {"start", "idle"}
    /\ speed # phySpeed
    /\ phySpeed' = speed
    /\ linkChanged' = TRUE /\ linkStatus' = (speed # 0)
    /\ phy' = IF phy = "start" THEN "first" ELSE "timer"
    /\ UNCHANGED <<cpuAt, ethIsr, ethLock, erxMb, erx, erxDesc, erxGot,
                   erxLink, etx, netifUp, ethTaken, ethCut, dmaVars>>

\* ... and posts.
PhyPost ==
    /\ ~ethIsr /\ phy \in {"first", "timer"}
    /\ erxMb' = Posted
    /\ phy' = "idle"
    /\ UNCHANGED <<cpuAt, ethIsr, ethLock, erx, erxDesc, erxGot, erxLink, etx,
                   phySpeed, ethTaken, ethCut, dmaVars, linkVars>>

-----------------------------------------------------------------------------
(* eth_rx_thread_entry and rt_stm32_eth_rx.                                  *)

ThreadsRun == ~ethIsr /\ phy # "timer"

\* erx goes from the step at to the step next.
Erx(at, next) ==
    /\ ThreadsRun /\ erx = at /\ erx' = next
    /\ UNCHANGED <<dmaAt, ethR, ethStored, ethIsr, etx, phy, phySpeed>>

ErxRecv ==
    /\ erxMb > 0 /\ Erx("recv", "link")
    /\ erxMb' = erxMb - 1
    /\ UNCHANGED <<ring, rbus, cpuAt, ethLock, erxDesc, erxGot, erxLink,
                   ethTaken, ethCut>>
    /\ UNCHANGED linkVars

ErxLink ==
    /\ linkChanged /\ Erx("link", "set")
    /\ erxLink' = linkStatus /\ linkChanged' = FALSE
    /\ UNCHANGED <<ring, rbus, cpuAt, ethLock, erxMb, erxDesc, erxGot,
                   linkStatus, netifUp, ethTaken, ethCut>>

ErxNoLink ==
    /\ ~linkChanged /\ Erx("link", "get")
    /\ UNCHANGED <<ring, rbus, cpuAt, ethLock, erxMb, erxDesc, erxGot, erxLink,
                   ethTaken, ethCut>>
    /\ UNCHANGED linkVars

\* netifapi_netif_set_link_up or _down.
ErxSet ==
    /\ Erx("set", "get")
    /\ netifUp' = erxLink /\ erxLink' = FALSE
    /\ UNCHANGED <<ring, rbus, cpuAt, ethLock, erxMb, erxDesc, erxGot,
                   linkChanged, linkStatus, ethTaken, ethCut>>

\* HAL_ETH_GetReceivedFrame_IT: HAL_BUSY when etx holds the lock ...
ErxBusy ==
    /\ ethLock /\ Erx("get", "recv")
    /\ ethCut' = TRUE
    /\ UNCHANGED <<ring, rbus, cpuAt, ethLock, erxMb, erxDesc, erxGot, erxLink,
                   ethTaken>>
    /\ UNCHANGED linkVars

ErxGet ==
    /\ ~ethLock /\ Erx("get", "scan")
    /\ ethLock' = TRUE
    /\ UNCHANGED <<ring, rbus, cpuAt, erxMb, erxDesc, erxGot, erxLink, ethTaken,
                   ethCut>>
    /\ UNCHANGED linkVars

\* Mutant: RxDesc is left at the descriptor whose frame has been taken.
ErxFound_Stay ==
    /\ ring[cpuAt] # 0 /\ Erx("scan", "copy")
    /\ erxDesc' = cpuAt /\ UNCHANGED cpuAt
    /\ ethTaken' = ring[cpuAt]
    /\ ethLock' = FALSE
    /\ UNCHANGED <<ring, rbus, erxMb, erxGot, erxLink, ethCut>>
    /\ UNCHANGED linkVars

\* ... a frame, which fits one descriptor, ...
ErxFound ==
    /\ ring[cpuAt] # 0 /\ Erx("scan", "copy")
    /\ erxDesc' = cpuAt /\ cpuAt' = NextDesc(cpuAt)
    /\ ethTaken' = ring[cpuAt]
    /\ ethLock' = FALSE
    /\ UNCHANGED <<ring, rbus, erxMb, erxGot, erxLink, ethCut>>
    /\ UNCHANGED linkVars

\* ... or none: eth_rx returns NULL and the pass ends.
ErxNone ==
    /\ ring[cpuAt] = 0 /\ Erx("scan", "recv")
    /\ ethLock' = FALSE /\ ethCut' = FALSE
    /\ UNCHANGED <<ring, rbus, cpuAt, erxMb, erxDesc, erxGot, erxLink, ethTaken>>
    /\ UNCHANGED linkVars

\* pbuf_alloc from the pool, which may be empty, and the copying.
ErxCopy ==
    /\ Erx("copy", "release")
    /\ erxGot' \in {0, ring[erxDesc]}
    /\ UNCHANGED <<ring, rbus, cpuAt, ethLock, erxMb, erxDesc, erxLink,
                   ethTaken, ethCut>>
    /\ UNCHANGED linkVars

\* Mutant: the descriptor released is RxDesc, which has moved on.
ErxRelease_Next ==
    /\ Erx("release", "resume")
    /\ ring' = [ring EXCEPT ![cpuAt] = 0]
    /\ UNCHANGED <<rbus, cpuAt, ethLock, erxMb, erxDesc, erxGot, erxLink,
                   ethTaken, ethCut>>
    /\ UNCHANGED linkVars

\* The descriptor goes back to the DMA.
ErxRelease ==
    /\ Erx("release", "resume")
    /\ ring' = [ring EXCEPT ![erxDesc] = 0]
    /\ UNCHANGED <<rbus, cpuAt, ethLock, erxMb, erxDesc, erxGot, erxLink,
                   ethTaken, ethCut>>
    /\ UNCHANGED linkVars

\* Mutant: the DMA is not resumed.
ErxResume_Not ==
    /\ Erx("resume", IF erxGot = 0 THEN "recv" ELSE "input")
    /\ ethCut' = (ethCut \/ erxGot = 0)
    /\ UNCHANGED <<ring, rbus, cpuAt, ethLock, erxMb, erxDesc, erxGot, erxLink,
                   ethTaken>>
    /\ UNCHANGED linkVars

\* The DMA is resumed; without a pbuf, eth_rx returns NULL and the pass ends.
ErxResume ==
    /\ Erx("resume", IF erxGot = 0 THEN "recv" ELSE "input")
    /\ rbus' = FALSE
    /\ ethCut' = (ethCut \/ erxGot = 0)
    /\ UNCHANGED <<ring, cpuAt, ethLock, erxMb, erxDesc, erxGot, erxLink,
                   ethTaken>>
    /\ UNCHANGED linkVars

\* netif->input, which takes the pbuf or leaves it to be freed.
ErxInput ==
    /\ Erx("input", "get") /\ erxGot' = 0
    /\ UNCHANGED <<ring, rbus, cpuAt, ethLock, erxMb, erxDesc, erxLink,
                   ethTaken, ethCut>>
    /\ UNCHANGED linkVars

ErxStep ==
    \/ ErxRecv \/ ErxLink \/ ErxNoLink \/ ErxSet \/ ErxBusy \/ ErxGet
    \/ ErxFound \/ ErxNone \/ ErxCopy \/ ErxRelease \/ ErxResume \/ ErxInput

-----------------------------------------------------------------------------
(* rt_stm32_eth_tx: of its work, what it does with the lock.                 *)

Etx(at, next) ==
    /\ ThreadsRun /\ etx = at /\ etx' = next
    /\ UNCHANGED <<cpuAt, ethIsr, erxMb, erx, erxDesc, erxGot, erxLink, phy,
                   phySpeed, ethTaken, ethCut, dmaVars, linkVars>>

\* "wait for unlocked"
EtxWaited == ~ethLock /\ Etx("idle", "lock") /\ UNCHANGED ethLock

\* HAL_ETH_TransmitFrame: HAL_BUSY if erx has locked since ...
EtxBusy == ethLock /\ Etx("lock", "idle") /\ UNCHANGED ethLock

EtxLock == ~ethLock /\ Etx("lock", "hold") /\ ethLock' = TRUE

EtxUnlock == Etx("hold", "idle") /\ ethLock' = FALSE

EthNext ==
    \/ DmaStores \/ EthIrq \/ EthIrqEnd
    \/ PhySame \/ (\E speed \in PhySpeeds : PhyChange(speed)) \/ PhyPost
    \/ ErxStep
    \/ EtxWaited \/ EtxBusy \/ EtxLock \/ EtxUnlock

EthSpec == EthInit /\ [][EthNext]_ethVars

-----------------------------------------------------------------------------
(* Properties.                                                               *)

\* Nothing is on its way to erx, which waits for a message.
ErxAsleep == erx = "recv" /\ erxMb = 0 /\ ~ethR /\ ~ethIsr

\* How far descriptor d lies after RxDesc.
FromCpu(d) == IF d >= cpuAt THEN d - cpuAt ELSE d - cpuAt + RxBufs

\* erx is working on the descriptor erxDesc.
ErxHolds == erx \in {"copy", "release"}

\* The frames from RxDesc on are the ones stored since the last one taken, in
\* order, and the DMA owns every other descriptor but the one being copied:
\* erx and the DMA never work on the same descriptor.
EthRing ==
    \A d \in Descs :
       ring[d] = IF ethTaken + FromCpu(d) < ethStored
                 THEN ethTaken + 1 + FromCpu(d)
                 ELSE IF ErxHolds /\ d = erxDesc THEN ethTaken ELSE 0

Frames == INSTANCE Stream WITH Cap <- RxBufs, Batch <- 1,
                               sent <- ethStored, taken <- ethTaken

\* The ring is a channel from the DMA to erx: what erx finds at RxDesc is always
\* the next frame, none is passed over or seen twice, and the DMA never stores
\* more frames than there are descriptors.
EthRefines == Frames!StreamSpec

\* "receive all of buffer": when erx sleeps, no received frame is left in the
\* ring and the DMA is not suspended, though several frames may share one
\* message and R is cleared after the message is posted; unless the last pass
\* was cut short by an empty pool or by HAL_BUSY.
EthNoStall ==
    ErxAsleep /\ ~ethCut => ~rbus /\ \A d \in Descs : ring[d] = 0

\* When erx sleeps the netif has the state the PHY was last seen in, even if
\* the change came while erx handled another one or found the mailbox full.
LinkReported ==
    erx = "recv" /\ erxMb = 0 /\ phy \in {"start", "idle"}
       => netifUp = (phySpeed # 0)
=============================================================================
