----------------------------- MODULE EthRxProofs -----------------------------
(****************************************************************************)
(* Proofs about EthRx for every number of descriptors and frames and every  *)
(* size of the mailbox: erx and the DMA never share a descriptor, reception *)
(* does not stall, and the netif learns the state of the link.              *)
(****************************************************************************)
EXTENDS EthRx, TLAPS

\* Frames stored and not yet taken by erx.
Pending == ethStored - ethTaken

\* The DMA is at the end of the pending frames, of which there are no more
\* than descriptors; the one erx works on is the one before RxDesc and holds
\* the frame taken last.
RingPlaces ==
    /\ ethTaken <= ethStored
    /\ Pending <= RxBufs
    /\ ErxHolds => /\ Pending <= RxBufs - 1
                   /\ ethTaken > 0
                   /\ cpuAt = NextDesc(erxDesc)
    /\ FromCpu(dmaAt) = IF Pending = RxBufs THEN 0 ELSE Pending

\* A suspended DMA has frames left for erx, or erx is about to resume it; and
\* when erx waits though frames are left, it has been told or will be.
ErxTold ==
    /\ rbus => Pending > 0 \/ erx \in {"copy", "release", "resume"}
    /\ ethIsr => erxMb > 0
    /\ erx = "recv" /\ ~ethCut /\ Pending > 0 => erxMb > 0 \/ ethR

\* A change of the link is on its way to erx, or in the netif.
LinkOnItsWay ==
    /\ linkStatus = (phySpeed # 0)
    /\ linkChanged => erxMb > 0 \/ phy \in {"first", "timer"} \/ erx = "link"
    /\ ~linkChanged => (IF erx = "set" THEN erxLink ELSE netifUp) = linkStatus

EthInv == EthTypeOK /\ RingPlaces /\ EthRing /\ ErxTold /\ LinkOnItsWay

-----------------------------------------------------------------------------
(* Types.                                                                    *)

LEMMA NextDescType == \A d \in Descs : NextDesc(d) \in Descs
  BY EthOK DEF Descs, NextDesc

LEMMA EthInitTypes == EthInit => EthTypeOK
  <1>1. 0 \in Descs /\ 0 \in 0..MaxFrames /\ 0 \in 0..ErxMbox
    BY EthOK DEF Descs
  <1> QED
    BY <1>1, EthOK DEF EthInit, EthTypeOK

LEMMA EthStepTypes == EthTypeOK /\ [EthNext]_ethVars => EthTypeOK'
  <1> SUFFICES ASSUME EthTypeOK, [EthNext]_ethVars PROVE EthTypeOK'
    OBVIOUS
  <1> USE EthOK, NextDescType DEF EthTypeOK, dmaVars, linkVars
  <1>1. CASE DmaStores
    <2>1. ring' \in [Descs -> 0..MaxFrames] /\ dmaAt' \in Descs /\ ethStored' \in 0..MaxFrames
      BY <1>1 DEF DmaStores
    <2>2. rbus' \in BOOLEAN
      BY <1>1, Zenon DEF DmaStores
    <2> QED
      BY <1>1, <2>1, <2>2 DEF DmaStores
  <1>2. CASE EthIrq
    BY <1>2 DEF EthIrq, Posted
  <1>3. CASE EthIrqEnd
    <2>1. ethR' \in BOOLEAN /\ ethLock' \in BOOLEAN /\ ethIsr' \in BOOLEAN
      BY <1>3, Zenon DEF EthIrqEnd
    <2> QED
      BY <1>3, <2>1 DEF EthIrqEnd
  <1>4. CASE PhySame
    BY <1>4 DEF PhySame
  <1>5. CASE PhyPost
    BY <1>5 DEF PhyPost, Posted
  <1>6. CASE ErxRecv
    BY <1>6 DEF ErxRecv, Erx
  <1>7. CASE ErxLink
    <2>1. erxLink' \in BOOLEAN /\ linkChanged' \in BOOLEAN
      BY <1>7, Zenon DEF ErxLink
    <2> QED
      BY <1>7, <2>1 DEF ErxLink, Erx
  <1>8. CASE ErxNoLink
    BY <1>8 DEF ErxNoLink, Erx
  <1>9. CASE ErxSet
    <2>1. netifUp' \in BOOLEAN /\ erxLink' \in BOOLEAN
      BY <1>9, Zenon DEF ErxSet
    <2> QED
      BY <1>9, <2>1 DEF ErxSet, Erx
  <1>10. CASE ErxBusy
    <2>1. ethCut' \in BOOLEAN
      BY <1>10, Zenon DEF ErxBusy
    <2> QED
      BY <1>10, <2>1 DEF ErxBusy, Erx
  <1>11. CASE ErxGet
    <2>1. ethLock' \in BOOLEAN
      BY <1>11, Zenon DEF ErxGet
    <2> QED
      BY <1>11, <2>1 DEF ErxGet, Erx
  <1>12. CASE ErxFound
    <2>1. ethLock' \in BOOLEAN
      BY <1>12, Zenon DEF ErxFound
    <2> QED
      BY <1>12, <2>1 DEF ErxFound, Erx
  <1>13. CASE ErxNone
    <2>1. ethLock' \in BOOLEAN /\ ethCut' \in BOOLEAN
      BY <1>13, Zenon DEF ErxNone
    <2> QED
      BY <1>13, <2>1 DEF ErxNone, Erx
  <1>14. CASE ErxCopy
    BY <1>14 DEF ErxCopy, Erx
  <1>15. CASE ErxRelease
    BY <1>15 DEF ErxRelease, Erx
  <1>16. CASE ErxResume
    <2>1. ethCut' \in BOOLEAN /\ rbus' \in BOOLEAN
      BY <1>16, Zenon DEF ErxResume
    <2> QED
      BY <1>16, <2>1 DEF ErxResume, Erx
  <1>17. CASE ErxInput
    BY <1>17 DEF ErxInput, Erx
  <1>18. CASE EtxWaited
    BY <1>18 DEF EtxWaited, Etx
  <1>19. CASE EtxBusy
    BY <1>19 DEF EtxBusy, Etx
  <1>20. CASE EtxLock
    <2>1. ethLock' \in BOOLEAN
      BY <1>20, Zenon DEF EtxLock
    <2> QED
      BY <1>20, <2>1 DEF EtxLock, Etx
  <1>21. CASE EtxUnlock
    <2>1. ethLock' \in BOOLEAN
      BY <1>21, Zenon DEF EtxUnlock
    <2> QED
      BY <1>21, <2>1 DEF EtxUnlock, Etx
  <1>22. ASSUME NEW speed \in PhySpeeds, PhyChange(speed) PROVE EthTypeOK'
    <2>1. linkChanged' \in BOOLEAN /\ linkStatus' \in BOOLEAN
      BY <1>22, Zenon DEF PhyChange
    <2> QED
      BY <1>22, <2>1 DEF PhyChange
  <1>23. CASE UNCHANGED ethVars
    BY <1>23 DEF ethVars
  <1> QED
    BY <1>1, <1>2, <1>3, <1>4, <1>5, <1>6, <1>7, <1>8, <1>9, <1>10, <1>11, <1>12, <1>13,
       <1>14, <1>15, <1>16, <1>17, <1>18, <1>19, <1>20, <1>21, <1>22, <1>23 DEF EthNext,
       ErxStep

-----------------------------------------------------------------------------
(* The ring.                                                                 *)

\* Distances from RxDesc: their range, and what one step along the ring does.
LEMMA Distances ==
    ASSUME EthTypeOK
    PROVE  /\ \A d \in Descs : FromCpu(d) \in 0..(RxBufs - 1)
           /\ \A d, e \in Descs : FromCpu(d) = FromCpu(e) => d = e
           /\ \A d \in Descs : FromCpu(NextDesc(d)) =
                 IF FromCpu(d) = RxBufs - 1 THEN 0 ELSE FromCpu(d) + 1
           /\ \A d \in Descs : cpuAt = NextDesc(d) => FromCpu(d) = RxBufs - 1
           /\ FromCpu(cpuAt) = 0
  BY EthOK DEF EthTypeOK, Descs, FromCpu, NextDesc

\* The counters and indices are numbers.
LEMMA RingNumbers ==
    ASSUME EthTypeOK
    PROVE  /\ RxBufs \in Nat /\ RxBufs >= 1
           /\ ethStored \in Nat /\ ethTaken \in Nat
           /\ dmaAt \in Descs /\ cpuAt \in Descs /\ erxDesc \in Descs
           /\ NextDesc(dmaAt) \in Descs /\ NextDesc(cpuAt) \in Descs
  BY EthOK, NextDescType DEF EthTypeOK

\* A frame is stored behind the pending ones, never where erx is copying.
LEMMA RingDma == EthInv /\ DmaStores => RingPlaces' /\ EthRing'
  <1> SUFFICES ASSUME EthInv, DmaStores PROVE RingPlaces' /\ EthRing'
    OBVIOUS
  <1>0. EthTypeOK /\ RingPlaces /\ EthRing
    BY DEF EthInv
  <1> USE RingNumbers, Distances, <1>0
  <1>1. /\ ring[dmaAt] = 0 /\ ethStored' = ethStored + 1
        /\ ring' = [ring EXCEPT ![dmaAt] = ethStored + 1]
        /\ dmaAt' = NextDesc(dmaAt)
        /\ UNCHANGED <<cpuAt, erx, erxDesc, ethTaken>>
    BY DEF DmaStores
  <1>2. \A d \in Descs : FromCpu(d)' = FromCpu(d)
    BY <1>1 DEF FromCpu
  <1>3. Pending < RxBufs /\ FromCpu(dmaAt) = Pending
    BY <1>1 DEF EthRing, RingPlaces, Pending
  <1>4. ErxHolds => Pending < RxBufs - 1 /\ dmaAt # erxDesc
    <2> SUFFICES ASSUME ErxHolds PROVE Pending < RxBufs - 1 /\ dmaAt # erxDesc
      OBVIOUS
    <2>1. FromCpu(erxDesc) = RxBufs - 1 /\ Pending <= RxBufs - 1 /\ ethTaken > 0
      BY DEF RingPlaces
    <2>2. ring[erxDesc] = ethTaken
      BY <2>1 DEF EthRing, Pending
    <2>3. dmaAt # erxDesc
      BY <1>1, <2>1, <2>2
    <2> QED
      BY <1>3, <2>1, <2>3
  <1>5. ErxHolds' = ErxHolds
    BY <1>1 DEF ErxHolds
  <1>6. Pending' = Pending + 1
    BY <1>1 DEF Pending
  <1>7. RingPlaces'
    <2>1. FromCpu(dmaAt)' = IF Pending' = RxBufs THEN 0 ELSE Pending'
      BY <1>1, <1>2, <1>3, <1>6
    <2>2. NextDesc(erxDesc)' = NextDesc(erxDesc)
      BY <1>1 DEF NextDesc
    <2>3. ethTaken' <= ethStored' /\ Pending' <= RxBufs
      BY <1>1, <1>3, <1>6 DEF RingPlaces
    <2>4. ErxHolds' => Pending' <= RxBufs - 1 /\ ethTaken' > 0 /\ cpuAt' = NextDesc(erxDesc)'
      BY <1>1, <1>3, <1>4, <1>5, <1>6, <2>2 DEF RingPlaces
    <2> QED
      BY <2>1, <2>3, <2>4 DEF RingPlaces
  <1>8. EthRing'
    <2> SUFFICES ASSUME NEW d \in Descs
                 PROVE  ring'[d] = IF ethTaken' + FromCpu(d)' < ethStored'
                                   THEN ethTaken' + 1 + FromCpu(d)'
                                   ELSE IF ErxHolds' /\ d = erxDesc' THEN ethTaken' ELSE 0
      BY DEF EthRing
    <2>1. CASE d = dmaAt
      BY <1>1, <1>2, <1>3, <2>1 DEF EthTypeOK, Pending
    <2>2. CASE d # dmaAt
      <3>1. FromCpu(d) # Pending
        BY <1>3, <2>2
      <3> QED
        BY <1>1, <1>2, <1>5, <2>2, <3>1 DEF EthTypeOK, EthRing, Pending
    <2> QED
      BY <2>1, <2>2
  <1> QED
    BY <1>7, <1>8

\* erx takes the oldest pending frame, and its descriptor stays its own.
LEMMA RingFound == EthInv /\ ErxFound => RingPlaces' /\ EthRing'
  <1> SUFFICES ASSUME EthInv, ErxFound PROVE RingPlaces' /\ EthRing'
    OBVIOUS
  <1>0. EthTypeOK /\ RingPlaces /\ EthRing
    BY DEF EthInv
  <1> USE RingNumbers, Distances, <1>0
  <1>1. /\ ring[cpuAt] # 0 /\ erx = "scan" /\ erx' = "copy"
        /\ erxDesc' = cpuAt /\ cpuAt' = NextDesc(cpuAt)
        /\ ethTaken' = ring[cpuAt]
        /\ UNCHANGED <<ring, dmaAt, ethStored>>
    BY DEF ErxFound, Erx
  <1>2. ~ErxHolds /\ ErxHolds'
    BY <1>1 DEF ErxHolds
  <1>3. Pending > 0 /\ ethTaken' = ethTaken + 1
    BY <1>1, <1>2 DEF EthRing, Pending
  <1>4. Pending' = Pending - 1
    BY <1>1, <1>3 DEF Pending
  <1>5. \A d \in Descs : FromCpu(d)' = IF d = cpuAt THEN RxBufs - 1 ELSE FromCpu(d) - 1
    <2> SUFFICES ASSUME NEW d \in Descs
                 PROVE  FromCpu(d)' = IF d = cpuAt THEN RxBufs - 1 ELSE FromCpu(d) - 1
      OBVIOUS
    <2>1. FromCpu(d)' = IF d >= NextDesc(cpuAt) THEN d - NextDesc(cpuAt)
                        ELSE d - NextDesc(cpuAt) + RxBufs
      BY <1>1 DEF FromCpu
    <2> QED
      BY <2>1, EthOK DEF FromCpu, NextDesc, Descs
  <1>6. RingPlaces'
    <2>1. NextDesc(erxDesc)' = NextDesc(cpuAt)
      BY <1>1 DEF NextDesc
    <2>2. FromCpu(dmaAt)' = IF Pending' = RxBufs THEN 0 ELSE Pending'
      <3>1. FromCpu(dmaAt)' = IF dmaAt = cpuAt THEN RxBufs - 1 ELSE FromCpu(dmaAt) - 1
        BY <1>1, <1>5 DEF FromCpu
      <3>2. CASE Pending = RxBufs
        <4>1. dmaAt = cpuAt
          BY <3>2 DEF RingPlaces
        <4> QED
          BY <1>4, <3>1, <3>2, <4>1
      <3>3. CASE Pending # RxBufs
        <4>1. dmaAt # cpuAt /\ FromCpu(dmaAt) = Pending /\ Pending <= RxBufs
          BY <1>3, <3>3 DEF RingPlaces
        <4>2. Pending \in Int
          BY DEF Pending
        <4> QED
          BY <1>4, <3>1, <3>3, <4>1, <4>2
      <3> QED
        BY <3>2, <3>3
    <2>3. ethTaken' <= ethStored' /\ Pending' <= RxBufs - 1 /\ ethTaken' > 0
      BY <1>1, <1>3, <1>4 DEF RingPlaces, Pending
    <2>4. Pending' <= RxBufs
      BY <1>1, <1>3, <2>3 DEF Pending
    <2>5. cpuAt' = NextDesc(erxDesc)'
      BY <1>1, <2>1
    <2> QED
      BY <2>2, <2>3, <2>4, <2>5 DEF RingPlaces
  <1>7. EthRing'
    <2> SUFFICES ASSUME NEW d \in Descs
                 PROVE  ring'[d] = IF ethTaken' + FromCpu(d)' < ethStored'
                                   THEN ethTaken' + 1 + FromCpu(d)'
                                   ELSE IF ErxHolds' /\ d = erxDesc' THEN ethTaken' ELSE 0
      BY DEF EthRing
    <2>1. CASE d = cpuAt
      <3>1. FromCpu(d)' = RxBufs - 1 /\ ring'[d] = ethTaken' /\ d = erxDesc'
        BY <1>1, <1>5, <2>1
      <3>2. ~(ethTaken' + FromCpu(d)' < ethStored')
        BY <1>1, <1>3, <3>1 DEF RingPlaces, Pending
      <3> QED
        BY <1>2, <3>1, <3>2
    <2>2. CASE d # cpuAt
      BY <1>1, <1>2, <1>3, <1>5, <2>2 DEF EthRing
    <2> QED
      BY <2>1, <2>2
  <1> QED
    BY <1>6, <1>7

\* The descriptor goes back to the DMA when nobody needs its frame any more.
LEMMA RingRelease == EthInv /\ ErxRelease => RingPlaces' /\ EthRing'
  <1> SUFFICES ASSUME EthInv, ErxRelease PROVE RingPlaces' /\ EthRing'
    OBVIOUS
  <1>0. EthTypeOK /\ RingPlaces /\ EthRing
    BY DEF EthInv
  <1> USE RingNumbers, Distances, <1>0
  <1>1. /\ erx = "release" /\ erx' = "resume"
        /\ ring' = [ring EXCEPT ![erxDesc] = 0]
        /\ UNCHANGED <<dmaAt, cpuAt, erxDesc, ethStored, ethTaken>>
    BY DEF ErxRelease, Erx
  <1>2. ErxHolds /\ ~ErxHolds'
    BY <1>1 DEF ErxHolds
  <1>3. \A d \in Descs : FromCpu(d)' = FromCpu(d)
    BY <1>1 DEF FromCpu
  <1>4. FromCpu(dmaAt)' = FromCpu(dmaAt) /\ Pending' = Pending
    BY <1>1 DEF FromCpu, Pending
  <1>5. RingPlaces'
    BY <1>1, <1>2, <1>4 DEF RingPlaces
  <1>6. EthRing'
    <2> SUFFICES ASSUME NEW d \in Descs
                 PROVE  ring'[d] = IF ethTaken' + FromCpu(d)' < ethStored'
                                   THEN ethTaken' + 1 + FromCpu(d)'
                                   ELSE IF ErxHolds' /\ d = erxDesc' THEN ethTaken' ELSE 0
      BY DEF EthRing
    <2>1. CASE d = erxDesc
      BY <1>1, <1>2, <1>3, <2>1 DEF EthTypeOK, RingPlaces, Pending
    <2>2. CASE d # erxDesc
      BY <1>1, <1>2, <1>3, <2>2 DEF EthTypeOK, EthRing
    <2> QED
      BY <2>1, <2>2
  <1> QED
    BY <1>5, <1>6

\* Every other step leaves the ring alone.
LEMMA RingFrame ==
    ASSUME RingPlaces, EthRing, ErxHolds' = ErxHolds,
           UNCHANGED <<ring, dmaAt, cpuAt, erxDesc, ethStored, ethTaken>>
    PROVE  RingPlaces' /\ EthRing'
  <1>1. Pending' = Pending /\ FromCpu(dmaAt)' = FromCpu(dmaAt)
    BY DEF Pending, FromCpu
  <1>2. \A d \in Descs : FromCpu(d)' = FromCpu(d)
    BY DEF FromCpu
  <1>3. NextDesc(erxDesc)' = NextDesc(erxDesc)
    BY DEF NextDesc
  <1>4. RingPlaces'
    BY <1>1, <1>3 DEF RingPlaces
  <1>5. EthRing'
    BY <1>2 DEF EthRing
  <1> QED
    BY <1>4, <1>5

\* Both parts of the ring's invariant, for every step.
LEMMA EthStepRing == EthInv /\ [EthNext]_ethVars => RingPlaces' /\ EthRing'
  <1> SUFFICES ASSUME EthInv, [EthNext]_ethVars PROVE RingPlaces' /\ EthRing'
    OBVIOUS
  <1> DEFINE Idle == /\ ErxHolds' = ErxHolds
                     /\ UNCHANGED <<ring, dmaAt, cpuAt, erxDesc, ethStored, ethTaken>>
  <1>f. Idle => RingPlaces' /\ EthRing'
    BY RingFrame DEF EthInv
  <1>1. CASE DmaStores
    BY <1>1, RingDma
  <1>2. CASE EthIrq
    <2>1. Idle
      BY <1>2 DEF EthIrq, dmaVars, ErxHolds
    <2> QED
      BY <1>f, <2>1
  <1>3. CASE EthIrqEnd
    <2>1. Idle
      BY <1>3 DEF EthIrqEnd, dmaVars, ErxHolds
    <2> QED
      BY <1>f, <2>1
  <1>4. CASE PhySame
    <2>1. Idle
      BY <1>4 DEF PhySame, dmaVars, ErxHolds
    <2> QED
      BY <1>f, <2>1
  <1>5. CASE PhyPost
    <2>1. Idle
      BY <1>5 DEF PhyPost, dmaVars, ErxHolds
    <2> QED
      BY <1>f, <2>1
  <1>6. CASE ErxRecv
    <2>1. Idle
      BY <1>6 DEF ErxRecv, Erx, dmaVars, ErxHolds
    <2> QED
      BY <1>f, <2>1
  <1>7. CASE ErxLink
    <2>1. Idle
      BY <1>7 DEF ErxLink, Erx, dmaVars, ErxHolds
    <2> QED
      BY <1>f, <2>1
  <1>8. CASE ErxNoLink
    <2>1. Idle
      BY <1>8 DEF ErxNoLink, Erx, dmaVars, ErxHolds
    <2> QED
      BY <1>f, <2>1
  <1>9. CASE ErxSet
    <2>1. Idle
      BY <1>9 DEF ErxSet, Erx, dmaVars, ErxHolds
    <2> QED
      BY <1>f, <2>1
  <1>10. CASE ErxBusy
    <2>1. Idle
      BY <1>10 DEF ErxBusy, Erx, dmaVars, ErxHolds
    <2> QED
      BY <1>f, <2>1
  <1>11. CASE ErxGet
    <2>1. Idle
      BY <1>11 DEF ErxGet, Erx, dmaVars, ErxHolds
    <2> QED
      BY <1>f, <2>1
  <1>12. CASE ErxFound
    BY <1>12, RingFound
  <1>13. CASE ErxNone
    <2>1. Idle
      BY <1>13 DEF ErxNone, Erx, dmaVars, ErxHolds
    <2> QED
      BY <1>f, <2>1
  <1>14. CASE ErxCopy
    <2>1. Idle
      BY <1>14 DEF ErxCopy, Erx, dmaVars, ErxHolds
    <2> QED
      BY <1>f, <2>1
  <1>15. CASE ErxRelease
    BY <1>15, RingRelease
  <1>16. CASE ErxResume
    <2>1. Idle
      BY <1>16 DEF ErxResume, Erx, dmaVars, ErxHolds
    <2> QED
      BY <1>f, <2>1
  <1>17. CASE ErxInput
    <2>1. Idle
      BY <1>17 DEF ErxInput, Erx, dmaVars, ErxHolds
    <2> QED
      BY <1>f, <2>1
  <1>18. CASE EtxWaited
    <2>1. Idle
      BY <1>18 DEF EtxWaited, Etx, dmaVars, ErxHolds
    <2> QED
      BY <1>f, <2>1
  <1>19. CASE EtxBusy
    <2>1. Idle
      BY <1>19 DEF EtxBusy, Etx, dmaVars, ErxHolds
    <2> QED
      BY <1>f, <2>1
  <1>20. CASE EtxLock
    <2>1. Idle
      BY <1>20 DEF EtxLock, Etx, dmaVars, ErxHolds
    <2> QED
      BY <1>f, <2>1
  <1>21. CASE EtxUnlock
    <2>1. Idle
      BY <1>21 DEF EtxUnlock, Etx, dmaVars, ErxHolds
    <2> QED
      BY <1>f, <2>1
  <1>22. ASSUME NEW speed \in PhySpeeds, PhyChange(speed) PROVE RingPlaces' /\ EthRing'
    <2>1. Idle
      BY <1>22 DEF PhyChange, dmaVars, ErxHolds
    <2> QED
      BY <1>f, <2>1
  <1>23. CASE UNCHANGED ethVars
    <2>1. Idle
      BY <1>23 DEF ethVars, ErxHolds
    <2> QED
      BY <1>f, <2>1
  <1> QED
    BY <1>1, <1>2, <1>3, <1>4, <1>5, <1>6, <1>7, <1>8, <1>9, <1>10, <1>11, <1>12, <1>13,
       <1>14, <1>15, <1>16, <1>17, <1>18, <1>19, <1>20, <1>21, <1>22, <1>23 DEF EthNext,
       ErxStep

-----------------------------------------------------------------------------
(* The messages.                                                             *)

\* erx finds no frame only when none is pending.
LEMMA NoneIsPending == EthInv /\ ErxNone => Pending = 0
  <1> SUFFICES ASSUME EthInv, ErxNone PROVE Pending = 0
    OBVIOUS
  <1>1. EthTypeOK /\ RingPlaces /\ EthRing /\ ring[cpuAt] = 0 /\ ~ErxHolds
    BY DEF EthInv, ErxNone, Erx, ErxHolds
  <1> QED
    BY <1>1, RingNumbers, Distances DEF EthRing, RingPlaces, Pending

LEMMA EthStepTold == EthInv /\ [EthNext]_ethVars => ErxTold'
  <1> SUFFICES ASSUME EthInv, [EthNext]_ethVars PROVE ErxTold'
    OBVIOUS
  <1>0. EthTypeOK /\ ErxTold /\ RingPlaces
    BY DEF EthInv
  <1>n. ethStored \in Nat /\ ethTaken \in Nat /\ ethTaken <= ethStored /\ erxMb \in Nat
    BY <1>0, EthOK DEF EthTypeOK, RingPlaces
  <1> USE <1>0, <1>n, EthOK DEF ErxTold, Pending, dmaVars
  <1>1. CASE DmaStores
    BY <1>1 DEF DmaStores
  <1>2. CASE EthIrq
    BY <1>2 DEF EthIrq, Posted
  <1>3. CASE EthIrqEnd
    BY <1>3 DEF EthIrqEnd
  <1>4. CASE PhySame
    BY <1>4 DEF PhySame
  <1>5. CASE PhyPost
    BY <1>5 DEF PhyPost, Posted
  <1>6. CASE ErxRecv
    BY <1>6 DEF ErxRecv, Erx, ThreadsRun
  <1>7. CASE ErxLink
    BY <1>7 DEF ErxLink, Erx, ThreadsRun
  <1>8. CASE ErxNoLink
    BY <1>8 DEF ErxNoLink, Erx, ThreadsRun
  <1>9. CASE ErxSet
    BY <1>9 DEF ErxSet, Erx, ThreadsRun
  <1>10. CASE ErxBusy
    BY <1>10 DEF ErxBusy, Erx, ThreadsRun
  <1>11. CASE ErxGet
    BY <1>11 DEF ErxGet, Erx, ThreadsRun
  <1>12. CASE ErxFound
    BY <1>12 DEF ErxFound, Erx, ThreadsRun
  <1>13. CASE ErxNone
    BY <1>13, NoneIsPending DEF ErxNone, Erx, ThreadsRun
  <1>14. CASE ErxCopy
    BY <1>14 DEF ErxCopy, Erx, ThreadsRun
  <1>15. CASE ErxRelease
    BY <1>15 DEF ErxRelease, Erx, ThreadsRun
  <1>16. CASE ErxResume
    BY <1>16 DEF ErxResume, Erx, ThreadsRun
  <1>17. CASE ErxInput
    BY <1>17 DEF ErxInput, Erx, ThreadsRun
  <1>18. CASE EtxWaited
    BY <1>18 DEF EtxWaited, Etx
  <1>19. CASE EtxBusy
    BY <1>19 DEF EtxBusy, Etx
  <1>20. CASE EtxLock
    BY <1>20 DEF EtxLock, Etx
  <1>21. CASE EtxUnlock
    BY <1>21 DEF EtxUnlock, Etx
  <1>22. ASSUME NEW speed \in PhySpeeds, PhyChange(speed) PROVE ErxTold'
    BY <1>22 DEF PhyChange
  <1>23. CASE UNCHANGED ethVars
    BY <1>23 DEF ethVars
  <1> QED
    BY <1>1, <1>2, <1>3, <1>4, <1>5, <1>6, <1>7, <1>8, <1>9, <1>10, <1>11, <1>12, <1>13,
       <1>14, <1>15, <1>16, <1>17, <1>18, <1>19, <1>20, <1>21, <1>22, <1>23 DEF EthNext,
       ErxStep

LEMMA EthStepLink == EthInv /\ [EthNext]_ethVars => LinkOnItsWay'
  <1> SUFFICES ASSUME EthInv, [EthNext]_ethVars PROVE LinkOnItsWay'
    OBVIOUS
  <1>0. EthTypeOK /\ LinkOnItsWay
    BY DEF EthInv
  <1>n. erxMb \in Nat
    BY <1>0, EthOK DEF EthTypeOK
  <1> USE <1>0, <1>n, EthOK DEF LinkOnItsWay, linkVars
  <1>1. CASE DmaStores
    BY <1>1 DEF DmaStores
  <1>2. CASE EthIrq
    BY <1>2 DEF EthIrq, Posted
  <1>3. CASE EthIrqEnd
    BY <1>3 DEF EthIrqEnd
  <1>4. CASE PhySame
    BY <1>4 DEF PhySame
  <1>5. CASE PhyPost
    BY <1>5 DEF PhyPost, Posted
  <1>6. CASE ErxRecv
    BY <1>6 DEF ErxRecv, Erx, ThreadsRun
  <1>7. CASE ErxLink
    BY <1>7 DEF ErxLink, Erx, ThreadsRun
  <1>8. CASE ErxNoLink
    BY <1>8 DEF ErxNoLink, Erx, ThreadsRun
  <1>9. CASE ErxSet
    BY <1>9 DEF ErxSet, Erx, ThreadsRun
  <1>10. CASE ErxBusy
    BY <1>10 DEF ErxBusy, Erx, ThreadsRun
  <1>11. CASE ErxGet
    BY <1>11 DEF ErxGet, Erx, ThreadsRun
  <1>12. CASE ErxFound
    BY <1>12 DEF ErxFound, Erx, ThreadsRun
  <1>13. CASE ErxNone
    BY <1>13 DEF ErxNone, Erx, ThreadsRun
  <1>14. CASE ErxCopy
    BY <1>14 DEF ErxCopy, Erx, ThreadsRun
  <1>15. CASE ErxRelease
    BY <1>15 DEF ErxRelease, Erx, ThreadsRun
  <1>16. CASE ErxResume
    BY <1>16 DEF ErxResume, Erx, ThreadsRun
  <1>17. CASE ErxInput
    BY <1>17 DEF ErxInput, Erx, ThreadsRun
  <1>18. CASE EtxWaited
    BY <1>18 DEF EtxWaited, Etx
  <1>19. CASE EtxBusy
    BY <1>19 DEF EtxBusy, Etx
  <1>20. CASE EtxLock
    BY <1>20 DEF EtxLock, Etx
  <1>21. CASE EtxUnlock
    BY <1>21 DEF EtxUnlock, Etx
  <1>22. ASSUME NEW speed \in PhySpeeds, PhyChange(speed) PROVE LinkOnItsWay'
    BY <1>22 DEF PhyChange
  <1>23. CASE UNCHANGED ethVars
    BY <1>23 DEF ethVars
  <1> QED
    BY <1>1, <1>2, <1>3, <1>4, <1>5, <1>6, <1>7, <1>8, <1>9, <1>10, <1>11, <1>12, <1>13,
       <1>14, <1>15, <1>16, <1>17, <1>18, <1>19, <1>20, <1>21, <1>22, <1>23 DEF EthNext,
       ErxStep

-----------------------------------------------------------------------------
(* The theorems.                                                             *)

LEMMA EthInitInv == EthInit => EthInv
  <1> SUFFICES ASSUME EthInit PROVE EthInv
    OBVIOUS
  <1>1. EthTypeOK
    BY EthInitTypes
  <1>2. Pending = 0 /\ ~ErxHolds /\ FromCpu(dmaAt) = 0
    BY EthOK DEF EthInit, Pending, ErxHolds, FromCpu
  <1>3. RingPlaces
    BY <1>2, EthOK DEF RingPlaces, EthInit
  <1>4. EthRing
    BY <1>1, <1>2, Distances, EthOK DEF EthInit, EthRing
  <1>5. ErxTold
    BY <1>2 DEF ErxTold, EthInit
  <1>6. LinkOnItsWay
    BY DEF LinkOnItsWay, EthInit
  <1> QED
    BY <1>1, <1>3, <1>4, <1>5, <1>6 DEF EthInv

LEMMA EthInvStep == EthInv /\ [EthNext]_ethVars => EthInv'
  BY EthStepTypes, EthStepRing, EthStepTold, EthStepLink DEF EthInv

\* The invariant holds of every behaviour of the driver.
THEOREM EthInvariant == EthSpec => []EthInv
  BY EthInitInv, EthInvStep, PTL DEF EthSpec

\* The variables of the driver stay in their ranges; the mailbox of erx never
\* holds more than RT_LWIP_ETHTHREAD_MBOX_SIZE messages.
THEOREM EthTypes == EthSpec => []EthTypeOK
  <1>1. EthInv => EthTypeOK
    BY DEF EthInv
  <1> QED
    BY <1>1, EthInvariant, PTL

\* HAL_ETH_GetReceivedFrame_IT takes the frames in the order the DMA stored
\* them, and the DMA never writes into the descriptor rt_stm32_eth_rx copies.
THEOREM EthRingSafe == EthSpec => []EthRing
  <1>1. EthInv => EthRing
    BY DEF EthInv
  <1> QED
    BY <1>1, EthInvariant, PTL

\* eth_rx_thread_entry never waits with frames left in the ring or the DMA
\* suspended, unless its last pass was cut short.
THEOREM EthNeverStalls == EthSpec => []EthNoStall
  <1>1. EthInv => EthNoStall
    <2> SUFFICES ASSUME EthInv, ErxAsleep, ~ethCut
                 PROVE  ~rbus /\ \A d \in Descs : ring[d] = 0
      BY DEF EthNoStall
    <2>1. EthTypeOK /\ RingPlaces /\ EthRing /\ ErxTold
      BY DEF EthInv
    <2>2. erx = "recv" /\ ~ErxHolds /\ erxMb = 0 /\ ~ethR
      BY DEF ErxAsleep, ErxHolds
    <2>3. ~(Pending > 0)
      BY <2>1, <2>2 DEF ErxTold
    <2>4. ~rbus
      BY <2>1, <2>2, <2>3 DEF ErxTold
    <2>5. \A d \in Descs : ring[d] = 0
      BY <2>1, <2>2, <2>3, RingNumbers, Distances DEF EthRing, Pending
    <2> QED
      BY <2>4, <2>5
  <1> QED
    BY <1>1, EthInvariant, PTL

\* Whenever eth_rx_thread_entry sleeps and phy_linkchange is not under way, the
\* netif has the state of the link that phy_linkchange saw last.
THEOREM LinkIsReported == EthSpec => []LinkReported
  <1>1. EthInv => LinkReported
    BY EthOK DEF EthInv, EthTypeOK, LinkOnItsWay, LinkReported
  <1> QED
    BY <1>1, EthInvariant, PTL

-----------------------------------------------------------------------------
(* The ring as a channel.                                                    *)

\* Only the DMA and HAL_ETH_GetReceivedFrame_IT move frames.
LEMMA EthMoves ==
    ASSUME [EthNext]_ethVars
    PROVE  DmaStores \/ ErxFound \/ UNCHANGED <<ethStored, ethTaken>>
  <1> USE DEF dmaVars
  <1>1. CASE EthIrq \/ EthIrqEnd \/ UNCHANGED ethVars
    BY <1>1 DEF EthIrq, EthIrqEnd, ethVars
  <1>2. CASE PhySame \/ PhyPost \/ \E speed \in PhySpeeds : PhyChange(speed)
    BY <1>2 DEF PhySame, PhyPost, PhyChange
  <1>3. CASE ErxRecv \/ ErxLink \/ ErxNoLink \/ ErxSet \/ ErxBusy \/ ErxGet
    BY <1>3 DEF ErxRecv, ErxLink, ErxNoLink, ErxSet, ErxBusy, ErxGet, Erx
  <1>4. CASE ErxNone \/ ErxCopy \/ ErxRelease \/ ErxResume \/ ErxInput
    BY <1>4 DEF ErxNone, ErxCopy, ErxRelease, ErxResume, ErxInput, Erx
  <1>5. CASE EtxWaited \/ EtxBusy \/ EtxLock \/ EtxUnlock
    BY <1>5 DEF EtxWaited, EtxBusy, EtxLock, EtxUnlock, Etx
  <1> QED
    BY <1>1, <1>2, <1>3, <1>4, <1>5 DEF EthNext, ErxStep

LEMMA EthStreamStep ==
    ASSUME EthInv, [EthNext]_ethVars
    PROVE  [Frames!StreamNext]_<<ethStored, ethTaken>>
  <1>0. EthTypeOK /\ RingPlaces /\ EthRing
    BY DEF EthInv
  <1> USE RingNumbers, Distances, <1>0
  <1>1. CASE DmaStores
    <2>1. ring[dmaAt] = 0 /\ ethStored' = ethStored + 1 /\ ethTaken' = ethTaken
      BY <1>1 DEF DmaStores
    <2>2. Pending < RxBufs
      BY <2>1 DEF EthRing, RingPlaces, Pending
    <2>3. Frames!Put
      BY <2>1, <2>2 DEF Frames!Put, Pending
    <2> QED
      BY <2>3 DEF Frames!StreamNext
  <1>2. CASE ErxFound
    <2>1. /\ ring[cpuAt] # 0 /\ ~ErxHolds /\ ethTaken' = ring[cpuAt]
          /\ ethStored' = ethStored
      BY <1>2 DEF ErxFound, Erx, ErxHolds
    <2>2. Pending > 0 /\ ethTaken' = ethTaken + 1
      BY <2>1 DEF EthRing, Pending
    <2>3. Frames!Take
      BY <2>1, <2>2 DEF Frames!Take, Pending
    <2> QED
      BY <2>3 DEF Frames!StreamNext
  <1>3. CASE UNCHANGED <<ethStored, ethTaken>>
    BY <1>3
  <1> QED
    BY <1>1, <1>2, <1>3, EthMoves

\* The ring of descriptors implements Stream: rt_stm32_eth_rx gets every frame
\* the DMA has stored, in order and once, and the DMA stores none over a frame
\* that has not been taken.
THEOREM EthIsStream == EthSpec => EthRefines
  <1>1. EthInit => Frames!StreamInit
    BY DEF EthInit, Frames!StreamInit
  <1>2. EthInv /\ [EthNext]_ethVars => [Frames!StreamNext]_<<ethStored, ethTaken>>
    BY EthStreamStep
  <1> QED
    BY <1>1, <1>2, EthInvariant, PTL DEF EthSpec, EthRefines, Frames!StreamSpec
=============================================================================
