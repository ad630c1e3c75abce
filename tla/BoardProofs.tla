----------------------------- MODULE BoardProofs -----------------------------
(****************************************************************************)
(* The composition of the board's parts in MCBoard, for every value of the  *)
(* constants: what is proved of a part alone holds of it on the board.      *)
(****************************************************************************)
EXTENDS MCBoard, EncoderProofs, EthRxProofs, MutexProofs, PipeProofs, DeviceProofs

\* The inductive invariants of the parts that interrupts or other threads reach.
BoardInv ==
    EncTypeOK /\ AdsInv /\ MotInv /\ RxInv /\ EthInv /\ MtxInv /\ PipeInv

\* A step of the board is for each of its parts a step of that part or none.
LEMMA BoardStep ==
    ASSUME [BoardNext]_boardVars
    PROVE  /\ [EncNext]_encVars
           /\ [AdsNext]_adsVars /\ [MotNext]_motVars /\ [RxNext]_rxVars
           /\ [EthNext]_ethVars /\ [MtxNext]_mtxVars /\ [PipeNext]_pipeVars
  BY Zenon DEF BoardNext, boardVars

\* The invariants of the parts hold of every behaviour of the board.
THEOREM BoardInvariant == BoardSpec => []BoardInv
  <1>1. BoardInit => BoardInv
    BY EncInitTypes, AdsInitInv, MotInitInv, RxInitInv, EthInitInv, MtxInitInv, PipeInitInv
       DEF BoardInit, BoardInv
  <1>2. BoardInv /\ [BoardNext]_boardVars => BoardInv'
    BY BoardStep, EncStepTypes, AdsInvStep, MotInvStep, RxInvStep, EthInvStep, MtxInvStep,
       PipeInvStep
       DEF BoardInv
  <1> QED
    BY <1>1, <1>2, PTL DEF BoardSpec

\* No mailbox, count, index or state of a thread leaves its range on the board.
THEOREM BoardTypes == BoardSpec => []BoardTypeOK
  <1>1. BoardInv => BoardTypeOK
    BY DEF BoardInv, BoardTypeOK, AdsInv, RxInv, EthInv, MtxInv, PipeInv
  <1> QED
    BY <1>1, BoardInvariant, PTL
=============================================================================
