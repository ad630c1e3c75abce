--------------------------- MODULE NetParamProofs ---------------------------
(****************************************************************************)
(* Proofs about NetParam: types for every bus, and, for a bus on which      *)
(* every byte is acknowledged, agreement of memory, EEPROM and interface    *)
(* however often and whenever the board is reset.                           *)
(****************************************************************************)
EXTENDS NetParam, TLAPS

\* The cells of a block are four numbers, in particular after a field is changed.
LEMMA BlockTypes ==
    /\ ZeroBlock \in Block
    /\ [i \in Cells |-> Ones] \in Block
    /\ \A a, p, s, f \in Nat : p <= Ones => <<a, p, s, f>> \in Block
    /\ \A b \in Block : \A i \in Cells, n \in Nat :
          i # 2 \/ n <= Ones => [b EXCEPT ![i] = n] \in Block
    /\ \A b \in Block : LoadDefNetParam(b) \in Block
  <1>1. DefAddr \in Nat /\ DefServer \in Nat
    BY ParamsOK
  <1>2. \A a, p, s, f \in Nat : p <= Ones => <<a, p, s, f>> \in Block
    BY DEF Block, Cells
  <1>3. \A b \in Block : \A i \in Cells, n \in Nat :
           i # 2 \/ n <= Ones => [b EXCEPT ![i] = n] \in Block
    BY DEF Block, Cells
  <1>4. \A b \in Block : LoadDefNetParam(b) \in Block
    BY <1>1 DEF Block, Cells, LoadDefNetParam, Ones
  <1>5. ZeroBlock \in Block
    BY DEF Block, Cells, ZeroBlock, Ones
  <1>6. [i \in Cells |-> Ones] \in Block
    BY DEF Block, Cells, Ones
  <1> QED
    BY <1>2, <1>3, <1>4, <1>5, <1>6

\* Every variable keeps its type whatever the bus does, so a block stays a
\* block of four cells through boot, save and eth_set.
THEOREM ParamTypes == ParSpec => []ParTypeOK
  <1>1. ParInit => ParTypeOK
    <2> SUFFICES ASSUME ParInit PROVE ParTypeOK
      OBVIOUS
    <2>1. ee \in Block
      <3>1. \A a \in Addrs, s \in Servers : <<a, 0, s, 0>> \in Block
        <4>1. \A a \in Addrs, s \in Servers : a \in Nat /\ s \in Nat
          BY ParamsOK
        <4>2. 0 \in Nat /\ 0 <= Ones
          BY DEF Ones
        <4> QED
          BY <4>1, <4>2, BlockTypes, Zenon
      <3> QED
        BY <3>1, BlockTypes DEF ParInit
    <2>2. dev \in BOOLEAN
      BY DEF ParInit
    <2>4. up \in BOOLEAN
      BY Zenon DEF ParInit
    <2>3. mem \in Block /\ cfg \in Block
      BY BlockTypes DEF ParInit
    <2> QED
      BY <2>1, <2>2, <2>3, <2>4 DEF ParInit, ParTypeOK
  <1>2. ParTypeOK /\ [ParNext]_parVars => ParTypeOK'
    <2> SUFFICES ASSUME ParTypeOK, [ParNext]_parVars PROVE ParTypeOK'
      OBVIOUS
    <2> USE DEF ParTypeOK
    <2>1. CASE Reset
      BY <2>1, BlockTypes DEF Reset, Boot
    <2>2. CASE LoadSoftVersion
      BY <2>2 DEF LoadSoftVersion
    <2>3. CASE WriteSoftVersion
      BY <2>3 DEF WriteSoftVersion
    <2>4. CASE LoadDef
      BY <2>4, BlockTypes DEF LoadDef
    <2>5. CASE ReadNetParam
      <3>1. /\ \A i \in Cells : Received(i) \subseteq Nat
            /\ \A p \in Received(2) : p <= Ones
        <4>1. (\A i \in Cells : ee[i] \in Nat) /\ ee[2] <= Ones
          BY DEF Block
        <4> QED
          BY <4>1, JunkOK DEF Received
      <3>2. PICK a \in Received(1), p \in Received(2), s \in Received(3), f \in Received(4) :
               /\ mem' = IF HexIsEmpty(<<a, p, s, f>>)
                         THEN LoadDefNetParam(<<a, p, s, f>>) ELSE <<a, p, s, f>>
               /\ pc' = IF HexIsEmpty(<<a, p, s, f>>) THEN "write" ELSE "apply"
        BY <2>5 DEF ReadNetParam
      <3>3. <<a, p, s, f>> \in Block
        <4>1. a \in Nat /\ p \in Nat /\ s \in Nat /\ f \in Nat /\ p <= Ones
          BY <3>1 DEF Cells
        <4> QED
          BY <4>1, BlockTypes, Zenon
      <3> QED
        BY <2>5, <3>2, <3>3, BlockTypes DEF ReadNetParam
    <2>6. CASE WriteNetParam
      BY <2>6 DEF WriteNetParam, Block, Cells
    <2>7. CASE WriteCycle
      BY <2>7 DEF WriteCycle
    <2>8. CASE SetCurNetCfg
      BY <2>8 DEF SetCurNetCfg, Block, Cells
    <2>9. CASE EthSet
      <3>1. \A n \in PortArgs : ParsedPort(n) \in Nat /\ ParsedPort(n) <= Ones
        BY ParamsOK DEF ParsedPort, Ones
      <3>2. cfg' \in Block
        BY <2>9, <3>1, BlockTypes, ParamsOK DEF EthSet, Cells
      <3> QED
        BY <2>9, <3>2 DEF EthSet
    <2>10. CASE SetNetCfg
      BY <2>10 DEF SetNetCfg
    <2>11. CASE ClearState
      <3>1. mem' \in Block
        BY <2>11 DEF ClearState, Block, Cells
      <3> QED
        BY <2>11, <3>1 DEF ClearState
    <2>12. CASE UNCHANGED parVars
      BY <2>12 DEF parVars
    <2> QED
      BY <2>1, <2>2, <2>3, <2>4, <2>5, <2>6, <2>7, <2>8, <2>9, <2>10, <2>11,
         <2>12 DEF ParNext
  <1> QED
    BY <1>1, <1>2, PTL DEF ParSpec

\* The inductive invariant: from the write cycle on, and while eth_set works
\* on its copy, memory and EEPROM agree; the interface follows at "apply".
Agreement ==
    /\ pc \in {"twr", "apply", "run", "set"} => Conf(mem) = Conf(ee)
    /\ pc \in {"run", "set"} => nif = mem[1]

\* The bus acknowledges every byte.
Acknowledged == {"nack_read", "nack_write"} \intersect Faults = {}

\* On such a bus readNetParam gets the block of the EEPROM.
LEMMA ReadsBlock ==
    ASSUME Acknowledged, ReadNetParam
    PROVE  LET b == <<ee[1], ee[2], ee[3], ee[4]>>
           IN  /\ mem' = IF HexIsEmpty(b) THEN LoadDefNetParam(b) ELSE b
               /\ pc' = IF HexIsEmpty(b) THEN "write" ELSE "apply"
  <1>1. \A i \in Cells : Received(i) = {ee[i]}
    BY DEF Received, Acknowledged
  <1> QED
    BY <1>1 DEF ReadNetParam, Cells

LEMMA AgreementInvariant ==
    ASSUME Acknowledged
    PROVE  ParSpec => []Agreement
  <1>1. ParInit => Agreement
    BY DEF ParInit, Agreement
  <1>2. ParTypeOK /\ Agreement /\ [ParNext]_parVars => Agreement'
    <2> SUFFICES ASSUME ParTypeOK, Agreement, [ParNext]_parVars PROVE Agreement'
      OBVIOUS
    <2> USE DEF Agreement, Conf
    <2>1. CASE Reset \/ LoadSoftVersion \/ WriteSoftVersion \/ LoadDef
      BY <2>1 DEF Reset, Boot, LoadSoftVersion, WriteSoftVersion, LoadDef
    <2>2. CASE ReadNetParam
      BY <2>2, ReadsBlock DEF ReadNetParam
    <2>3. CASE WriteNetParam
      BY <2>3 DEF WriteNetParam, Cells, Acknowledged
    <2>4. CASE WriteCycle \/ SetCurNetCfg
      BY <2>4 DEF WriteCycle, SetCurNetCfg
    <2>5. CASE EthSet \/ SetNetCfg
      BY <2>5 DEF EthSet, SetNetCfg
    <2>6. CASE ClearState
      BY <2>6 DEF ClearState, ParTypeOK, Block, Cells
    <2>7. CASE UNCHANGED parVars
      BY <2>7 DEF parVars
    <2> QED
      BY <2>1, <2>2, <2>3, <2>4, <2>5, <2>6, <2>7 DEF ParNext
  <1> QED
    BY <1>1, <1>2, ParamTypes, PTL DEF ParSpec

\* With every byte acknowledged, whenever no change is in progress the memory
\* holds the parameters that the EEPROM holds, after any number of resets at
\* any step (usrParam.cpp, setNetCfg).
THEOREM ParamsAgree ==
    ASSUME Acknowledged
    PROVE  ParSpec => []MemoryMatchesStore
  <1>1. Agreement => MemoryMatchesStore
    BY DEF Agreement, MemoryMatchesStore
  <1> QED
    BY <1>1, AgreementInvariant, PTL

\* ... and the interface uses their address (setCurNetCfg).
THEOREM AddressFollows ==
    ASSUME Acknowledged
    PROVE  ParSpec => []AddressApplied
  <1>1. Agreement => AddressApplied
    BY DEF Agreement, AddressApplied
  <1> QED
    BY <1>1, AgreementInvariant, PTL

-----------------------------------------------------------------------------
(* The refinement of ParamStore.                                             *)

\* An address is never 0 or Ones, so that a block with one is not empty: the
\* block in memory has one from the end of readNetParam on, eth_set's copy
\* keeps one, and the EEPROM has one unless it is empty.
Addressed ==
    /\ HexIsEmpty(ee) \/ ee[1] \in Addrs
    /\ pc \in {"write", "twr", "apply", "run", "set"} => mem[1] \in Addrs
    /\ pc = "set" => cfg[1] \in Addrs

\* An address tells a block from an empty one.
LEMMA AddressNotEmpty ==
    ASSUME NEW b, b[1] \in Addrs
    PROVE  ~HexIsEmpty(b)
  BY ParamsOK DEF HexIsEmpty, Cells

\* The cells of a block read one by one are the block.
LEMMA CellsOfBlock ==
    ASSUME NEW b \in Block
    PROVE  HexIsEmpty(<<b[1], b[2], b[3], b[4]>>) <=> HexIsEmpty(b)
  BY DEF HexIsEmpty, Cells

LEMMA DefaultCells ==
    ASSUME NEW a, NEW p, NEW s, NEW f
    PROVE  LET d == LoadDefNetParam(<<a, p, s, f>>)
           IN  d[1] = DefAddr /\ d[2] = 0 /\ d[3] = DefServer
  BY DEF LoadDefNetParam

LEMMA AddressedInvariant ==
    ASSUME Acknowledged
    PROVE  ParSpec => []Addressed
  <1>1. ParInit => Addressed
    <2> SUFFICES ASSUME ParInit PROVE Addressed
      OBVIOUS
    <2>1. HexIsEmpty(ee) \/ ee[1] \in Addrs
      BY DEF ParInit, HexIsEmpty, ZeroBlock, Cells
    <2> QED
      BY <2>1 DEF ParInit, Addressed
  <1>2. ParTypeOK /\ Agreement /\ Addressed /\ [ParNext]_parVars => Addressed'
    <2> SUFFICES ASSUME ParTypeOK, Agreement, Addressed, [ParNext]_parVars
                 PROVE  Addressed'
      OBVIOUS
    <2> USE DEF Addressed
    <2>1. CASE Reset \/ LoadSoftVersion \/ WriteSoftVersion \/ LoadDef
      BY <2>1 DEF Reset, Boot, LoadSoftVersion, WriteSoftVersion, LoadDef,
                  HexIsEmpty
    <2>2. CASE ReadNetParam
      <3> DEFINE b == <<ee[1], ee[2], ee[3], ee[4]>>
      <3>1. /\ mem' = IF HexIsEmpty(b) THEN LoadDefNetParam(b) ELSE b
            /\ pc' = IF HexIsEmpty(b) THEN "write" ELSE "apply"
        BY <2>2, ReadsBlock
      <3>2. HexIsEmpty(b) <=> HexIsEmpty(ee)
        BY CellsOfBlock DEF ParTypeOK
      <3>3. mem'[1] \in Addrs
        BY <3>1, <3>2, DefaultCells, ParamsOK
      <3> QED
        BY <2>2, <3>1, <3>3 DEF ReadNetParam, HexIsEmpty
    <2>3. CASE WriteNetParam
      <3>1. ee'[1] = mem[1]
        BY <2>3 DEF WriteNetParam, Cells, Acknowledged
      <3> QED
        BY <2>3, <3>1 DEF WriteNetParam
    <2>4. CASE WriteCycle \/ SetCurNetCfg
      BY <2>4 DEF WriteCycle, SetCurNetCfg, HexIsEmpty
    <2>5. CASE EthSet
      <3>1. cfg'[1] \in Addrs
        BY <2>5 DEF EthSet, ParTypeOK, Block, Cells
      <3> QED
        BY <2>5, <3>1 DEF EthSet, HexIsEmpty
    <2>6. CASE SetNetCfg
      BY <2>6 DEF SetNetCfg, HexIsEmpty
    <2>7. CASE ClearState
      <3>1. mem'[1] = mem[1]
        BY <2>7 DEF ClearState, ParTypeOK, Block, Cells
      <3> QED
        BY <2>7, <3>1 DEF ClearState, HexIsEmpty
    <2>8. CASE UNCHANGED parVars
      BY <2>8 DEF parVars, HexIsEmpty
    <2> QED
      BY <2>1, <2>2, <2>3, <2>4, <2>5, <2>6, <2>7, <2>8 DEF ParNext
  <1> QED
    BY <1>1, <1>2, ParamTypes, AgreementInvariant, PTL DEF ParSpec

\* A block without its state flag is a block of the store, and not Null.
LEMMA ConfIsBlock ==
    ASSUME NEW b \in Block
    PROVE  Conf(b) \in Nat \X Nat \X Nat /\ Conf(b) # Null
  BY NullOK DEF Conf, Block, Cells

\* On a bus that acknowledges every byte, usrParam.cpp and the boot implement
\* ParamStore for every set of addresses and servers: whenever the board is
\* reset, the next boot comes up with the old or the new block, never with a
\* mixture, and no boot changes the block that it finds.
THEOREM StoreRefined ==
    ASSUME Acknowledged
    PROVE  ParSpec => RefinesStore
  <1> USE DEF Durable, Requested
  <1>1. ParTypeOK /\ ParInit => Store!Init
    <2> SUFFICES ASSUME ParTypeOK, ParInit PROVE Store!Init
      OBVIOUS
    <2>1. <<DefAddr, 0, DefServer>> \in Nat \X Nat \X Nat
      BY ParamsOK
    <2>2. Conf(ee) \in Nat \X Nat \X Nat
      BY ConfIsBlock DEF ParTypeOK
    <2> QED
      BY <2>1, <2>2 DEF ParInit, Store!Init
  <1>2. ParTypeOK /\ Agreement /\ Addressed /\ ParTypeOK' /\ [ParNext]_parVars
          => [Store!Next]_<<Durable, Requested>>
    <2> SUFFICES ASSUME ParTypeOK, Agreement, Addressed, ParTypeOK', ParNext
                 PROVE  Store!Next \/ UNCHANGED <<Durable, Requested>>
      BY DEF parVars, HexIsEmpty, Conf
    <2>0. /\ Conf(mem) \in Nat \X Nat \X Nat /\ Conf(mem) # Null
          /\ Conf(mem)' \in Nat \X Nat \X Nat /\ Conf(mem)' # Null
      BY ConfIsBlock DEF ParTypeOK
    <2>1. ASSUME UNCHANGED ee PROVE UNCHANGED Durable
      BY <2>1 DEF HexIsEmpty, Conf
    <2>2. CASE Reset
      BY <2>1, <2>2 DEF Reset, Boot, Store!Next, Store!Reset
    <2>3. CASE LoadSoftVersion \/ WriteSoftVersion \/ LoadDef \/ EthSet
      <3>1. UNCHANGED ee /\ pc \notin {"write", "twr", "apply"}
                         /\ pc' \notin {"write", "twr", "apply"}
        BY <2>3 DEF LoadSoftVersion, WriteSoftVersion, LoadDef, EthSet
      <3> QED
        BY <2>1, <3>1
    <2>4. CASE ReadNetParam
      <3>1. UNCHANGED ee /\ pc = "read" /\ pc' \in {"write", "apply"}
        BY <2>4, ReadsBlock DEF ReadNetParam
      <3> QED
        BY <2>0, <2>1, <3>1 DEF Store!Next, Store!Request
    <2>5. CASE WriteNetParam
      <3>1. ee' = [i \in Cells |-> mem[i]]
        BY <2>5 DEF WriteNetParam, Cells, Acknowledged
      <3>2. ee' [1] \in Addrs /\ Conf(ee') = Conf(mem)
        BY <2>5, <3>1 DEF WriteNetParam, Addressed, Cells, Conf
      <3>3. ~HexIsEmpty(ee')
        BY <3>2, AddressNotEmpty
      <3>4. pc = "write" /\ pc' = "twr" /\ mem' = mem
        BY <2>5 DEF WriteNetParam
      <3>5. Durable' = Conf(mem) /\ Requested' = Conf(mem) /\ Requested = Conf(mem)
        BY <3>2, <3>3, <3>4
      <3> QED
        BY <2>0, <3>5 DEF Store!Next, Store!Commit
    <2>6. CASE WriteCycle
      BY <2>1, <2>6 DEF WriteCycle, Conf
    <2>7. CASE SetCurNetCfg
      <3>1. UNCHANGED ee /\ pc = "apply" /\ pc' = "run"
        BY <2>7 DEF SetCurNetCfg
      <3>2. ee[1] \in Addrs /\ Conf(ee) = Conf(mem)
        BY <3>1 DEF Agreement, Addressed, Conf
      <3>3. Durable = Conf(mem) /\ Requested = Conf(mem) /\ Requested' = Null
        BY <3>1, <3>2, AddressNotEmpty
      <3> QED
        BY <2>0, <2>1, <3>1, <3>3 DEF Store!Next, Store!Finish
    <2>8. CASE SetNetCfg
      <3>1. UNCHANGED ee /\ pc = "set" /\ pc' \in {"write", "run"}
        BY <2>8 DEF SetNetCfg
      <3> QED
        BY <2>0, <2>1, <3>1 DEF Store!Next, Store!Request
    <2>9. CASE ClearState
      <3>1. UNCHANGED <<ee, pc>> /\ Conf(mem)' = Conf(mem)
        BY <2>9 DEF ClearState, ParTypeOK, Block, Cells, Conf
      <3> QED
        BY <2>1, <3>1
    <2> QED
      BY <2>2, <2>3, <2>4, <2>5, <2>6, <2>7, <2>8, <2>9 DEF ParNext
  <1> QED
    BY <1>1, <1>2, ParamTypes, AgreementInvariant, AddressedInvariant, PTL
    DEF ParSpec, RefinesStore, Store!Spec
=============================================================================
