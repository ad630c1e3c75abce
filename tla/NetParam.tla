------------------------------ MODULE NetParam ------------------------------
(****************************************************************************)
(* The communication parameters: the block g_paramNet in memory, its copy   *)
(* in the EEPROM (src/applications/usrParam.cpp, at24cxx.c), the boot that  *)
(* reads it back, the shell command eth_set that changes it and the monitor *)
(* that consumes its state flag.  The board may be reset between any two    *)
(* steps.                                                                   *)
(*                                                                          *)
(* A block is a sequence of cells in the order of struct rt_netparam.  The  *)
(* values 0 and Ones stand for a cell whose bytes are all 0x00 or all 0xFF. *)
(****************************************************************************)
EXTENDS Naturals, Sequences

CONSTANTS
    Addrs,      \* ip, gateway, netmask and connection type, as one cell
    Servers,    \* address and port of the server
    PortArgs,   \* numbers typed after "eth_set port"
    DefAddr, DefServer,   \* DEF_IP_ADDR ... and DEF_SER_IP_ADDR ...
    Junk,       \* what an uninitialised byte may hold
    Faults,     \* "nodev", "nack_read", "nack_write"
    Null

Ones == 65535
Cells == 1..4                     \* addresses, localPort, server, state
Block == {b \in [Cells -> Nat] : b[2] <= Ones}    \* localPort has 16 bits

ASSUME ParamsOK ==
    /\ Addrs \subseteq Nat /\ Servers \subseteq Nat
    /\ PortArgs \subseteq Nat
    /\ DefAddr \in Addrs /\ DefServer \in Servers
    /\ {0, Ones} \intersect (Addrs \union Servers) = {}
    /\ Faults \subseteq {"nodev", "nack_read", "nack_write"}

ASSUME JunkOK == Junk \subseteq Nat /\ \A j \in Junk : j <= Ones
ASSUME NullOK == Null \notin Nat \X Nat \X Nat

VARIABLES
    pc,      \* the thread that boots, later the shell
    dev,     \* AT24cxx_HDL # RT_NULL
    mem,     \* g_paramNet
    cfg,     \* eth_set's copy of it
    ee,      \* the block in the EEPROM
    ver,     \* the version record in the EEPROM
    nif,     \* the address the network interface uses
    up       \* the tasks run: the boot has got past initNetParam

parVars == <<pc, dev, mem, cfg, ee, ver, nif, up>>

ZeroBlock == [i \in Cells |-> 0]

\* Everything but the state flag.
Conf(b) == <<b[1], b[2], b[3]>>

\* Every variable has its type; a local port has 16 bits wherever it is kept.
ParTypeOK ==
    /\ pc \in {"ver", "verwr", "load", "read", "write", "twr", "apply", "run",
               "set", "assert"}
    /\ dev \in BOOLEAN
    /\ mem \in Block /\ cfg \in Block /\ ee \in Block
    /\ ver \in {"other", "current"}
    /\ nif \in Nat /\ up \in BOOLEAN

\* HexIsEmpty(block, 0xFF) or HexIsEmpty(block, 0x00).
HexIsEmpty(b) == (\A i \in Cells : b[i] = Ones) \/ (\A i \in Cells : b[i] = 0)

\* loadDefNetParam leaves the state flag as it is.
LoadDefNetParam(b) == [b EXCEPT ![1] = DefAddr, ![2] = 0, ![3] = DefServer]

\* A reset: memory is cleared, taski2c3_ini makes the device anew.
Boot ==
    /\ pc' = "ver"
    /\ dev' \in BOOLEAN /\ (~dev' => "nodev" \in Faults)
    /\ mem' = ZeroBlock /\ cfg' = ZeroBlock /\ nif' = 0 /\ up' = FALSE

\* The first power-up: an erased or zeroed EEPROM, or one with a block in it.
ParInit ==
    /\ pc = "ver"
    /\ dev \in BOOLEAN /\ (~dev => "nodev" \in Faults)
    /\ mem = ZeroBlock /\ cfg = ZeroBlock /\ nif = 0 /\ up = FALSE
    /\ ee \in {ZeroBlock, [i \in Cells |-> Ones]}
              \union {<<a, 0, s, 0>> : a \in Addrs, s \in Servers}
    /\ ver = "other"

Reset == Boot /\ UNCHANGED <<ee, ver>>

-----------------------------------------------------------------------------
(* The boot.                                                                 *)

\* loadSoftVersion: at24cxx_read asserts its device; another version record,
\* or none, is replaced.  (The clearing of the data is left to the user.)
LoadSoftVersion ==
    /\ pc = "ver"
    /\ pc' = CASE ~dev -> "assert"
               [] dev /\ ver = "current" -> "load"
               [] OTHER -> "verwr"
    /\ UNCHANGED <<dev, mem, cfg, ee, ver, nif, up>>

WriteSoftVersion ==
    /\ pc = "verwr"
    /\ ver' = "current" /\ pc' = "load"
    /\ UNCHANGED <<dev, mem, cfg, ee, nif, up>>

\* initNetParam, first line.
LoadDef ==
    /\ pc = "load"
    /\ mem' = LoadDefNetParam(mem) /\ pc' = "read"
    /\ UNCHANGED <<dev, cfg, ee, ver, nif, up>>

\* at24cxx_read, byte by byte: a transfer the chip does not acknowledge gives
\* an uninitialised byte, and RT_EOK all the same.
Received(i) == {ee[i]} \union (IF "nack_read" \in Faults THEN Junk ELSE {})

\* readNetParam: an empty block is replaced by the defaults, and saved.
ReadNetParam ==
    /\ pc = "read"
    /\ \E a \in Received(1), p \in Received(2), s \in Received(3), f \in Received(4) :
          LET b == <<a, p, s, f>>
          IN /\ mem' = IF HexIsEmpty(b) THEN LoadDefNetParam(b) ELSE b
             /\ pc' = IF HexIsEmpty(b) THEN "write" ELSE "apply"
    /\ UNCHANGED <<dev, cfg, ee, ver, nif, up>>

-----------------------------------------------------------------------------
(* Saving and applying, at boot and after eth_set.                           *)

\* Mutant: the block is written byte by byte (at24cxx_write).
WriteNetParam_Bytes ==
    /\ pc = "write"
    /\ \E i \in Cells :
          /\ \A j \in 1..(i - 1) : ee[j] = mem[j]
          /\ ee' = [ee EXCEPT ![i] = mem[i]]
          /\ pc' = IF i = 4 THEN "twr" ELSE "write"
    /\ UNCHANGED <<dev, mem, cfg, ver, nif, up>>

\* writeNetParam: one page write.  The chip collects the bytes and programs
\* them at the stop condition, so a reset in the transfer changes nothing; a
\* missing acknowledge ends the transfer, and the cells sent are programmed.
WriteNetParam ==
    /\ pc = "write"
    /\ \E n \in {4} \union (IF "nack_write" \in Faults THEN 0..3 ELSE {}) :
          ee' = [i \in Cells |-> IF i <= n THEN mem[i] ELSE ee[i]]
    /\ pc' = "twr"
    /\ UNCHANGED <<dev, mem, cfg, ver, nif, up>>

\* The 5 ms of the write cycle.
WriteCycle ==
    /\ pc = "twr" /\ pc' = "apply"
    /\ UNCHANGED <<dev, mem, cfg, ee, ver, nif, up>>

\* Mutant: the interface keeps its address.
SetCurNetCfg_NoNetdev ==
    /\ pc = "apply" /\ pc' = "run"
    /\ up' = TRUE
    /\ UNCHANGED <<dev, mem, cfg, ee, ver, nif>>

\* setCurNetCfg, as far as the interface is concerned; the connection is
\* modelled in NetCtrl.
SetCurNetCfg ==
    /\ pc = "apply" /\ pc' = "run"
    /\ nif' = mem[1] /\ up' = TRUE
    /\ UNCHANGED <<dev, mem, cfg, ee, ver>>

-----------------------------------------------------------------------------
(* The shell command eth_set and the monitor's state flag.                   *)

\* (rt_uint16_t)(((port) & ~0xc000) + 0xc000): never 0.
EnsureLocalPortRange(port) == ((port % 16384) + 49152) % 65536

\* Mutant: the number is not cut to 16 bits.
ParsedPort_Wide(n) == n

\* port = atoi(argv[2]), an rt_uint16_t.
ParsedPort(n) == n % 65536

\* eth_set copies the block and changes one field of the copy.
EthSet ==
    /\ pc = "run"
    /\ \/ \E a \in Addrs : cfg' = [mem EXCEPT ![1] = a]
       \/ \E s \in Servers : cfg' = [mem EXCEPT ![3] = s]
       \/ \E n \in PortArgs :
             LET port == ParsedPort(n)
             IN /\ port # 0 /\ EnsureLocalPortRange(port) # 0
                /\ cfg' = [mem EXCEPT ![2] = port]
    /\ pc' = "set"
    /\ UNCHANGED <<dev, mem, ee, ver, nif, up>>

\* Mutant: a changed block is applied and not saved.
SetNetCfg_NoSave ==
    /\ pc = "set"
    /\ mem' = cfg
    /\ pc' = IF cfg # mem THEN "apply" ELSE "run"
    /\ UNCHANGED <<dev, cfg, ee, ver, nif, up>>

\* setNetCfg: the copy becomes the block; if it differs it is saved.
SetNetCfg ==
    /\ pc = "set"
    /\ mem' = cfg
    /\ pc' = IF cfg # mem THEN "write" ELSE "run"
    /\ UNCHANGED <<dev, cfg, ee, ver, nif, up>>

\* taskEth_entry clears the flag, at any moment once the tasks run.
ClearState ==
    /\ up /\ mem[4] # 0
    /\ mem' = [mem EXCEPT ![4] = 0]
    /\ UNCHANGED <<pc, dev, cfg, ee, ver, nif, up>>

-----------------------------------------------------------------------------
ParNext ==
    \/ Reset \/ LoadSoftVersion \/ WriteSoftVersion \/ LoadDef \/ ReadNetParam
    \/ WriteNetParam \/ WriteCycle \/ SetCurNetCfg
    \/ EthSet \/ SetNetCfg \/ ClearState

ParSpec == ParInit /\ [][ParNext]_parVars

-----------------------------------------------------------------------------
(* Properties.                                                               *)

\* The block the next boot comes up with, and the request being carried out.
Durable == IF HexIsEmpty(ee) THEN <<DefAddr, 0, DefServer>> ELSE Conf(ee)
Requested == IF pc \in {"write", "twr", "apply"} THEN Conf(mem) ELSE Null
Store == INSTANCE ParamStore WITH
            val <- Durable, req <- Requested, Blocks <- Nat \X Nat \X Nat

\* A reset at any moment leaves the old or the new block, never a mixture, and
\* a boot never changes the parameters it finds (readNetParam, writeNetParam).
RefinesStore == Store!Spec

\* Whenever the board runs and no eth_set is in progress, the parameters in
\* memory are the ones the next boot will read from the EEPROM.
MemoryMatchesStore == pc = "run" => Conf(mem) = Conf(ee)

\* ... and the interface uses the address among them, through changes and
\* resets.
AddressApplied == pc = "run" => nif = mem[1]
=============================================================================
