------------------------------- MODULE Sampler -------------------------------
(****************************************************************************)
(* The task taski2c1_entry: it selects a channel of the ADS1115, takes      *)
(* MaxSamp samples of it, and goes on to the next channel.  Every transfer  *)
(* on the I2C bus may fail.  A sample is represented by the channel it was  *)
(* converted from.                                                          *)
(****************************************************************************)
EXTENDS Integers

CONSTANTS
    Chls,        \* MAX_ADS1115_CHL: the channels are 0..(Chls - 1)
    MaxSamp      \* MAX_SAMP_CNT

ASSUME SamplerOK == Chls \in Nat \ {0} /\ MaxSamp \in Nat \ {0}

VARIABLES
    adsDev,                \* TRUE: ads111x_init has found the bus
    adsPc, cnt, chl, rtn,  \* the task; chl is its i, rtn = TRUE is RT_EOK
    ptr, mux,              \* the chip: pointer register, selected input
    conv,                  \* the input of its last conversion
    result                 \* the value ads111x_readAD returned last

adsVars == <<adsDev, adsPc, cnt, chl, rtn, ptr, mux, conv, result>>

Zero == -1       \* the number 0, which stands for a failure
Other == Chls    \* an input the task does not select, or no sample at all

\* No more samples are taken than asked for, and the channel is in the table.
AdsTypeOK ==
    /\ adsDev \in BOOLEAN /\ rtn \in BOOLEAN
    /\ adsPc \in {"top", "delay", "sample", "point", "read", "next"}
    /\ cnt \in 0..MaxSamp /\ chl \in 0..(Chls - 1)
    /\ ptr \in {"conf", "data"}
    /\ mux \in 0..Chls /\ conv \in 0..Chls /\ result \in -1..Chls

AdsInit ==
    /\ adsDev \in BOOLEAN
    /\ adsPc = "top" /\ cnt = 0 /\ chl = 0 /\ rtn = TRUE
    /\ ptr = "data" /\ mux = Other /\ conv = Other /\ result = Zero

\* ads111x_config; a transfer that fails may have reached the chip or not.
AdsConfig ==
    /\ adsPc = "top" /\ cnt = 0
    /\ \/ /\ adsDev /\ rtn' = TRUE
          /\ mux' = chl /\ ptr' = "conf"
       \/ /\ adsDev /\ rtn' = FALSE
          /\ mux' \in {mux, chl} /\ ptr' \in {ptr, "conf"}
       \/ ~adsDev /\ rtn' = FALSE /\ UNCHANGED <<mux, ptr>>
    /\ adsPc' = "delay"
    /\ UNCHANGED <<adsDev, cnt, chl, conv, result>>

AdsNoConfig ==
    /\ adsPc = "top" /\ cnt # 0
    /\ adsPc' = "sample"
    /\ UNCHANGED <<adsDev, cnt, chl, rtn, ptr, mux, conv, result>>

\* Mutant: the task does not wait for the first conversion.
AdsDelay_None ==
    /\ adsPc = "delay" /\ adsPc' = "sample"
    /\ conv' \in {conv, mux}
    /\ UNCHANGED <<adsDev, cnt, chl, rtn, ptr, mux, result>>

\* One second, in which the chip (128 conversions per second) converts.
AdsDelay ==
    /\ adsPc = "delay" /\ adsPc' = "sample"
    /\ conv' = mux
    /\ UNCHANGED <<adsDev, cnt, chl, rtn, ptr, mux, result>>

AdsSample ==
    /\ adsPc = "sample" /\ rtn
    /\ cnt' = cnt + 1 /\ adsPc' = "point"
    /\ UNCHANGED <<adsDev, chl, rtn, ptr, mux, conv, result>>

\* ads111x_readAD selects the data register ...
AdsPoint ==
    /\ adsPc = "point"
    /\ \/ ptr' = "data" /\ adsPc' = "read" /\ UNCHANGED result
       \/ ptr' \in {ptr, "data"} /\ adsPc' = "next" /\ result' = Zero
    /\ UNCHANGED <<adsDev, cnt, chl, rtn, mux, conv>>

\* ... and reads it.
AdsRead ==
    /\ adsPc = "read" /\ adsPc' = "next"
    /\ \/ result' = IF ptr = "data" THEN conv ELSE Other
       \/ result' = Zero
    /\ UNCHANGED <<adsDev, cnt, chl, rtn, ptr, mux, conv>>

\* Mutant: an error leaves the task on its channel.
AdsNextChannel_Stay ==
    /\ adsPc = "next" \/ (adsPc = "sample" /\ ~rtn)
    /\ IF rtn /\ cnt >= MaxSamp
       THEN cnt' = 0 /\ chl' = (chl + 1) % Chls
       ELSE UNCHANGED <<cnt, chl>>
    /\ adsPc' = "top"
    /\ UNCHANGED <<adsDev, rtn, ptr, mux, conv, result>>

\* The end of the loop body: the next channel after an error or enough samples.
AdsNextChannel ==
    /\ adsPc = "next" \/ (adsPc = "sample" /\ ~rtn)
    /\ IF ~rtn \/ cnt >= MaxSamp
       THEN cnt' = 0 /\ chl' = (chl + 1) % Chls
       ELSE UNCHANGED <<cnt, chl>>
    /\ adsPc' = "top"
    /\ UNCHANGED <<adsDev, rtn, ptr, mux, conv, result>>

AdsNext ==
    \/ AdsConfig \/ AdsNoConfig \/ AdsDelay \/ AdsSample
    \/ AdsPoint \/ AdsRead \/ AdsNextChannel

AdsSpec == AdsInit /\ [][AdsNext]_adsVars

\* The task is the only one of its module and is scheduled.
AdsFair == WF_adsVars(AdsNext)

-----------------------------------------------------------------------------
(* Properties.                                                               *)

\* A value reported for a channel is a sample of that channel, or the zero of
\* a failed read: whatever transfers failed since the channel was selected,
\* it is no sample of the channel before, and not another register.
AdsSampleOfChannel == adsPc = "next" => result \in {chl, Zero}

\* Failing transfers do not keep the task on a channel.
AdsEveryChannel == \A c \in 0..(Chls - 1) : []<>(chl = c)
=============================================================================
