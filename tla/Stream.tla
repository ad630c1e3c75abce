------------------------------- MODULE Stream --------------------------------
(****************************************************************************)
(* What a channel of bounded capacity promises: the items put in it are     *)
(* numbered 1, 2, 3, ...; at most Cap are on the way at any time, and all   *)
(* are taken, in order and once, no more than Batch of them in one step.    *)
(****************************************************************************)
EXTENDS Integers

CONSTANTS Cap, Batch

VARIABLES sent, taken     \* number of the last item put in, and taken out

StreamInit == sent = 0 /\ taken = 0

Put == \E n \in 1..Cap :
          sent + n - taken <= Cap /\ sent' = sent + n /\ UNCHANGED taken

Take == \E n \in 1..Batch :
          taken + n <= sent /\ taken' = taken + n /\ UNCHANGED sent

StreamNext == Put \/ Take

StreamSpec == StreamInit /\ [][StreamNext]_<<sent, taken>>
=============================================================================
