------------------------------ MODULE LossyFifo ------------------------------
(****************************************************************************)
(* What a receive buffer promises its reader: the characters that arrive    *)
(* are numbered 1, 2, 3, ...; each is delivered at most once and in order,  *)
(* and one is lost only when Cap later ones have arrived before it is read. *)
(****************************************************************************)
EXTENDS Integers

CONSTANT Cap

VARIABLES sent, last      \* number of the last character arrived, delivered

LossyInit == sent = 0 /\ last = 0

Arrive == sent' = sent + 1 /\ UNCHANGED last

Deliver ==
    /\ last < sent
    /\ last' = (IF last + Cap < sent THEN sent - Cap ELSE last) + 1
    /\ UNCHANGED sent

LossyNext == Arrive \/ Deliver

LossySpec == LossyInit /\ [][LossyNext]_<<sent, last>>
=============================================================================
