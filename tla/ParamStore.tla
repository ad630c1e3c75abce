----------------------------- MODULE ParamStore -----------------------------
(****************************************************************************)
(* What the stored communication parameters promise: the block the next     *)
(* boot will use changes only as a whole, to a block that was asked for; a  *)
(* reset may drop the request in progress, and nothing else.                *)
(****************************************************************************)
CONSTANTS Blocks, Null

VARIABLES val, req

Init == val \in Blocks /\ req = Null

Request == req = Null /\ req' \in Blocks /\ UNCHANGED val
Commit == req # Null /\ val' = req /\ UNCHANGED req
Finish == req # Null /\ val = req /\ req' = Null /\ UNCHANGED val
Reset == req' = Null /\ UNCHANGED val

Next == Request \/ Commit \/ Finish \/ Reset

Spec == Init /\ [][Next]_<<val, req>>
=============================================================================
