----------------------------- MODULE MCNetParam -----------------------------
(****************************************************************************)
(* Instances of NetParam for TLC.                                           *)
(****************************************************************************)
EXTENDS NetParam
=============================================================================
