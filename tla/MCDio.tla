-------------------------------- MODULE MCDio --------------------------------
(****************************************************************************)
(* An instance of Dio for TLC.                                              *)
(****************************************************************************)
EXTENDS Dio
=============================================================================
