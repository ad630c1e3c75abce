------------------------------ MODULE MCNetCtrl ------------------------------
(****************************************************************************)
(* Instances of NetCtrl for TLC.                                            *)
(****************************************************************************)
EXTENDS NetCtrlInv, TLC

CONSTANTS tasketh, tshell, c1, c2, c3

Sym == Permutations(Clients)

\* One thread makes every call.
OneCaller == tshell :> OpNames
\* ... without send(), which is unsafe once a session has ended.
OneCallerNoSend == tshell :> OpNames \ {"send"}
\* The monitor and the shell as they are.
TwoCallers == tasketh :> {"keep"} @@ tshell :> {"disconnect"}
KeepAndSet == tasketh :> {"keep"} @@ tshell :> {"set"}
TwoConnect == tasketh :> {"keep"} @@ tshell :> {"connect", "disconnect"}
=============================================================================
