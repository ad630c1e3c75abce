----------------------------- MODULE NetSession -----------------------------
(****************************************************************************)
(* What the connection controller promises, whatever threads it takes: the  *)
(* board has at most one connection up; a connection that is over holds its *)
(* client, event and threads until they are released, and only then may the *)
(* client object serve another connection.                                  *)
(****************************************************************************)
CONSTANT Clients
VARIABLE st         \* st[c]: "idle", "up" or "ending"

Init == st = [c \in Clients |-> "idle"]

Open(c) ==
    /\ st[c] = "idle" /\ \A d \in Clients : st[d] # "up"
    /\ st' = [st EXCEPT ![c] = "up"]

Over(c) ==
    /\ st[c] = "up"
    /\ st' = [st EXCEPT ![c] = "ending"]

Release(c) ==
    /\ st[c] = "ending"
    /\ st' = [st EXCEPT ![c] = "idle"]

Next == \E c \in Clients : Open(c) \/ Over(c) \/ Release(c)

Spec == Init /\ [][Next]_st

FairSpec == Spec /\ \A c \in Clients : WF_st(Release(c))
=============================================================================
