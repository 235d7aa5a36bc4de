--------------------------- MODULE MCGatewayReactor ---------------------------
(* GatewayReactor for TLC.                                                   *)
EXTENDS GatewayReactor

CONSTANT Rude   \* connections whose clients send bad input, hang up and stall

\* The other clients send well-formed requests and stay.
MCClient ==
    \/ \E c \in Conns : ClientConnects(c) \/ ClientSends(c, "req")
    \/ \E c \in Rude : ClientDrains(c) \/ Ages(c) \/ \E u \in Unit : ClientSends(c, u)
    \/ \E c \in Rude, how \in {"eof", "reset"} : ClientLeaves(c, how)

MCNext == System \/ (MCClient /\ UNCHANGED max_connections)

MCFairSpec == Init /\ [][MCNext]_vars /\ Fairness
=============================================================================
