--------------------------- MODULE MCClientManager ---------------------------
(***************************************************************************)
(* ClientManager for TLC: two peers, either of which can be absent or have *)
(* one of two addresses, two [client] sections, or none.                   *)
(***************************************************************************)
EXTENDS ClientManager

MCNames == {"a", "b"}

Cfg(node, client, a, b) ==
    [node |-> node, client |-> client, peers |-> [n \in MCNames |-> IF n = "a" THEN a ELSE b]]

\* Peer b keeps its address.  The reload that changes [client] renames the
\* node too.
MCConfigs ==
    {Cfg(node[1], node[2], a, b) : node \in {<<"n", "absent">>, <<"n", "slow">>, <<"m", "fast">>},
                                   a \in {"absent", "h1", "h2"}, b \in {"absent", "h1"}}
=============================================================================
