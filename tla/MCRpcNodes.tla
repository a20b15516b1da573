---- MODULE MCRpcNodes ----
(***************************************************************************)
(* RpcNodes for TLC: two nodes, the second without a WebSocket.            *)
(***************************************************************************)
EXTENDS RpcNodes

MCEndpoints == [n \in Nodes |-> IF n = 1 THEN {"http", "second"} ELSE {"http"}]
====
