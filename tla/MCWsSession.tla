---- MODULE MCWsSession ----
(***************************************************************************)
(* WsSession for TLC: a cacheable request for the main node, one for the   *)
(* archive node and a batch: the first two in one session, or the third.   *)
(***************************************************************************)
EXTENDS WsSession

MCRequests == {"balance", "trace", "batch"}
MCSessions == {{"balance", "trace"}, {"batch"}}

MCCall == [r \in MCRequests |->
  [batch |-> r = "batch", erigon |-> r = "trace", cacheable |-> r = "balance"]]

(* The usual ids of a client: numbers counted from 0.                      *)
MCClientId == [r \in MCRequests |->
  <<"float64", IF r = "balance" THEN 0 ELSE IF r = "trace" THEN 1 ELSE 2>>]
====
