---- MODULE SessionPromise ----
(***************************************************************************)
(* What a WebSocket session promises its client: a request it sends is     *)
(* answered by the gateway or goes to its own node, to no other and once;  *)
(* what comes back is passed on, once; and none is lost on the way unless  *)
(* the session is at its end, or the request's node is.  No goroutines, no *)
(* channel, no connections, no ids.                                        *)
(***************************************************************************)

CONSTANTS
  Requests,
  Nodes,
  Node        \* of each request, the node it is for

VARIABLES
  stage,      \* how far each request has come
  session,    \* up, ending (the gateway is leaving), down (the client is gone)
  broken      \* the nodes whose connection is lost, or was never there

Init ==
  /\ stage \in [Requests -> {"client", "nowhere"}]
  /\ session = "up"
  /\ broken \in SUBSET Nodes

Move(r, from, to) ==
  /\ stage[r] = from
  /\ stage' = [stage EXCEPT ![r] = to]
  /\ UNCHANGED <<session, broken>>

(* The gateway takes the request, or has the answer at once.               *)
Accept(r) == Move(r, "client", "accepted") \/ Move(r, "client", "answer")
Settle(r) == Move(r, "accepted", "answer")

Forward(r) == Node[r] \notin broken /\ Move(r, "accepted", "node")
Return(r)  == Move(r, "node", "answer")
Deliver(r) == session # "down" /\ Move(r, "answer", "answered")

(* What is on its way to a node whose connection is lost may get lost.     *)
Lose(r) == Node[r] \in broken /\ Move(r, "accepted", "nowhere")

Break(c) ==
  /\ broken' = broken \cup {c}
  /\ UNCHANGED <<stage, session>>

(* At its end the session loses what the gateway has in hand, all of it or *)
(* one by one, and the connections to the nodes.                           *)
Ends == [up |-> {"ending", "down"}, ending |-> {"ending", "down"}, down |-> {"down"}]
End(s, lost, breaks) ==
  /\ s \in Ends[session]
  /\ session' = s
  /\ \A r \in lost : stage[r] \in {"accepted", "answer"}
  /\ stage' = [r \in Requests |-> IF r \in lost THEN "nowhere" ELSE stage[r]]
  /\ broken' = broken \cup breaks

Next ==
  \/ \E r \in Requests :
       Accept(r) \/ Settle(r) \/ Forward(r) \/ Return(r) \/ Deliver(r) \/ Lose(r)
  \/ \E c \in Nodes : Break(c)
  \/ \E s \in {"ending", "down"}, lost \in SUBSET Requests, breaks \in SUBSET Nodes :
       End(s, lost, breaks)

Spec == Init /\ [][Next]_<<stage, session, broken>>
====
