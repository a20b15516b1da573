---- MODULE RpcNodes ----
(***************************************************************************)
(* The nodes behind an /rpc/ endpoint: RpcHandler of                       *)
(* pkg/handler/rpcHandler.go.  One goroutine, the checker, asks every node *)
(* in turn for its block number and, when it has asked them all, stores    *)
(* who is healthy, one atomic flag at a time.  Requests scan the flags     *)
(* meanwhile, one atomic load at a time, and go to the first node whose    *)
(* flag is up.  The errors the checker counts for metrics are left out.    *)
(*                                                                         *)
(* A node has two endpoints: http, and a second one that is its WebSocket  *)
(* or, on Tron, its extra write API.                                       *)
(*                                                                         *)
(* An operator whose name ends in an underscore and a word is a slip this  *)
(* code could have had; it is used by no definition.                       *)
(***************************************************************************)
EXTENDS Integers, FiniteSets, FiniteSetsExt

CONSTANTS
  Last,       \* the nodes of the chain are 1 to Last, as they are configured
  Endpoints,  \* of each node: the endpoints it has a URL for
  Tron,       \* TRUE: the chain's type is tron
  MaxBehind,  \* MaxBehindBlocks of the configuration
  MaxHead     \* bound of the model: the last block of the chain

Nodes == 1 .. Last

ASSUME NodesAssumption == Last \in Nat \ {0}
ASSUME EndpointsAssumption ==
  Endpoints \in [Nodes -> SUBSET {"http", "second"}] /\ Tron \in BOOLEAN
ASSUME BoundsAssumption == MaxBehind \in Nat /\ MaxHead \in Nat \ {0}

Endpoint == {"http", "second"}

VARIABLES
  head,     \* the last block of the chain
  height,   \* the last block of each node, as its endpoints know it
  up,       \* the nodes that answer
  healthy,  \* the flags HttpHealth and WsHealth or ExtraWriteHealth
  block,    \* the checker's block numbers of this round, 0 if not known
  pc,       \* what the checker does next: ask, store or sleep
  at,       \* the node it does it to
  scan,     \* the request that is looking for a node
  since,    \* history: the head when the round began
  synced,   \* history: nodes ready when their turn came in this round
  steady    \* history: nodes whose flag was up all through the scan

chain   == <<head, height, up>>
checker == <<block, pc, at, since, synced>>
request == <<scan, steady>>
vars == <<chain, healthy, checker, request>>

Unknown == [n \in Nodes |-> 0]
None == 0                              \* no node

(* A request: idle; about to load the flag of a node; served by a node.    *)
Idle == [pc |-> "idle", want |-> "http", node |-> None]
Scan == [pc : {"idle", "scan", "served"}, want : Endpoint, node : Nodes \cup {None}]
----
Init ==
  /\ head = 1
  /\ height = [e \in Endpoint |-> [n \in Nodes |-> 1]]
  /\ up = Nodes
  /\ healthy = [e \in Endpoint |-> [n \in Nodes |-> e \in Endpoints[n]]]
  /\ block = [e \in Endpoint |-> Unknown]
  /\ pc = "ask http"
  /\ at = 1
  /\ scan = Idle
  /\ since = 1
  /\ synced = {}
  /\ steady = {}
----
(* The checker asks.                                                       *)

(* A slip: one node too many.                                              *)
Onward_Past(here, next) ==
  IF at > Last THEN pc' = next /\ at' = 1 ELSE pc' = here /\ at' = at + 1

(* The node after this one, or else the first of the next thing to do.     *)
Onward(here, next) ==
  IF at = Last THEN pc' = next /\ at' = 1 ELSE pc' = here /\ at' = at + 1

(* A slip: a node that is down is not asked.                               *)
Answers_Healthy(n, e) == n \in up /\ e \in Endpoints[n] /\ healthy[e][n]

(* A node without an http endpoint is asked there all the same, unless on  *)
(* Tron; it does not answer.                                               *)
Answers(n, e) == n \in up /\ e \in Endpoints[n]

(* The http endpoint of a node is there and has the last block.            *)
Ready(n) ==
  n \in up /\ "http" \in Endpoints[n] /\ height["http"][n] = head

AskHttp ==
  /\ pc = "ask http"
  /\ block' = IF Answers(at, "http")
              THEN [block EXCEPT !["http"][at] = height["http"][at]] ELSE block
  /\ synced' = IF Ready(at) THEN synced \cup {at} ELSE synced
  /\ IF Answers(at, "http") \/ (Tron /\ "http" \notin Endpoints[at])
     THEN pc' = "ask second" /\ UNCHANGED at
     ELSE Onward("ask http", "store http")
  /\ UNCHANGED <<since, chain, healthy, request>>

(* A WebSocket that is behind its own node's http endpoint does not count. *)
Credible(n) == Tron \/ height["second"][n] >= block["http"][n]

AskSecond ==
  /\ pc = "ask second"
  /\ block' = IF Answers(at, "second") /\ Credible(at)
              THEN [block EXCEPT !["second"][at] = height["second"][at]] ELSE block
  /\ Onward("ask http", "store http")
  /\ UNCHANGED <<since, synced, chain, healthy, request>>
----
(* The checker stores.                                                     *)

(* A slip: the best block of one kind of endpoint only.                    *)
Best_Second == Max({block["second"][n] : n \in Nodes})

Best == Max({block[e][n] : e \in Endpoint, n \in Nodes})

(* Slips: a node must have the best block of all; a wrong sign.            *)
KeepsUp_Strict(e, n) == block[e][n] >= Best
KeepsUp_Ahead(e, n) == block[e][n] >= Best + MaxBehind

KeepsUp(e, n) == block[e][n] >= Best - MaxBehind

Store(e) ==
  /\ healthy' = [healthy EXCEPT ![e][at] = KeepsUp(e, at)]
  /\ steady' = IF scan.want = e /\ ~KeepsUp(e, at) THEN steady \ {at} ELSE steady

StoreHttp ==
  /\ pc = "store http"
  /\ Store("http")
  /\ pc' = "store second"
  /\ UNCHANGED <<block, at, since, synced, chain, scan>>

StoreSecond ==
  /\ pc = "store second"
  /\ Store("second")
  /\ Onward("store http", "sleep")
  /\ UNCHANGED <<block, since, synced, chain, scan>>

(* A minute later everything is asked anew.                                *)
Wake ==
  /\ pc = "sleep"
  /\ pc' = "ask http"
  /\ block' = [e \in Endpoint |-> Unknown]
  /\ since' = head
  /\ synced' = {}
  /\ UNCHANGED <<at, chain, healthy, request>>
----
(* A request looks for a node.                                             *)

Begin(e) ==
  /\ scan = Idle
  /\ scan' = [pc |-> "scan", want |-> e, node |-> 1]
  /\ steady' = {n \in Nodes : healthy[e][n]}
  /\ UNCHANGED <<chain, healthy, checker>>

(* One flag is loaded.  A slip: the scan stops before the last node.       *)
Load_Short ==
  /\ scan.pc = "scan"
  /\ scan' = IF healthy[scan.want][scan.node] THEN [scan EXCEPT !.pc = "served"]
             ELSE IF scan.node + 1 < Last THEN [scan EXCEPT !.node = @ + 1]
             ELSE [scan EXCEPT !.pc = "served", !.node = None]
  /\ UNCHANGED <<chain, healthy, checker, steady>>

Load ==
  /\ scan.pc = "scan"
  /\ scan' = IF healthy[scan.want][scan.node] THEN [scan EXCEPT !.pc = "served"]
             ELSE IF scan.node < Last THEN [scan EXCEPT !.node = @ + 1]
             ELSE [scan EXCEPT !.pc = "served", !.node = None]
  /\ UNCHANGED <<chain, healthy, checker, steady>>

Leave ==
  /\ scan.pc = "served"
  /\ scan' = Idle
  /\ steady' = {}
  /\ UNCHANGED <<chain, healthy, checker>>
----
(* The chain grows; nodes follow it, one endpoint before the other, fail   *)
(* and come back.                                                          *)

Grow ==
  /\ head < MaxHead
  /\ head' = head + 1
  /\ UNCHANGED <<height, up, healthy, checker, request>>

Follow(e, n) ==
  /\ e \in Endpoints[n] /\ height[e][n] < head
  /\ height' = [height EXCEPT ![e][n] = head]
  /\ UNCHANGED <<head, up, healthy, checker, request>>

Flip(n) ==
  /\ up' = IF n \in up THEN up \ {n} ELSE up \cup {n}
  /\ UNCHANGED <<head, height, healthy, checker, request>>

Checker == AskHttp \/ AskSecond \/ StoreHttp \/ StoreSecond \/ Wake

Next ==
  \/ Checker
  \/ \E e \in Endpoint : Begin(e)
  \/ Load \/ Leave
  \/ Grow
  \/ \E n \in Nodes : Flip(n) \/ \E e \in Endpoint : Follow(e, n)

Spec == Init /\ [][Next]_vars

(* The checker goes on: whichever node it asks answers or fails, and it    *)
(* wakes up.  The probes of the code have no timeout: one that hangs stops *)
(* the checker for ever, and this is assumed not to happen.                *)
FairSpec == Spec /\ WF_vars(Checker)
----
(* The types of the variables.                                             *)
TypeOK ==
  /\ head \in 1 .. MaxHead
  /\ height \in [Endpoint -> [Nodes -> 1 .. MaxHead]]
  /\ up \subseteq Nodes
  /\ healthy \in [Endpoint -> [Nodes -> BOOLEAN]]
  /\ block \in [Endpoint -> [Nodes -> 0 .. MaxHead]]
  /\ pc \in {"ask http", "ask second", "store http", "store second", "sleep"}
  /\ at \in Nodes
  /\ scan \in Scan
  /\ since \in 1 .. MaxHead
  /\ synced \subseteq Nodes
  /\ steady \subseteq Nodes

Judged == pc = "sleep"

(* Whatever fails, a round never turns every endpoint of every node down:  *)
(* the one that gave the best block is left.                               *)
SomeoneServes == Judged => \E e \in Endpoint, n \in Nodes : healthy[e][n]

(* An endpoint that lags is not taken for healthy: when the round reached  *)
(* one node with the last block of the chain, the endpoints whose flag is  *)
(* up gave a block at most MaxBehind older than the chain's when it began; *)
(* in particular a WebSocket that lags while its node's http does not.     *)
LaggardsAreOut ==
  (Judged /\ synced # {}) =>
    \A e \in Endpoint, n \in Nodes :
      healthy[e][n] => block[e][n] >= since - MaxBehind

(* A node that has the last block when it is asked is not turned down      *)
(* because others are asked later, unless the chain grew by more than      *)
(* MaxBehind blocks in the round.                                          *)
LongRound == Best - since > MaxBehind
SyncedAreIn ==
  (Judged /\ ~LongRound) => \A n \in synced : healthy["http"][n]

(* A request is not turned away, nor sent to a later node, while a node's  *)
(* flag is up all the time it scans, whatever the checker stores meanwhile.*)
FirstSteady ==
  scan.pc = "served" =>
    \A n \in steady : scan.node # None /\ scan.node <= n

(* A node that was turned down and is ready again when its turn comes is   *)
(* back in service by the end of that round, on a chain that goes on       *)
(* growing too; unless the chain outgrew MaxBehind before the round ended, *)
(* which a round of slow probes may let it do every time.                  *)
Recovers ==
  \A n \in Nodes : n \in synced ~> healthy["http"][n] \/ LongRound
====
