---- MODULE RpcNodesProofs ----
(***************************************************************************)
(* Proofs about RpcNodes, for any number of nodes, whatever endpoints they *)
(* have, on Tron or not, and any length of the chain: the types, what a    *)
(* round of the checker leaves healthy, and which node a request finds     *)
(* while the flags change under it.                                        *)
(***************************************************************************)
EXTENDS RpcNodes, Sums, TLAPS

(* A flag that was stored in this round says whether the node keeps up.    *)
Stored(e, n) == healthy[e][n] = KeepsUp(e, n)
Round ==
  /\ pc \in {"store http", "store second"} =>
       \A e \in Endpoint, n \in Nodes : n < at => Stored(e, n)
  /\ pc = "store second" => Stored("http", at)
  /\ pc = "sleep" => at = 1 /\ \A e \in Endpoint, n \in Nodes : Stored(e, n)

(* What is known of the nodes' blocks.                                     *)
Blocks ==
  /\ since <= head
  /\ \A n \in Nodes : block["http"][n] <= height["http"][n] /\ height["http"][n] <= head
  /\ \A n \in synced : block["http"][n] >= since

(* A request has gone past no node whose flag stayed up.                   *)
Scanned ==
  /\ scan.pc = "idle" => scan = Idle /\ steady = {}
  /\ \A n \in steady : healthy[scan.want][n] /\ scan.node # None /\ scan.node <= n
  /\ scan.pc = "scan" => scan.node # None

Inv == TypeOK /\ Round /\ Blocks /\ Scanned
----
(* The best block.                                                         *)

(* Max chooses the greatest of a finite set of numbers that is not empty.  *)
LEMMA MaxExists ==
  ASSUME NEW S \in SUBSET Int, IsFiniteSet(S), S # {}
  PROVE  Max(S) \in S /\ \A y \in S : Max(S) >= y
BY GreatestExists DEF Max

LEMMA NodesAreNumbers == Nodes \subseteq Nat /\ 1 \in Nodes /\ Last \in Nodes /\ None \notin Nodes
BY NodesAssumption DEF Nodes, None

LEMMA BestIsBest ==
  ASSUME block \in [Endpoint -> [Nodes -> 0 .. MaxHead]]
  PROVE  /\ Best \in 0 .. MaxHead
         /\ \A e \in Endpoint, n \in Nodes : Best >= block[e][n]
         /\ \E e \in Endpoint, n \in Nodes : Best = block[e][n]
<1> DEFINE S == {block[e][n] : e \in Endpoint, n \in Nodes}
<1>1. S \subseteq 0 .. MaxHead OBVIOUS
<1>2. IsFiniteSet(S)
  <2>1. IsFiniteSet(0 .. MaxHead) BY FS_Interval, BoundsAssumption
  <2> HIDE DEF S
  <2> QED BY <1>1, <2>1, FS_Subset
<1>3. S # {} BY NodesAreNumbers DEF Endpoint
<1>4. S \subseteq Int BY <1>1
<1>5. Best = Max(S) BY DEF Best
<1> HIDE DEF S
<1>6. Best \in S /\ \A y \in S : Best >= y BY <1>2, <1>3, <1>4, <1>5, MaxExists
<1> QED BY <1>1, <1>6 DEF S

(* Whether a node keeps up depends on the blocks of the round alone.       *)
LEMMA KeepsUpSame == UNCHANGED block => \A e, n : KeepsUp(e, n)' = KeepsUp(e, n)
BY DEF KeepsUp, Best

LEMMA KeepsUpBoolean ==
  ASSUME TypeOK, NEW e \in Endpoint, NEW n \in Nodes
  PROVE  KeepsUp(e, n) \in BOOLEAN
BY DEF KeepsUp
----
(* Types.                                                                  *)

LEMMA InitInv == Init => Inv
<1> SUFFICES ASSUME Init PROVE Inv OBVIOUS
<1>1. TypeOK
  <2>1. healthy \in [Endpoint -> [Nodes -> BOOLEAN]]
    <3>1. healthy = [e \in Endpoint |-> [n \in Nodes |-> e \in Endpoints[n]]] BY DEF Init
    <3> QED BY <3>1
  <2>2. block \in [Endpoint -> [Nodes -> 0 .. MaxHead]]
    <3>1. block = [e \in Endpoint |-> [n \in Nodes |-> 0]] BY DEF Init, Unknown
    <3> QED BY <3>1, BoundsAssumption
  <2>3. height \in [Endpoint -> [Nodes -> 1 .. MaxHead]]
    <3>1. height = [e \in Endpoint |-> [n \in Nodes |-> 1]] BY DEF Init
    <3> QED BY <3>1, BoundsAssumption
  <2>4. scan \in Scan BY DEF Init, Scan, Idle, Endpoint
  <2>5. at \in Nodes BY NodesAreNumbers DEF Init
  <2>6. head \in 1 .. MaxHead /\ since \in 1 .. MaxHead
    <3>1. head = 1 /\ since = 1 BY DEF Init
    <3> QED BY <3>1, BoundsAssumption
  <2>7. /\ pc \in {"ask http", "ask second", "store http", "store second", "sleep"}
        /\ up \subseteq Nodes
        /\ synced \subseteq Nodes /\ steady \subseteq Nodes
    BY DEF Init
  <2> QED BY <2>1, <2>2, <2>3, <2>4, <2>5, <2>6, <2>7 DEF TypeOK
<1>2. Blocks
  <2>1. head = 1 /\ since = 1 /\ synced = {} /\ height["http"] = [n \in Nodes |-> 1]
    BY DEF Init, Endpoint
  <2>2. block["http"] = [n \in Nodes |-> 0] BY DEF Init, Unknown, Endpoint
  <2> QED BY <2>1, <2>2 DEF Blocks
<1>3. Round /\ Scanned BY DEF Init, Round, Scanned, Idle
<1> QED BY <1>1, <1>2, <1>3 DEF Inv

LEMMA OnwardTyped ==
  ASSUME TypeOK, NEW here, NEW next, Onward(here, next)
  PROVE  /\ at' \in Nodes
         /\ \/ pc' = next /\ at = Last /\ at' = 1
            \/ pc' = here /\ at # Last /\ at' = at + 1
<1>1. at \in Nodes BY DEF TypeOK
<1>2. at # Last => at + 1 \in Nodes BY <1>1, NodesAssumption DEF Nodes
<1> QED BY <1>1, <1>2, NodesAreNumbers DEF Onward

LEMMA BlockTyped ==
  ASSUME TypeOK, NEW e \in Endpoint,
         block' = block \/ block' = [block EXCEPT ![e][at] = height[e][at]]
  PROVE  block' \in [Endpoint -> [Nodes -> 0 .. MaxHead]]
<1>1. block \in [Endpoint -> [Nodes -> 0 .. MaxHead]] /\ at \in Nodes
      /\ height \in [Endpoint -> [Nodes -> 1 .. MaxHead]]
  BY DEF TypeOK
<1>2. height[e][at] \in 0 .. MaxHead
  <2>1. height[e] \in [Nodes -> 1 .. MaxHead] BY <1>1
  <2>2. height[e][at] \in 1 .. MaxHead BY <1>1, <2>1
  <2> QED BY <2>2, BoundsAssumption
<1>3. block[e] \in [Nodes -> 0 .. MaxHead] BY <1>1
<1>4. [block[e] EXCEPT ![at] = height[e][at]] \in [Nodes -> 0 .. MaxHead] BY <1>1, <1>2, <1>3
<1> QED BY <1>1, <1>4

LEMMA CheckerTyped == TypeOK /\ Checker => TypeOK'
<1> SUFFICES ASSUME TypeOK, Checker PROVE TypeOK' OBVIOUS
<1> USE DEF TypeOK
<1>1. CASE AskHttp
  <2>1. at' \in Nodes /\ pc' \in {"ask http", "ask second", "store http"}
    BY <1>1, OnwardTyped DEF AskHttp
  <2>2. block' \in [Endpoint -> [Nodes -> 0 .. MaxHead]]
    <3>1. block' = block \/ block' = [block EXCEPT !["http"][at] = height["http"][at]]
      BY <1>1 DEF AskHttp
    <3> QED BY <3>1, BlockTyped DEF Endpoint
  <2>3. synced' \subseteq Nodes
    <3>1. synced' = synced \/ synced' = synced \cup {at} BY <1>1 DEF AskHttp
    <3> QED BY <3>1
  <2> QED BY <1>1, <2>1, <2>2, <2>3 DEF AskHttp, chain, request
<1>2. CASE AskSecond
  <2>1. at' \in Nodes /\ pc' \in {"ask http", "store http"}
    BY <1>2, OnwardTyped DEF AskSecond
  <2>2. block' \in [Endpoint -> [Nodes -> 0 .. MaxHead]]
    <3>1. block' = block \/ block' = [block EXCEPT !["second"][at] = height["second"][at]]
      BY <1>2 DEF AskSecond
    <3> QED BY <3>1, BlockTyped DEF Endpoint
  <2> QED BY <1>2, <2>1, <2>2 DEF AskSecond, chain, request
<1>3. ASSUME NEW e \in Endpoint, Store(e)
      PROVE  healthy' \in [Endpoint -> [Nodes -> BOOLEAN]] /\ steady' \subseteq Nodes
  BY <1>3, KeepsUpBoolean DEF Store
<1>4. CASE StoreHttp BY <1>3, <1>4 DEF StoreHttp, Endpoint, chain
<1>5. CASE StoreSecond
  <2>1. at' \in Nodes /\ pc' \in {"store http", "sleep"}
    BY <1>5, OnwardTyped DEF StoreSecond
  <2> QED BY <1>3, <1>5, <2>1 DEF StoreSecond, Endpoint, chain
<1>6. CASE Wake
  <2>1. block' \in [Endpoint -> [Nodes -> 0 .. MaxHead]]
    <3>1. block' = [e \in Endpoint |-> [n \in Nodes |-> 0]] BY <1>6 DEF Wake, Unknown
    <3> HIDE DEF TypeOK
    <3> QED BY <3>1, BoundsAssumption
  <2> QED BY <1>6, <2>1 DEF Wake, chain, request
<1> QED BY <1>1, <1>2, <1>4, <1>5, <1>6 DEF Checker

LEMMA OthersTyped ==
  ASSUME TypeOK, \/ \E e \in Endpoint : Begin(e)
                 \/ Load \/ Leave \/ Grow \/ UNCHANGED vars
                 \/ \E n \in Nodes : Flip(n) \/ \E e \in Endpoint : Follow(e, n)
  PROVE  TypeOK'
<1> USE DEF TypeOK
<1>1. ASSUME NEW e \in Endpoint, Begin(e) PROVE TypeOK'
  BY <1>1, NodesAreNumbers DEF Begin, Scan, chain, checker
<1>2. CASE Load
  <2>1. scan \in Scan OBVIOUS
  <2>2. scan.node \in Nodes \cup {None} BY <2>1 DEF Scan
  <2>3. scan.node < Last => scan.node + 1 \in Nodes
    <3> HIDE DEF TypeOK
    <3> QED BY <2>2, NodesAssumption DEF Nodes, None
  <2>4. scan' \in Scan
    <3> HIDE DEF TypeOK
    <3> QED BY <1>2, <2>1, <2>3 DEF Load, Scan
  <2> QED BY <1>2, <2>4 DEF Load, chain, checker
<1>3. CASE Leave BY <1>3 DEF Leave, Idle, Scan, Endpoint, chain, checker
<1>4. CASE Grow
  <2>1. head \in 1 .. MaxHead /\ head < MaxHead /\ head' = head + 1 BY <1>4 DEF Grow
  <2>2. head' \in 1 .. MaxHead
    <3> HIDE DEF TypeOK
    <3> QED BY <2>1, BoundsAssumption
  <2> QED BY <1>4, <2>2 DEF Grow, checker, request
<1>5. ASSUME NEW n \in Nodes, Flip(n) PROVE TypeOK'
  BY <1>5 DEF Flip, checker, request
<1>6. ASSUME NEW n \in Nodes, NEW e \in Endpoint, Follow(e, n) PROVE TypeOK'
  <2>1. height[e] \in [Nodes -> 1 .. MaxHead] /\ head \in 1 .. MaxHead OBVIOUS
  <2>2. [height[e] EXCEPT ![n] = head] \in [Nodes -> 1 .. MaxHead] BY <2>1
  <2>3. height' = [height EXCEPT ![e] = [height[e] EXCEPT ![n] = head]]
    BY <1>6 DEF Follow
  <2> QED BY <1>6, <2>2, <2>3 DEF Follow, checker, request
<1>7. CASE UNCHANGED vars BY <1>7 DEF vars, chain, checker, request
<1> QED BY <1>1, <1>2, <1>3, <1>4, <1>5, <1>6, <1>7

LEMMA StepTyped == TypeOK /\ [Next]_vars => TypeOK'
BY CheckerTyped, OthersTyped DEF Next
----
(* What a round leaves.                                                    *)

LEMMA StoreStored ==
  ASSUME TypeOK, NEW e \in Endpoint, Store(e), UNCHANGED block,
         NEW d \in Endpoint, NEW n \in Nodes, Stored(d, n) \/ (d = e /\ n = at)
  PROVE  Stored(d, n)'
<1>1. healthy \in [Endpoint -> [Nodes -> BOOLEAN]] BY DEF TypeOK
<1>2. healthy' = [healthy EXCEPT ![e][at] = KeepsUp(e, at)] BY DEF Store
<1>3. KeepsUp(d, n)' = KeepsUp(d, n) BY KeepsUpSame
<1>4. healthy'[d][n] = IF d = e /\ n = at THEN KeepsUp(e, at) ELSE healthy[d][n]
  BY <1>1, <1>2
<1> QED BY <1>3, <1>4 DEF Stored

LEMMA AtTyped == TypeOK => at \in Nodes /\ at \in Nat /\ at >= 1
<1> SUFFICES ASSUME TypeOK PROVE at \in Nodes /\ at \in Nat /\ at >= 1 OBVIOUS
<1>1. at \in Nodes BY DEF TypeOK
<1> QED BY <1>1, NodesAssumption DEF Nodes

LEMMA StepRound ==
  ASSUME TypeOK, Round, [Next]_vars
  PROVE  Round'
<1>1. CASE AskHttp \/ AskSecond
  <2>1. \/ pc' \in {"ask http", "ask second"}
        \/ pc' = "store http" /\ at' = 1
    BY <1>1 DEF AskHttp, AskSecond, Onward
  <2>2. \A n \in Nodes : ~(n < 1) BY NodesAssumption DEF Nodes
  <2> QED BY <2>1, <2>2 DEF Round
<1>2. CASE StoreHttp
  <2>1. Store("http") /\ UNCHANGED <<block, at>> /\ pc = "store http" /\ pc' = "store second"
    BY <1>2 DEF StoreHttp
  <2>2. \A e \in Endpoint, n \in Nodes : n < at => Stored(e, n)'
    BY <2>1, StoreStored DEF Round, Endpoint
  <2>3. \A n \in Nodes : n = at => Stored("http", n)'
    BY <2>1, StoreStored DEF Endpoint
  <2>4. Stored("http", at)'
    <3>1. PICK n \in Nodes : n = at BY AtTyped
    <3>2. Stored("http", n)' /\ at' = n BY <2>1, <2>3, <3>1
    <3> QED BY <3>2 DEF Stored, KeepsUp
  <2> QED BY <2>1, <2>2, <2>4 DEF Round
<1>3. CASE StoreSecond
  <2>1. Store("second") /\ UNCHANGED block /\ pc = "store second" /\ Onward("store http", "sleep")
    BY <1>3 DEF StoreSecond
  <2>2. \A e \in Endpoint, n \in Nodes : n < at => Stored(e, n)'
    BY <2>1, StoreStored DEF Round, Endpoint
  <2>3. \A n \in Nodes : n = at => Stored("second", n)'
    BY <2>1, StoreStored DEF Endpoint
  <2>4. \A n \in Nodes : n = at => Stored("http", n)'
    BY <2>1, StoreStored DEF Endpoint, Round
  <2>5. \A e \in Endpoint, n \in Nodes : n < at \/ n = at => Stored(e, n)'
    BY <2>2, <2>3, <2>4 DEF Endpoint
  <2>6. CASE pc' = "sleep" /\ at = Last /\ at' = 1
    <3>1. \A n \in Nodes : n < Last \/ n = Last BY NodesAssumption DEF Nodes
    <3> QED BY <2>5, <2>6, <3>1 DEF Round
  <2>7. CASE pc' = "store http" /\ at' = at + 1
    <3>1. \A n \in Nodes : n < at + 1 => n < at \/ n = at
      BY AtTyped, NodesAssumption DEF Nodes
    <3> QED BY <2>5, <2>7, <3>1 DEF Round
  <2> QED BY <2>1, <2>6, <2>7, OnwardTyped
<1>4. CASE Wake BY <1>4 DEF Wake, Round
<1>5. CASE UNCHANGED <<healthy, block, pc, at>>
  <2>1. \A e, n : Stored(e, n)' = Stored(e, n) BY <1>5, KeepsUpSame DEF Stored
  <2>2. Stored("http", at)' = Stored("http", at) BY <1>5 DEF Stored, KeepsUp, Best
  <2> QED BY <1>5, <2>1, <2>2 DEF Round
<1>6. (\/ \E e \in Endpoint : Begin(e)
       \/ Load \/ Leave \/ Grow \/ UNCHANGED vars
       \/ \E n \in Nodes : Flip(n) \/ \E e \in Endpoint : Follow(e, n)) => UNCHANGED <<healthy, block, pc, at>>
  BY DEF Begin, Load, Leave, Grow, Follow, Flip, vars, checker
<1> QED BY <1>1, <1>2, <1>3, <1>4, <1>5, <1>6 DEF Next, Checker

(* A synced node's block is not older than the head was when the round     *)
(* began, and nodes never go back.                                         *)
LEMMA StepBlocks ==
  ASSUME TypeOK, Blocks, [Next]_vars
  PROVE  Blocks'
<1>1. /\ head \in Nat /\ since \in Nat /\ at \in Nodes
      /\ \A n \in Nodes : height["http"][n] \in Nat /\ height["http"][n] >= 0
      /\ \A n \in Nodes : block["http"][n] \in Nat
      /\ synced \subseteq Nodes
  <2>1. head \in 1 .. MaxHead /\ since \in 1 .. MaxHead BY DEF TypeOK
  <2>2. height["http"] \in [Nodes -> 1 .. MaxHead] /\ at \in Nodes /\ synced \subseteq Nodes
    BY DEF TypeOK, Endpoint
  <2>3. block["http"] \in [Nodes -> 0 .. MaxHead] BY DEF TypeOK, Endpoint
  <2> QED BY <2>1, <2>2, <2>3, BoundsAssumption
<1>2. CASE AskHttp
  <2>1. UNCHANGED <<since, head, height>> BY <1>2 DEF AskHttp, chain
  <2>2. /\ block' = IF Answers(at, "http")
                    THEN [block EXCEPT !["http"][at] = height["http"][at]] ELSE block
        /\ synced' = IF Ready(at) THEN synced \cup {at} ELSE synced
    BY <1>2 DEF AskHttp
  <2>3. block \in [Endpoint -> [Nodes -> 0 .. MaxHead]] /\ "http" \in Endpoint
    BY DEF TypeOK, Endpoint
  <2>4. \A n \in Nodes : block'["http"][n] =
          IF n = at /\ Answers(at, "http") THEN height["http"][at] ELSE block["http"][n]
    BY <2>2, <2>3
  <2>5. \A n \in Nodes : block'["http"][n] <= height'["http"][n] /\ height'["http"][n] <= head'
    BY <1>1, <2>1, <2>4 DEF Blocks
  <2>6. \A n \in synced : block'["http"][n] >= since
    BY <1>1, <2>4 DEF Blocks
  <2>7. Ready(at) => block'["http"][at] >= since
    BY <1>1, <2>4 DEF Blocks, Ready, Answers
  <2>8. \A n \in synced' : n \in synced \/ (n = at /\ Ready(at))
    BY <2>2
  <2> QED BY <2>1, <2>5, <2>6, <2>7, <2>8 DEF Blocks
<1>3. CASE AskSecond
  <2>1. UNCHANGED <<since, head, height, synced>> BY <1>3 DEF AskSecond, chain
  <2>2. block' = block \/ block' = [block EXCEPT !["second"][at] = height["second"][at]]
    BY <1>3 DEF AskSecond
  <2>3. block'["http"] = block["http"] BY <2>2 DEF TypeOK, Endpoint
  <2> QED BY <2>1, <2>3 DEF Blocks
<1>4. CASE Wake
  <2>1. since' = head /\ synced' = {} /\ UNCHANGED <<head, height>> BY <1>4 DEF Wake, chain
  <2>2. block'["http"] = [n \in Nodes |-> 0] BY <1>4 DEF Wake, Unknown, Endpoint
  <2> QED BY <1>1, <2>1, <2>2 DEF Blocks
<1>5. CASE Grow
  BY <1>1, <1>5 DEF Grow, Blocks, checker
<1>6. ASSUME NEW e \in Endpoint, NEW n \in Nodes, Follow(e, n) PROVE Blocks'
  <2>1. UNCHANGED <<since, head, block, synced>> BY <1>6 DEF Follow, checker
  <2>2. \A m \in Nodes :
          height'["http"][m] = IF e = "http" /\ m = n THEN head ELSE height["http"][m]
    BY <1>6 DEF Follow, TypeOK, Endpoint
  <2> QED BY <1>1, <1>6, <2>1, <2>2 DEF Blocks, Follow
<1>7. CASE UNCHANGED <<since, head, height, block, synced>> BY <1>7 DEF Blocks
<1>8. (\/ StoreHttp \/ StoreSecond \/ \E e \in Endpoint : Begin(e)
       \/ Load \/ Leave \/ UNCHANGED vars \/ \E n \in Nodes : Flip(n))
         => UNCHANGED <<since, head, height, block, synced>>
  BY DEF StoreHttp, StoreSecond, Begin, Load, Leave, Flip, vars, checker, chain
<1> QED BY <1>2, <1>3, <1>4, <1>5, <1>6, <1>7, <1>8 DEF Next, Checker
----
(* What a request finds.                                                   *)

LEMMA StepScanned ==
  ASSUME TypeOK, Scanned, [Next]_vars
  PROVE  Scanned'
<1>1. /\ healthy \in [Endpoint -> [Nodes -> BOOLEAN]] /\ scan \in Scan
      /\ steady \subseteq Nodes /\ at \in Nodes
  BY DEF TypeOK
<1>2. ASSUME NEW e \in Endpoint, Store(e), UNCHANGED scan PROVE Scanned'
  <2>1. healthy' = [healthy EXCEPT ![e][at] = KeepsUp(e, at)] BY <1>2 DEF Store
  <2>2. \A d \in Endpoint, n \in Nodes :
          healthy'[d][n] = IF d = e /\ n = at THEN KeepsUp(e, at) ELSE healthy[d][n]
    BY <1>1, <2>1
  <2>3. steady' = IF scan.want = e /\ ~KeepsUp(e, at) THEN steady \ {at} ELSE steady
    BY <1>2 DEF Store
  <2>4. scan.want \in Endpoint BY <1>1 DEF Scan
  <2>5. \A n \in steady' : n \in steady /\ healthy'[scan.want][n]
    BY <1>1, <2>2, <2>3, <2>4 DEF Scanned
  <2>6. steady = {} => steady' = {} BY <2>5
  <2> QED BY <1>2, <2>5, <2>6 DEF Scanned
<1>3. ASSUME NEW e \in Endpoint, Begin(e) PROVE Scanned'
  <2>1. /\ scan' = [pc |-> "scan", want |-> e, node |-> 1]
        /\ steady' = {n \in Nodes : healthy[e][n]} /\ UNCHANGED healthy
    BY <1>3 DEF Begin
  <2>2. 1 # None /\ \A n \in Nodes : 1 <= n BY NodesAssumption DEF Nodes, None
  <2> QED BY <2>1, <2>2 DEF Scanned, Idle
<1>4. CASE Load
  <2>1. UNCHANGED <<healthy, steady>> /\ scan.pc = "scan" BY <1>4 DEF Load, checker
  <2>2. scan.node \in Nodes BY <1>1, <2>1 DEF Scanned, Scan
  <2>3. scan'.want = scan.want BY <1>1, <1>4 DEF Load, Scan
  <2>4. scan.node \in Nat /\ scan.node >= 1 /\ scan.node <= Last /\ \A n \in Nodes : n \in Nat /\ n <= Last
    BY <2>2, NodesAssumption DEF Nodes
  <2>5. CASE healthy[scan.want][scan.node]
    <3>1. scan'.pc = "served" /\ scan'.node = scan.node BY <1>1, <1>4, <2>5 DEF Load, Scan
    <3> QED BY <2>1, <2>3, <3>1 DEF Scanned
  <2>6. CASE ~healthy[scan.want][scan.node]
    <3>1. scan.node \notin steady BY <2>6 DEF Scanned
    <3>2. \A n \in steady : n \in Nat /\ n <= Last /\ n > scan.node
      BY <1>1, <2>4, <3>1 DEF Scanned
    <3>3. CASE scan.node < Last
      <4>1. scan'.pc = "scan" /\ scan'.node = scan.node + 1
        BY <1>1, <1>4, <2>6, <3>3 DEF Load, Scan
      <4> QED BY <2>1, <2>3, <2>4, <3>2, <4>1 DEF Scanned, None
    <3>4. CASE ~(scan.node < Last)
      <4>1. scan'.pc = "served" BY <1>1, <1>4, <2>6, <3>4 DEF Load, Scan
      <4>2. steady = {} BY <2>4, <3>2, <3>4, NodesAssumption
      <4> QED BY <2>1, <4>1, <4>2 DEF Scanned
    <3> QED BY <3>3, <3>4
  <2> QED BY <2>5, <2>6
<1>5. CASE Leave BY <1>5 DEF Leave, Scanned, Idle
<1>6. CASE UNCHANGED <<healthy, scan, steady>> BY <1>6 DEF Scanned
<1>7. (\/ AskHttp \/ AskSecond \/ Wake \/ Grow \/ UNCHANGED vars
       \/ \E n \in Nodes : Flip(n) \/ \E e \in Endpoint : Follow(e, n)) => UNCHANGED <<healthy, scan, steady>>
  BY DEF AskHttp, AskSecond, Wake, Grow, Follow, Flip, vars, request
<1>8. CASE StoreHttp BY <1>2, <1>8 DEF StoreHttp, Endpoint
<1>9. CASE StoreSecond BY <1>2, <1>9 DEF StoreSecond, Endpoint
<1> QED BY <1>3, <1>4, <1>5, <1>6, <1>7, <1>8, <1>9 DEF Next, Checker
----
LEMMA StepInv == Inv /\ [Next]_vars => Inv'
BY StepTyped, StepRound, StepBlocks, StepScanned DEF Inv

LEMMA InvHolds == Spec => []Inv
BY InitInv, StepInv, PTL DEF Spec

(* The types, for every number of nodes and length of the chain.           *)
THEOREM TypeCorrect == Spec => []TypeOK
BY InvHolds, PTL DEF Inv

(* Whatever nodes fail, the checker never turns all of them down: the node *)
(* with the best block is left.                                            *)
THEOREM SomeoneServesHolds == Spec => []SomeoneServes
<1>1. Inv => SomeoneServes
  <2> SUFFICES ASSUME Inv, pc = "sleep"
               PROVE  \E e \in Endpoint, n \in Nodes : healthy[e][n]
    BY DEF SomeoneServes, Judged
  <2>1. block \in [Endpoint -> [Nodes -> 0 .. MaxHead]] BY DEF Inv, TypeOK
  <2>2. PICK e \in Endpoint, n \in Nodes : Best = block[e][n] BY <2>1, BestIsBest
  <2>3. Best \in 0 .. MaxHead BY <2>1, BestIsBest
  <2>4. KeepsUp(e, n) BY <2>2, <2>3, BoundsAssumption DEF KeepsUp
  <2> QED BY <2>4 DEF Inv, Round, Stored
<1> QED BY <1>1, InvHolds, PTL

(* An endpoint whose flag is up after a round is at most MaxBehind blocks  *)
(* behind, if the round reached one that was not behind at all.            *)
THEOREM LaggardsAreOutHolds == Spec => []LaggardsAreOut
<1>1. Inv => LaggardsAreOut
  <2> SUFFICES ASSUME Inv, pc = "sleep", NEW m \in synced,
                      NEW e \in Endpoint, NEW n \in Nodes, healthy[e][n]
               PROVE  block[e][n] >= since - MaxBehind
    BY DEF LaggardsAreOut, Judged
  <2>1. block \in [Endpoint -> [Nodes -> 0 .. MaxHead]] /\ synced \subseteq Nodes
        /\ since \in 1 .. MaxHead
    BY DEF Inv, TypeOK
  <2>2. "http" \in Endpoint BY DEF Endpoint
  <2>3. Best >= block["http"][m] /\ Best \in 0 .. MaxHead BY <2>1, <2>2, BestIsBest
  <2>4. block["http"][m] >= since BY DEF Inv, Blocks
  <2>5. block[e][n] >= Best - MaxBehind
    BY <2>2 DEF Inv, Round, Stored, KeepsUp
  <2>6. block["http"][m] \in 0 .. MaxHead /\ block[e][n] \in 0 .. MaxHead BY <2>1, <2>2
  <2> QED BY <2>1, <2>3, <2>4, <2>5, <2>6, BoundsAssumption
<1> QED BY <1>1, InvHolds, PTL

(* A node that had the last block when it was asked is not turned down,    *)
(* unless the chain grew by more than MaxBehind blocks in the round.       *)
THEOREM SyncedAreInHolds == Spec => []SyncedAreIn
<1>1. Inv => SyncedAreIn
  <2> SUFFICES ASSUME Inv, pc = "sleep", ~LongRound, NEW n \in synced
               PROVE  healthy["http"][n]
    BY DEF SyncedAreIn, Judged
  <2>1. block \in [Endpoint -> [Nodes -> 0 .. MaxHead]] /\ synced \subseteq Nodes
        /\ since \in 1 .. MaxHead
    BY DEF Inv, TypeOK
  <2>2. "http" \in Endpoint BY DEF Endpoint
  <2>3. Best \in 0 .. MaxHead BY <2>1, BestIsBest
  <2>4. block["http"][n] >= since /\ block["http"][n] \in 0 .. MaxHead
    BY <2>1, <2>2 DEF Inv, Blocks
  <2>5. KeepsUp("http", n) BY <2>1, <2>3, <2>4, BoundsAssumption DEF KeepsUp, LongRound
  <2> QED BY <2>1, <2>2, <2>5 DEF Inv, Round, Stored
<1> QED BY <1>1, InvHolds, PTL

(* A request is sent to the first node whose flag was up all the time it   *)
(* scanned, or to one before it, whatever the checker stored meanwhile.    *)
THEOREM FirstSteadyHolds == Spec => []FirstSteady
<1>1. Inv => FirstSteady BY DEF Inv, Scanned, FirstSteady
<1> QED BY <1>1, InvHolds, PTL
====
