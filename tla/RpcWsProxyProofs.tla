---- MODULE RpcWsProxyProofs ----
(***************************************************************************)
(* Proofs about RpcWsProxy, for any number of chunks and any room in the   *)
(* buffers: the types with the bookkeeping of the chunks, and that no      *)
(* connection is open when handler and copier have ended.                  *)
(***************************************************************************)
EXTENDS RpcWsProxy, TLAPS

(* The invariant holds at the beginning and is kept by each action.        *)
LEMMA InitInv == Init => TypeOK
BY BoundsAssumption DEF Init, TypeOK, ChunksOK, ProgressOK, Skipped, Ends, Copies, Sink, Source

LEMMA DialInv == ASSUME TypeOK, Dial \/ DialFails PROVE TypeOK'
<1>1. CASE Dial
  <2>1. pc' \in [Copies -> {"dial", "unborn", "read", "write",
                          "closeUpstream", "closeClient", "done"}]
    BY <1>1 DEF Dial, Copies
  <2>2. pc'["handler"] = "read" /\ pc'["copier"] = "read"
    BY <1>1 DEF Dial
  <2>3. given["client"] = 0
    BY <1>1 DEF Dial, TypeOK, ProgressOK
  <2>4. ChunksOK'
    BY <1>1, <2>2, <2>3, BoundsAssumption
    DEF Dial, TypeOK, ChunksOK, Skipped, Ends, Copies, Sink, Source
  <2>5. ProgressOK'
    BY <1>1, <2>2, <2>3 DEF Dial, TypeOK, ProgressOK, Ends, Copies
  <2> QED
    BY <1>1, <2>1, <2>4, <2>5, BoundsAssumption DEF Dial, TypeOK, Ends, Copies
<1>2. CASE DialFails
  BY <1>2, BoundsAssumption DEF DialFails, Goto, counts, TypeOK, ChunksOK, ProgressOK, Skipped, Ends, Copies, Sink, Source
<1> QED BY <1>1, <1>2

LEMMA CopyInv == ASSUME TypeOK, NEW g \in Copies, Copy(g) PROVE TypeOK'
<1> USE BoundsAssumption DEF TypeOK, ChunksOK, ProgressOK, Skipped, Ends, Copies, Sink, Source
<1>1. CASE CopyReads(g)
  <2>1. CASE g = "handler" BY <1>1, <2>1 DEF CopyReads, Goto
  <2>2. CASE g = "copier" BY <1>1, <2>2 DEF CopyReads, Goto
  <2> QED BY <2>1, <2>2
<1>2. CASE CopyWrites(g)
  <2>1. CASE g = "handler" BY <1>2, <2>1 DEF CopyWrites, Goto, Full
  <2>2. CASE g = "copier" BY <1>2, <2>2 DEF CopyWrites, Goto, Full
  <2> QED BY <2>1, <2>2
<1>3. CASE CopyEnds(g) \/ CopyFails(g)
  <2>1. CASE g = "handler" BY <1>3, <2>1 DEF CopyEnds, CopyFails, EndOfCopy, Goto, counts
  <2>2. CASE g = "copier" BY <1>3, <2>2 DEF CopyEnds, CopyFails, EndOfCopy, Goto, counts
  <2> QED BY <2>1, <2>2
<1> QED BY <1>1, <1>2, <1>3 DEF Copy

LEMMA ClosesInv == ASSUME TypeOK, Closes PROVE TypeOK'
BY BoundsAssumption DEF Closes, Goto, counts, TypeOK, ChunksOK, ProgressOK, Skipped, Ends, Copies, Sink, Source

LEMMA EndsInv == ASSUME TypeOK, NEW e \in Ends, Sends(e) \/ Receives(e) \/ Leaves(e) PROVE TypeOK'
<1> USE BoundsAssumption DEF TypeOK, ChunksOK, ProgressOK, Skipped, Ends, Copies, Sink, Source
<1>1. CASE Sends(e) BY <1>1 DEF Sends
<1>2. CASE Receives(e) BY <1>2 DEF Receives
<1>3. CASE Leaves(e) BY <1>3 DEF Leaves, counts
<1> QED BY <1>1, <1>2, <1>3

(* The types; and that no chunk is read, given or received that was not    *)
(* sent, read or given, no end is given more than the room of its buffer,  *)
(* and the copier runs from the dial on, with the connections as the       *)
(* handler left them: io.Copy of RpcHandler.Ws in both directions.         *)
THEOREM TypeCorrect == Spec => []TypeOK
<1>1. TypeOK /\ [Next]_vars => TypeOK'
  <2> SUFFICES ASSUME TypeOK, [Next]_vars PROVE TypeOK' OBVIOUS
  <2>1. CASE Dial \/ DialFails BY <2>1, DialInv
  <2>2. CASE Closes BY <2>2, ClosesInv
  <2>3. ASSUME NEW g \in Copies, Copy(g) PROVE TypeOK' BY <2>3, CopyInv
  <2>4. ASSUME NEW e \in Ends, Sends(e) \/ Receives(e) \/ Leaves(e) PROVE TypeOK'
    BY <2>4, EndsInv
  <2>5. CASE UNCHANGED vars
    BY <2>5 DEF vars, counts, TypeOK, ChunksOK, ProgressOK, Skipped
  <2> QED BY <2>1, <2>2, <2>3, <2>4, <2>5 DEF Next, HandlerStep, CopierStep, Copies
<1> QED BY <1>1, InitInv, PTL DEF Spec

(* The deferred calls of RpcHandler.Ws leave no connection open, whichever *)
(* end left first and whether or not the dial succeeded.                   *)
THEOREM NothingLeftOpenHolds == Spec => []NothingLeftOpen
<1>1. TypeOK => NothingLeftOpen
  BY DEF TypeOK, ProgressOK, NothingLeftOpen, Ended, Closed, Copies, Ends
<1> QED BY <1>1, TypeCorrect, PTL
====
