---- MODULE RpcWsProxy ----
(***************************************************************************)
(* A WebSocket through /rpc: RpcHandler.Ws (pkg/handler/rpcHandler.go).    *)
(* The client is upgraded, a node is dialled, and from then on the bytes   *)
(* are copied between the two raw connections, by the handler from the     *)
(* client to the node and by a goroutine of its own, the copier, the other *)
(* way.  Nobody waits for the copier; the handler's deferred calls close   *)
(* both connections when its own copy ends.                                *)
(*                                                                         *)
(* The bytes travel in chunks, which are counted: each copy is sequential. *)
(*                                                                         *)
(* An operator whose name ends in an underscore and a word is a slip this  *)
(* code could have had; it is used by no definition.                       *)
(***************************************************************************)
EXTENDS Integers

CONSTANTS
  MaxChunks,  \* bound of the model: chunks an end sends
  Room        \* chunks the socket buffers hold for an end that does not read

ASSUME BoundsAssumption == MaxChunks \in Nat /\ Room \in Nat \ {0}

Ends == {"client", "upstream"}
Copies == {"handler", "copier"}

(* The two calls of io.Copy(dst, src).                                     *)
Source == [handler |-> "client", copier |-> "upstream"]
Sink   == [handler |-> "upstream", copier |-> "client"]

VARIABLES
  conn,       \* each end's connection: none yet, open, gone (the peer left), closed
  pc,         \* where the handler and the copier are
  sent,       \* of each end: chunks it sent
  taken,      \* of each end: chunks of it that were read
  given,      \* of each end: chunks that were written to it
  received,   \* of each end: chunks it has read
  swallowed   \* chunks the dialer read along with the answer to its handshake

counts == <<sent, taken, given, received, swallowed>>
vars == <<conn, pc, counts>>

Full(e) == given[e] - received[e] >= Room

Goto(g, l) == pc' = [pc EXCEPT ![g] = l]

(* The upgrade has been made.                                              *)
Init ==
  /\ conn = [client |-> "open", upstream |-> "none"]
  /\ pc = [handler |-> "dial", copier |-> "unborn"]
  /\ sent = [e \in Ends |-> 0]
  /\ taken = [e \in Ends |-> 0]
  /\ given = [e \in Ends |-> 0]
  /\ received = [e \in Ends |-> 0]
  /\ swallowed = 0
----
(* The goroutine with the copy to the client is never started.             *)
Dial_OneWay ==
  /\ pc["handler"] = "dial"
  /\ conn' = [conn EXCEPT !["upstream"] = "open"]
  /\ Goto("handler", "read")
  /\ UNCHANGED counts

(* What the node sends right behind its answer may already be in the       *)
(* buffer of the dialer, which reading from UnderlyingConn passes over.    *)
Dial ==
  /\ pc["handler"] = "dial"
  /\ conn' = [conn EXCEPT !["upstream"] = "open"]
  /\ pc' = [handler |-> "read", copier |-> "read"]
  /\ \E n \in 0..MaxChunks :
       /\ sent' = [sent EXCEPT !["upstream"] = n]
       /\ taken' = [taken EXCEPT !["upstream"] = n]
       /\ swallowed' = n
  /\ UNCHANGED <<given, received>>

(* upstream.Close is not deferred yet.                                     *)
DialFails ==
  /\ pc["handler"] = "dial"
  /\ Goto("handler", "closeClient")
  /\ UNCHANGED <<conn, counts>>

(* One round of io.Copy, which waits for its source and then for its sink. *)
CopyReads(g) ==
  /\ pc[g] = "read"
  /\ conn[Source[g]] # "closed"
  /\ taken[Source[g]] < sent[Source[g]]
  /\ taken' = [taken EXCEPT ![Source[g]] = @ + 1]
  /\ Goto(g, "write")
  /\ UNCHANGED <<conn, sent, given, received, swallowed>>

(* A chunk that was written in part is written again as a whole.           *)
CopyWrites_Twice(g) ==
  /\ pc[g] = "write"
  /\ conn[Sink[g]] = "open" /\ ~Full(Sink[g])
  /\ given' = [given EXCEPT ![Sink[g]] = @ + 1]
  /\ \E l \in {"read", "write"} : Goto(g, l)
  /\ UNCHANGED <<conn, sent, taken, received, swallowed>>

(* A write to a peer that left may go unnoticed: the chunk is lost.        *)
CopyWrites(g) ==
  /\ pc[g] = "write"
  /\ \/ /\ conn[Sink[g]] = "open"
        /\ ~Full(Sink[g])
        /\ given' = [given EXCEPT ![Sink[g]] = @ + 1]
     \/ conn[Sink[g]] = "gone" /\ UNCHANGED given
  /\ Goto(g, "read")
  /\ UNCHANGED <<conn, sent, taken, received, swallowed>>

(* The copy ends: the goroutine with it, the handler goes on to its        *)
(* deferred calls, the last one first.                                     *)
EndOfCopy(g) == Goto(g, IF g = "handler" THEN "closeUpstream" ELSE "done")

(* The end of the stream is taken for a pause in it.                       *)
CopyEnds_Again(g) ==
  /\ pc[g] = "read"
  /\ conn[Source[g]] = "closed"
  /\ EndOfCopy(g)
  /\ UNCHANGED <<conn, counts>>

(* The source has ended; a reset discards what was not read.               *)
CopyEnds(g) ==
  /\ pc[g] = "read"
  /\ conn[Source[g]] \in {"gone", "closed"}
  /\ EndOfCopy(g)
  /\ UNCHANGED <<conn, counts>>

CopyFails(g) ==
  /\ pc[g] = "write"
  /\ conn[Sink[g]] \in {"gone", "closed"}
  /\ EndOfCopy(g)
  /\ UNCHANGED <<conn, counts>>

(* No upstream.Close.                                                      *)
Closes_ClientOnly ==
  \/ /\ pc["handler"] = "closeUpstream"
     /\ Goto("handler", "closeClient")
     /\ UNCHANGED <<conn, counts>>
  \/ /\ pc["handler"] = "closeClient"
     /\ conn' = [conn EXCEPT !["client"] = "closed"]
     /\ Goto("handler", "done")
     /\ UNCHANGED counts

(* No ws.Close: a connection taken over is not closed by the server.       *)
Closes_UpstreamOnly ==
  \/ /\ pc["handler"] = "closeUpstream"
     /\ conn' = [conn EXCEPT !["upstream"] = "closed"]
     /\ Goto("handler", "closeClient")
     /\ UNCHANGED counts
  \/ /\ pc["handler"] = "closeClient"
     /\ Goto("handler", "done")
     /\ UNCHANGED <<conn, counts>>

Closes ==
  \/ /\ pc["handler"] = "closeUpstream"
     /\ conn' = [conn EXCEPT !["upstream"] = "closed"]
     /\ Goto("handler", "closeClient")
     /\ UNCHANGED counts
  \/ /\ pc["handler"] = "closeClient"
     /\ conn' = [conn EXCEPT !["client"] = "closed"]
     /\ Goto("handler", "done")
     /\ UNCHANGED counts
----
(* The ends: they send, read what they got, and leave.                     *)
Sends(e) ==
  /\ conn[e] = "open"
  /\ sent[e] < MaxChunks
  /\ sent' = [sent EXCEPT ![e] = @ + 1]
  /\ UNCHANGED <<conn, pc, taken, given, received, swallowed>>

Receives(e) ==
  /\ conn[e] = "open"
  /\ received[e] < given[e]
  /\ received' = [received EXCEPT ![e] = @ + 1]
  /\ UNCHANGED <<conn, pc, sent, taken, given, swallowed>>

Leaves(e) ==
  /\ conn[e] = "open"
  /\ conn' = [conn EXCEPT ![e] = "gone"]
  /\ UNCHANGED <<pc, counts>>
----
Copy(g) == CopyReads(g) \/ CopyWrites(g) \/ CopyEnds(g) \/ CopyFails(g)
HandlerStep == Dial \/ DialFails \/ Copy("handler") \/ Closes
CopierStep == Copy("copier")

Next ==
  \/ HandlerStep
  \/ CopierStep
  \/ \E e \in Ends : Sends(e) \/ Receives(e) \/ Leaves(e)

(* Goroutines run; no end has to send, to read or to leave.                *)
Fairness == WF_vars(HandlerStep) /\ WF_vars(CopierStep)

Spec == Init /\ [][Next]_vars /\ Fairness
----
(* No buffer holds more than its room, and no chunk is read or given twice: *)
(* what a copy has in hand between read and write was not given yet.       *)
Skipped == [handler |-> 0, copier |-> swallowed]
ChunksOK ==
  /\ \A e \in Ends : taken[e] <= sent[e] /\ given[e] - received[e] \in 0..Room
  /\ \A g \in Copies :
       given[Sink[g]] + Skipped[g] + (IF pc[g] = "write" THEN 1 ELSE 0) <= taken[Source[g]]

(* Where the handler is says which connections it has opened and closed;   *)
(* the copier lives from the dial on.                                      *)
ProgressOK ==
  /\ pc["handler"] # "unborn"
  /\ pc["copier"] \in {"unborn", "read", "write", "done"}
  /\ pc["copier"] = "unborn" <=> conn["upstream"] = "none"
  /\ pc["handler"] = "dial" => pc["copier"] = "unborn" /\ given["client"] = 0
  /\ pc["copier"] = "unborn" => pc["handler"] \in {"dial", "closeClient", "done"}
  /\ pc["handler"] \in {"closeClient", "done"} => conn["upstream"] \in {"none", "closed"}
  /\ conn["upstream"] = "closed" => pc["handler"] \in {"closeClient", "done"}
  /\ conn["client"] = "closed" <=> pc["handler"] = "done"

(* The types of the variables, with where the chunks and the copies are.   *)
TypeOK ==
  /\ conn \in [Ends -> {"none", "open", "gone", "closed"}]
  /\ pc \in [Copies -> {"dial", "unborn", "read", "write",
                        "closeUpstream", "closeClient", "done"}]
  /\ {sent, taken, given, received} \subseteq [Ends -> 0..MaxChunks]
  /\ swallowed \in 0..MaxChunks
  /\ ChunksOK /\ ProgressOK

Ended  == \A g \in Copies : pc[g] \in {"unborn", "done"}
Closed == \A e \in Ends : conn[e] \in {"none", "closed"}
Released == Ended /\ Closed

(* When the handler and the copier have ended no connection is open: the   *)
(* deferred calls of Ws reach both of them whichever end left first, also  *)
(* when the dial fails and there is only one.                              *)
NothingLeftOpen == Ended => Closed

(* The handler waits in a write to a node that is there and does not read. *)
Stalled == pc["handler"] = "write" /\ conn["upstream"] = "open" /\ Full("upstream")

(* When the client leaves, handler and copier end with both connections    *)
(* closed, unless the handler waits forever for a node that does not read. *)
ClientGoneReleases == conn["client"] = "gone" ~> Released \/ []Stalled

(* The handler waits for a client that is there and says nothing.          *)
Unnoticed ==
  pc["handler"] = "read" /\ conn["client"] = "open" /\ taken["client"] = sent["client"]

(* When the node leaves, handler and copier end in the same way, unless    *)
(* the client stays and is silent: the copy towards it ends, and nobody    *)
(* tells the handler, which holds the client's connection until the client *)
(* sends something or leaves.                                              *)
UpstreamGoneReleases == conn["upstream"] = "gone" ~> Released \/ []Unnoticed

(* A chunk that one end sends the other gets, while both are there and the *)
(* other reads; all but what the dialer swallowed.                         *)
Lost == \E e \in Ends : conn[e] \in {"gone", "closed"}
Delivered ==
  \A k \in 1..MaxChunks :
    /\ sent["client"] >= k
         ~> given["upstream"] >= k \/ Lost \/ []Full("upstream")
    /\ sent["upstream"] - swallowed >= k
         ~> given["client"] >= k \/ Lost \/ []Full("client")
====
